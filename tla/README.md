# A verification project for WHUCTF-2023

The repository holds the programs of a programming contest: small network services,
the clients that talk to them, web pages with their back ends, ciphers, generators and
reference solutions. This directory models the programs that keep state or compute
something that can go wrong, checks the models with TLC on small instances, and proves
the central statements with TLAPS for every value of the constants. Everything here is
about what the programs do when they are used as intended, with the interleavings,
deaths, restarts and early returns that running them involves.

Contents: 1 inventory, 2 plan, 3 the modules, 4 runs and bounds, 5 fairness,
6 proofs, 7 what is only model-checked, 8 what is not modelled, 9 where code and
documents differ.  Paths are relative to the repository.

## 1. Inventory

| part | code | state it keeps | operations | what is hard |
|---|---|---|---|---|
| sign-in service | `Reverse/client/server.c`, `client.c`, `docker/init.sh` | server: `global_data` (kept across sessions), `glob_ptr`, `elements_ptr`, the place in the script; client: `global_data`, 500 elements; the connection and its backlog | accept, read pointers, 13 loads, prompt, run, exit; client: new, del, exec, exit, report, ragequit; supervisor: restart | data left over from the session before; unchecked results of `read`/`write`; SIGPIPE; a restart whose `bind` fails unnoticed; one idle client blocks the rest |
| its cipher | `server.c:11-38`, `code.c`, `std.c`, and the assembly in `server.c:224-306` | none | `myencrypt`, `mydecrypt`, the two assembled copies | four copies of one cipher have to be inverses of each other, in 32-bit arithmetic |
| number guessing | `Misc/checkin/checkin.c` | the number, the chances left, the unread input | compare a guess, read an attempt | what cannot be parsed stays in the input; ten chances against 1024 numbers |
| text clustering service | `Web/text-clustering/build/app.py`, `ai.py` | uploaded archives, extracted samples, a pickled model per name | train, classify, list models | requests in parallel threads on one directory: checks of existence that are stale when used, archives left over after an early return, a model read while it is written |
| its page | `Web/text-clustering/build/static/script.js`, `templates/index.html` | rows of samples, `sampleCount`, the list of models | add, remove and clear rows, train, classify, load models | the count and the rows drift apart; overlapping reloads |
| course selection | `Web/subject-system/build/src/static/app.js`, `build/src/course.php`, `build/conf/db.sql` | the list shown, the courses selected, the sort order | sort, select, remove | replies out of order |
| encryption form | `Web/who-are-you/build/app.py` | a key per process | encrypt, decrypt | a restart makes older ciphertexts unreadable |
| location service | `Misc/lunar/chall.py` | a process per connection | receive, check a location | a message split over packets; what exactly a location has to look like |
| number service | `Crypto/io_template/chall.py` | a process per connection | receive a line, ask, compare | the same receive loop |
| Blowfish | `PPC/PEShellcode/solution/task_blowfish.cpp`, `attachment/` | the key schedule | submit a key, encrypt, decrypt | keyed and unkeyed states, blocks shorter than eight bytes |
| loader of that program | `PPC/PEShellcode/.../Syringe.hpp`, `Memory.hpp`, `gamemd.*`, `task.cpp` | a foreign process's memory | hooks | external: a game executable |
| coroutine generator | `Reverse/fibs/fibs.cpp` | the generator's frame | next, `magic`, `get` | small arguments wrap around |
| segments | `Reverse/segments/segments.c` | none | format check, CRC-32 | tables, bit order |
| knapsack | `Crypto/lattice/task.py` | key pair | generate, encrypt, decrypt | the modulus must exceed the sum of the key |
| AES variant | `Crypto/miaES/task.py`, `std.py` | round keys | encrypt, decrypt, OFB | lists updated in place or not |
| tokens | `Crypto/imitate/task.py`, `std.py` | an RSA key | sign, verify | padding of base64url |
| pieces | `Crypto/pieces/task.rs`, `std.rs`, `std.py` | none | split and join bytes | hexadecimal without leading zero |
| string cases | `Misc/case/std.py` | an iterator | next | carry over the letters |
| stream cipher pieces | `Misc/tr4ce/main.rs` | the position in the key stream | seek, apply | chunks that must line up |
| write-ups and puzzles | `Teams_Writeups/`, `Misc/magic`, `Reverse/baby_interactive`, `Crypto/tmp.py` | none | none | documents, rules for a tool, one-off scripts |
| keystone, layout | `Reverse/client/docker/keystone/llvm/lib/MC` | the fragments of a section, labels, remembered offsets, jumps short or long, displacements | emit, lay out, relax, fix up, write | offsets remembered while jumps grow; a jump judged by offsets that are out of date |
| keystone, conditionals | `.../lib/MC/MCParser/AsmParser.cpp`, `AsmCond.h` | the current conditional, the stack of outer ones, the macros being read, the error | `.if` and relatives, `.else`, `.endif`, macro call, end and exit | macros that open, close or leave conditionals of their caller; statements that fail, behind which reading goes on |
| keystone, operands | `.../Target/X86/AsmParser/X86AsmParser.cpp` | registers, scale, operator stack, postfix list | one call per token | precedence and signs while scaled registers are taken out; a factor cut to the width of the scale |
| keystone, string map | `.../lib/Support/StringMap.cpp`, `ADT/StringMap.h` | buckets, items, tombstones | find, insert, erase, clear | probes without a bound; entries that move in a rehash |
| keystone, the rest | other targets, instruction tables, lexer, big numbers | none, or tables | encode, parse, convert | vendored; used through `ks_open`, `ks_asm`, `ks_free` |

### How the parts interact

The sign-in client and server share nothing but one TCP connection per session. The
server drives: it writes `global_data` and a request, and then reads the client's
`global_data`. The client obeys and knows nothing about the order of the requests.
The code that the client executes is assembled by the server for the addresses the
client sent first. `docker/init.sh` is the only thing that reacts to the death of the
server. The page of the text clustering service calls `/train`, `/classify` and
`/getModels`; `app.py` calls `ai.train` and `ai.classify`, and all requests share one
directory tree. `app.js` calls `course.php`, which reads the table that `db.sql` fills.
The sign-in server assembles what it sends with keystone, whose parts above work
one after another in one `ks_asm`; a text that does not assemble ends the server
(`server.c:68`), which `SignIn` has as a death. The other programs run alone.

### What makes each part correct

* sign-in service: a client tells its user the verdict the server reached in that
  client's own session, reached on what was typed there; the check that the client executes agrees
  with it; clients end; the service is lost to no client that stays.
* cipher: the two functions are inverses, the assembled copies are the C functions, and
  the documented input is the one the server's table asks for.
* guessing game: replies are about the words in order, the result is deserved, the game
  ends, and a bisecting player wins as far as ten chances allow.
* text clustering: a text lies under the type it was sent with, a request that is told
  it trained has learned all it sent but what it overwrote itself, failures leave only what
  can be explained, in the upload directory and in the model file.
* its page: what is posted is well formed and each file travels with its own type.
* course selection: no course is selected twice, however replies overtake one another.
* classification: once the page is quiet its box offers what there is, and a model twice
  only where reloads overlapped.
* encryption form: a page is read as what was typed for it by the process that served it,
  and by no other.
* Blowfish: a text deciphered as it was enciphered is back, whatever keys came and went.
* keystone: jumps land where the text says, short ones reach, relaxing ends; text is
  skipped exactly in skipped blocks; an operand addresses what it says; the map is a set.
* location service: the answer is about what was said, however it was cut, and every
  conversation ends.

## 2. Plan

Done, in the order of their importance:

1. `SignInSpec`, `SignIn`: the abstract promise and the two processes.
2. `Tea`: the cipher, which discharges `SignIn`'s assumption about it.
3. `TrainService`, `TrainPage` (the page extends the service): training.
4. `GuessGame`, `Bisection` (the player extends the game).
5. `CoursePage`, `LocationService`, `ModelPage`, `CipherForm`: four small services, composed
   in `MCWeb`.
6. `AsmLayout`, `AsmConditionals` and `StringMap` with `KeySet` (composed in `MCAssembler`), and
   `IntelExpr`: the parts of the assembler that keep state between calls.
7. `Blowfish`, which with `Tea` and `IntelExpr` is composed in `MCAlgorithms`.
8. The theorems of section 6, with the induction they share in `Recursion`.

Abstract specifications: `SignInSpec` (a session's outcome is its verdict or a loss), which
`SignIn` implements, and `KeySet` (a set of keys), which `StringMap` implements.

Left: the lexer and the macro expansion in front of `AsmConditionals`; several sections in
`AsmLayout`. Section 8 says what is left out for good.

## 3. The modules

An `MC` module gives the constants values and, where several parts share a run, puts them
side by side: a variable `job` says which of them moves. Most modules state faulty variants
of single definitions (marked so), which no specification uses: substituting one for the
definition it varies breaks the property named for it.

**`SignIn`** has the server's variables (place in `main`, port, backlog, pointers,
`global_data`, step of the script), the clients' (place in `main`, `global_data`,
elements, what was typed, printed and told) and the two directions of each connection.
The server's script is a counter: thirteen loads, the prompt, the run, the exit.
`global_data` is kept as two 16-byte halves and byte 255, all the program tells apart.
The user types both halves of the 32-byte input, the first, or nothing; the rest is what
`global_data` held before, as `server.c:51` and `373` have it. `typed` and `left` are history
variables: what a client typed, and the head the server held when it accepted that client. `read` returns what was
sent; or part of it, bounded by `MaxShort`, after which the bytes that arrive are
arbitrary; or nothing, when the peer is gone, and the old value is used. `Die` is SIGPIPE
or the `exit(1)` of `_operation_new` when the text to assemble holds a null pointer.
`Restart` is `init.sh`; `bind` is not checked, so a port that is still taken yields
another one.

**`SignInSpec`** is what a user may rely on: sessions begin, one at a time; a verdict is
reached in a session and then told to its client, or the client is lost.
`PromiseKept` is the refinement.

**`Tea`** has the cipher at full width: a word is four bytes, addition carries from byte
to byte, exclusive or is summed bit by bit. A run applies one function and then the other,
each in its C or its assembled copy; they differ in when a loop ends (a count of rounds
against a value of the sum). `trail` remembers the blocks between rounds.

**`GuessGame`** is `main` of `checkin.c` with the terminal as a stream of words: a word
`scanf` cannot read is not consumed. **`Bisection`** adds the player of
`Misc/checkin/README.md:11`. `MCGuess` has both kinds of player.

**`TrainService`** is one request handler per thread in `train` of `app.py` and of
`ai.py`, over one upload directory, one directory of extracted texts and one model file:
an archive is opened (emptied), written, looked for, opened, extracted entry by entry and
removed in separate steps; a text that is extracted overwrites one of the same name, whoever
it is from; the model file is emptied and written in two. `Learn` lists and reads the
directory in one step. **`TrainPage`** extends it with the page: upload points, the counter,
and the lookup of files and types by position.

**`ModelPage`** is the other half of that service: the page's box of models, which a reload
empties when it starts and fills when its list arrives, the reloads under way, the button,
and `/classify` over model files that trainings write meanwhile. `known` and `during` of a
reload are history variables: the models there were when it was started, and the reloads
that had not been shown.

**`CipherForm`** has the process that runs and its key, numbered in the order they were
drawn, the pages each user has in the browser's history, and what the browser waits for.
Reading looks at the key alone; of which process a page and an answer are is history.

**`CoursePage`** numbers the fetches; replies come in any order or not at all.

**`LocationService`** is one connection (each is served by a process of its own), with
tokens for runs of bytes that are not cut. `cuts` says whether this network hands over
lines in parts. The client waits for the prompts, as `std.py` does.

**`AsmLayout`** is one section from its statements to the displacements in its bytes, in the
phases of the code: the streamer cuts the program into fragments and holds back labels that
no data fragment holds (`pending`); the layout computes offsets on demand and remembers them
up to `LastValidFragment` (`laid`), and counts for nothing what it cannot lay out (`LabelOffset`); a pass looks at the jumps one by one and makes those
longer that do not reach; when one grew, offsets are forgotten from the first of them and
another pass follows; then the fixups are evaluated and written (`code`). Bytes are counted
and not spelled, an address is an integer.

**`AsmConditionals`** has `TheCondState`, `TheCondStack` and, of each macro being read, the
depth at which it was entered, and `KsError`. A statement that fails with `KsError` set is
followed by the next, which forgets the error, its own leftover tokens first (`Refuse`,
`IfUnread`); only one that fails without ends the reading (`Stops`). `frames` is a history
variable, the conditionals that are open with the branches they had, from which the
properties say what should be skipped.

**`StringMap`** has the buckets, the counts of items and of tombstones and the last answer;
the probe is the code's quadratic one and `NewSize` its rule for growing or rehashing in
place. A rehash goes through the old table bucket by bucket (`Moved`), and the bucket it returns
follows the entry just inserted from its old place to its new one. **`KeySet`** is a set with the answers the calls owe.

**`IntelExpr`** is one action per kind of token (`OnPlus`, `OnRegister`, ...) over the
state, base, index, scale, the stack of operators and the postfix list, as in
`IntelExprStateMachine` and `InfixCalculator`. The scale is as many bits wide as `ScaleWidth`
says (`Narrow`; 32 in the code), and registers that do not go together are refused at the end
(`Mismatched`). `Meaning` is the reference: the value of the
operand by the grammar's levels of precedence. What `pushOperator`'s loop pops is stated by places
of the stack: everything above the topmost operator that is in no closed parentheses (`InClosed`,
the loop's `ParenCount`) and at which the loop would stop (`Stops`).

**`Blowfish`** has the two tables of subkeys, the substitution table and the texts, with
`Submit_Key`, `Encrypt` and `Decrypt` as actions; `layers` remembers what was done to the
text and not undone.

The theorems about a module are in the `_proofs` module of the one that composes it, or its
own. **`Recursion`** is what they share: induction over the natural numbers for a set of
them, that a function defined by recursion from 0 to some number exists, is of the
type the recursion steps in and agrees with any other whose steps are the same, that some numbers
up to a bound have a least and a greatest, and induction on the difference of two
numbers, for the parts of an operand. The library's induction theorems take an operator, and the
provers at hand cannot instantiate those; here a set, or a function of the step, takes its
place.

## 4. Runs and bounds

| run | instance | shows |
|---|---|---|
| `signin_sessions` | two clients, both may be killed; three values per half; ports linger; one early return of `read` | safety of the service, what loses it, and the refinement |
| `signin_progress` | two clients, one may be killed; whole reads | clients end and are told |
| `guess` | eight numbers, three chances; four words of any kind, or a bisecting player | order of replies, deserved result, end; bisection loses to one number only |
| `train_one_at_a_time` | two requests, three texts, two of them of one name, two types, counts to two; a process that may die | labels, completeness, causes of errors |
| `train_overlapping` | two overlapping requests with good forms; a process that may die | what overlap does not break, and how a model file gets torn |
| `train_page` | two upload points, two clicks, counts to three | posted forms, the counter |
| `train_page_types` | as `train_page` | section 9 |
| `web` | fourteen lines of one to eight tokens against a buffer of three; two courses, models and users; three fetches, selections, reloads and processes | the four services of `MCWeb` |
| `algorithms` | ten blocks, two keys, both orders, all copies of the cipher; Blowfish with words of two bits, four rounds, three keys, texts of up to three words; operands of up to six tokens over three registers, one of which goes with no other, three numbers and ten marks, eight bits wide with four for the scale | the algorithms of `MCAlgorithms` |
| `assembler` | all programs of up to four statements of twelve kinds with two labels, and those of five of eight kinds at the limit of a short jump; conditionals three deep, two macros; a map of five colliding keys from sizes 0, 1, 2, 4, 8 | layout, relaxation, fixups, skipping, and that the map is a set |
| `resolved_jumps`, `skipped_ifeqs` | parts of `assembler` | section 9 |

Why the bounds are enough. Three values per half are the fewest for which a cipher differs
from its inverse, so that a swapped direction shows; two inputs are one right and one wrong
in both halves. Two clients are one in a session and one in the backlog or in the next
session, which is all that stale data needs; an early return is followed while a single
client has started, and the other one finds what that leaves (`MCNext`). Eight numbers and
three chances are the program's proportion of 1024 and ten, with wrong guesses on both
sides, a win, a loss and a typed-ahead word left over; `MCGuess_proofs` covers the
program's own sizes. Two requests suffice for one archive written by one and read by the
other; the third value that a number of samples can have (0, 1, 2) is the one past the last
sample. Three fetches or reloads are one that is overtaken, one that overtakes it and one
that comes last. A buffer of three tokens has lines that are shorter, as long, twice as long
and in between. The cipher's blocks are the documented ones and the two borders; the proof
covers all. In two labels, two jumps and what lies between them one jump's growth puts the
other out of reach, and an alignment takes it back; five keys are more than fill four
buckets to the threshold and leave tombstones in eight; six tokens have a sign, a
parenthesis and a scaled register in one operand, and of 2, 3 and 18 the last is a scale only
in four bits. Two texts of one name and a third are one that is overwritten and one that
is not.

Bounds that only TLC needs: `MaxShort`, `MaxTyped`, `MaxCount`, `MaxRows`, `MaxFetches`,
`MaxSelects`, `MaxReloads`, `MaxRuns`, `MaxLayers`, `MaxTokens`, `MaxDepth` and the set
`Programs`; `MCTrainPage` edits the page only while no training runs and leaves type
names with `..` to `MCTrainService`. `CHECK_DEADLOCK FALSE` everywhere: all these programs end,
or wait for a user who may never come.

## 5. Fairness

* `SignIn`: the server runs when it can, `init.sh` restarts it, and every client runs, its
  user answering the prompt. The last is an assumption about users: without it one idle
  client keeps everyone waiting (`server.c:434`). Nobody has to be killed, and nothing is
  assumed of the kernel's freeing the port.
* `MCGuess`: the game is not suspended; a bisecting player keeps playing, a free one need not.
* `MCWeb`: the location service's process runs, and a client that is asked says something or
  leaves. Leaving is never required. The other three services have no liveness property: a
  reply may be lost and a user may go away.
* `MCAssembler`: the one thread of `ks_asm` goes on.

## 6. Proofs

Proved by TLAPS for every value of the constants, from the assumptions named in the modules:

* `SignIn_proofs`. The inductive invariant is `TypeOK` with `VerdictTravels`, which has four
  parts: who is where in a session (`PlacesInv`), what the server holds at each step
  (`SessionInv`), what every request on its way carries (`RequestInv`), what each client holds
  and has told (`ClientInv`). `ReportIsVerdict` alone is not inductive: the verdict passes
  through `global_data`, a request, the client's `global_data` and its exit. From it follow
  `ReportIsVerdict`, `FlagIsShown`, `BannerIsVerdict` (with `CipherAssumption`: the two
  functions are inverses), that a verdict is never revised (`Final`), and `PromiseKept`
  (`Implements`). Early returns, deaths and restarts are included, with no bound on them.
  Three more invariants stand on it, about clients that have not quit: `PtrInv`, which
  pointers are on their way and that those the server read are of the client it serves;
  `CodeInv`, that a client has obeyed the first steps of the script and the requests on their
  way are the next ones, up to the server's step, which gives `CodeIsReady` (`CodeLoaded`);
  and `TurnsInv`, that without early returns server and client take turns, so that each reply
  is to the request before it, which gives `VerdictIsAboutInput` (`InputJudged`): who types
  all 32 bytes is judged by them alone, whatever sessions and deaths came before; who types
  less is judged together with what the server held when it accepted this client, to which
  the session adds nothing.
* `MCAlgorithms_proofs`, the cipher: what `CipherAssumption` says (`RoundTrip`), for every block,
  key, order and combination of copies. The argument: `trail` holds the blocks after each round
  of the first function, the second undoes the last of them with the sum it had, and word
  addition and exclusive or cancel. `SameRounds` needs that the sum, n times delta modulo 2^32,
  meets its end value after 32 rounds and not before; the constant `Sums` lists those sums, and
  TLC evaluates that assumption.
* `MCAlgorithms_proofs`, Blowfish: `TextsComeBack`, for every number of pairs of rounds, word size,
  initial tables, keys, texts (also those shorter than a block) and order of calls. A round is
  undone by exclusive or with the same subkey, so a block is undone by going through the table
  backwards; `Decrypt`'s table is `Encrypt`'s reversed, whichever key was submitted last
  (`Keyed`); the text is its first value put through the calls in `layers`, one after another
  (`Layered`), and taking a layer off is one of these steps back. `BlowfishConstants` says of the
  abstract exclusive or that it commutes, associates and cancels.
* `MCAlgorithms_proofs`, operands: `OperandsDenote`, that is `Denotes` for any registers, numbers and
  marks, any widths of numbers and of the scale and operands of any length. An operand is plain
  when the factors of its registers fit the scale, so that cutting them changes nothing
  (`NarrowKeeps`); of others section 9 speaks. The inductive invariant is `Traced`: the machine is
  where a run over the tokens read so far leads, from configuration to configuration (`Trace`),
  or where its last token or its `]` was refused (`Stuck`). `Denotes` is not inductive: between the
  brackets nothing is worked out yet. Four inductions over such a run and over the parts of
  the operand do the rest. (1) What is in base and index, and the register that waits to
  be placed, add up to the registers read, each times its factor (`MachineSums`): a `scale * register` takes
  its number and its operator off the calculator, because a product behind a `+` is pushed without
  popping anything (`TimesStep`). (2) What a part of the operand means by the levels of precedence
  counts the same registers (`MeaningSums`), as no part is cut inside of a register's addend
  (`PartsFree`). (3) The calculator adds to its stacks the value of a part and changes nothing
  below (`PartsEvaluate`), for parts that begin the operand, follow a parenthesis, or follow an operator
  that binds less than those inside (`Opening`): where the part is cut, what is flushed is the left
  value, the right value and the operator, and parentheses that are closed lie on the stack
  until something is pushed that binds less (`Above`, `Closed`). (4) Base and index in use are as
  many as the registers read, and index without base had a factor (`AllCounted`), so that an operand of the form
  Base + Scale\*Index + displacement finds room for both, whatever their order; and what is in
  them are registers read at two different places (`AllSourced`), so that registers that go
  together are not refused (`FormMatched`).
  The assumption `OperandConstants`: registers are numbered from 1, marks are operators and
  parentheses, and powers of two and sums of them are natural numbers (the provers know neither
  `^` nor the community modules' folds).
* `MCGuess_proofs`: types, `RepliesInOrder`, `ResultIsDeserved` for every range, number of
  chances and set of words; and, if the range has at most one number more than the chances
  tell apart, that what remains of it always can be searched but for one number (`Narrows`),
  so that who bisects loses to that number only (`BisectionLosesToOne`).
* `TrainPage_proofs`, the service: types; `Labelled`: for any number of overlapping requests a text
  lies under a type only where both were sent for the same sample number, because every archive
  and every open file holds texts sent for its number (`Sourced`); `LeftoversOwed`: an
  archive in the upload directory is owed by a request that has still to pass it or failed.
  `TornExplained`: whatever overlaps and dies, a model file that nobody is writing is of
  requests that trained, but for its beginning, which may be of one that was lost, and only then
  does it lack its end.
  Three theorems assume that requests do not overlap (`~ Overlap`): `LearnsAll`, `CausesKnown` and
  `LabelledAlone`, and two of them that a type never comes without its file (`TypesHaveFiles`).
  Their invariants say of the one request that runs what it has written, extracted and
  learned so far, and of the files what an earlier failure may have left (`AloneInv`); for
  `LearnsAll`, that a text it has extracted lies in its directory or was replaced by a later one
  of its own (`LearningInv`).
* `TrainPage_proofs`, the page in front of it: `PagePostsPairs` and `TrainedPagesWereCleared`, for
  any number of points, edits and requests. `PageInv` says that `sampleCount` is the number of
  points or one more; that a form counts its points or one more, and that one has no type; and
  that the request has found a type at each number it has passed. A form that counts one more
  can thus never have been told that it trained.
* `AsmLayout_proofs`, for every program, base and set of labels: types; `AsmOffsets`: the offset that
  is remembered for a fragment is the end of the one before it, up to the first that grew in this
  pass, so that forgetting from there is enough; `AsmShortJumps`: when the last pass ends, every
  jump still short was judged by the offsets that are final; `AsmJumpsLand`: what assembles
  without an error jumps and calls where the text says. Its invariant has two parts besides the
  offsets. Between each two statements there is a place in the fragments, and
  the labels are at the places of their statements (`Streaming`); that no jump that grows moves a
  place out of its fragment is why places and not addresses are kept. The displacements written
  are those of the fixups before the one at hand, counted through the fragments (`Coded`). At the
  end a place is where `End`, the program's own reckoning statement by statement, says
  (`Reckoned`), and the n-th transfer has the n-th displacement.
* `AsmLayout_proofs`, the way to the end: `AsmNearsItsEnd`. Every step makes `ToDo` less, a list of
  seven natural numbers compared at the first place they differ in: the phases to come, the
  jumps that can still grow, whether one grew in this pass or this round, the statements or
  fragments left, their fixups, the fragments to lay out. Such lists do not descend for ever,
  so that with the fairness of section 5 only a state without a step could be in the way of
  `LayoutEnds`, which stays with TLC.
* `MCAssembler_proofs`, conditionals: `ConditionalsSkip`, for any depth of conditionals and macros and
  any statements that fail on the way, from two invariants: the state and the stack agree with
  `frames` conditional by conditional, up to those of which nobody can say (`Agrees`), and a file that
  ended without an error has none open (`Closed`).
* `MCAssembler_proofs`, the string map, for any keys, hashes and powers of two of buckets
  (`MapConstants`): `EveryProbeEnds` and the refinement `MapIsAKeySet`. `MapInv` says that the
  counts are those of the table, that no key is in it twice, that the probe for a key in it
  meets no bucket never used before it, and that one such bucket there is always. That the
  quadratic probe meets every bucket of a power of two is proved by counting: no two of its steps
  meet the same one, since twice the difference of two triangular numbers is a product of which
  one factor is odd, and a power of two that divides the product divides the other (`PowersCancel`).
  A rehash is followed stage by stage: the keys of the buckets passed are in the new table, and
  the bucket returned is where the new table holds the entry at hand (`MovedIsTable`).
* `MCWeb_proofs`: `BoxHolds` for any number of models and reloads, because what the last
  reload brought stays in the box and whatever else is there is of reloads that were under way
  when it was started (`BoxInv`); `ReadHolds` for any number of users and restarts, as every page was
  sealed with the key of the process it is from, and no two processes have one key (`FormInv`);
  `CoursesSelectedOnce` for any order of replies (`CoursesInv`; removing a course is a fold, which is
  followed element by element); `LocationAnswers` and `AwardsDeserved` for every buffer size, set of
  lines and way to cut them, because what is collected and what is still to come is always the
  end of what was said (`Contiguous`), and the line said to the prompt where nothing is cut (`InTurn`).
  `ConversationNearsItsEnd`: once the client has left, a handler that waits always finds a part to
  receive, and each step takes it on or leaves less to receive.

## 7. What is only model-checked

* Liveness (`EveryClientEnds`, `EveryConnectedClientIsTold`, `GameEnds`,
  `TalkersAreAnswered`, `ConversationEnds`, `LayoutEnds`): fairness and `ENABLED` are out of the
  prover's reach. Of `LayoutEnds` and `ConversationEnds` the descent is proved (`AsmNearsItsEnd`,
  `ConversationNearsItsEnd`).
* `InputIsRight`: a fact about the constants of `server.c` and not about steps, 32 rounds with one key
  on each of four blocks. TLC computes them; a prover would have to compute the same by rewriting.

* `LostOnlyToDeserters`: of the deaths of the server and of its port.

## 8. What is not modelled

* `OPT_DEL` and the client's checks of index and length: this server sends neither a delete nor
  an operand they refuse, so that no action for them would ever be taken.
* `rand()`'s bias, the overflow of `scanf`'s conversion, the KMeans clustering itself, empty type
  names, requests for different model names (they share nothing), what a course looks like.
* Most of the vendored assembler, and with it most of the lines of this repository: the parsers
  and encoders of targets the server never asks for (ARM, AArch64, Mips, Hexagon, PowerPC, Sparc,
  SystemZ), generated instruction tables, the lexer, arbitrary-precision numbers, the utilities
  of LLVM's support library and the bindings for other languages. What of it keeps state
  between the calls of one `ks_asm` for x86 is modelled: sections, labels and relaxation,
  conditionals and macros, the string map, memory operands. Of those: more than one section,
  bundles, symbols in operands, and an `.org` with a label behind it, whose layout calls itself.
* Small programs that run once on fixed input, each a pure function or a straight line of
  library calls with nothing to interleave, fail or repeat: the coroutine generator, the CRC
  check, the knapsack, the AES variant, the tokens, the pieces, the string cases, the stream
  cipher. A reference definition of what they compute would be a copy of them.
* The number service's receive loop is the location service's, line for line, and its handler
  never receives; the loader of the Blowfish program patches a game's executable that is not
  in the repository; the rest are documents and one-off scripts.

## 9. Where code and documents differ

Three runs expect a violation of what a line of the repository says:

* `train_page_types`: the i-th file of the training page is posted with the type typed
  into the point before it, and the first with the model's name: `script.js:78` also finds the
  model name's input, against the labels of `script.js:56` and the comment at `script.js:89`.
* `resolved_jumps`: what the caller's resolver answers replaces the constant of a fixup
  (`MCAssembler.cpp:211`) together with the -4 (or -1) for the end of the field, so that a call
  of such a symbol lands behind it; `suite/regress/x64_sym_resolver.py:30-34` expects otherwise.
* `skipped_ifeqs`: an `.ifeqs` of equal strings inside a skipped block assembles its text
  (`AsmParser.cpp:5079`), against `AsmCond.h:19`.

Met while modelling, and visible in what the passing runs have to say more weakly:

* `Misc/checkin/README.md:11` says that bisection surely finds one of 1024 numbers in ten
  tries; ten guesses tell 1023 apart (`BisectionLosesToOne`).
* `sampleCount` starts at 1 on a page without upload points (`script.js:39`), so a page that was
  never cleared posts one sample too many and can train no model (`OnlyClearedPagesTrain`).
* When two requests for one model overlap, one may be told it trained although a sample it sent
  was replaced before it was extracted (`app.py:42` against `app.py:27, 33, 49`), and the model
  file may mix two pickles: `TrainedMeansLearned` is about requests that do not overlap, and
  `TornModelHasCause` says how far the mixing goes.
* Archives of one type are extracted into one directory by the names of their members
  (`app.py:45`): of two texts of one name the later remains, also across samples of one request,
  which is told that it trained (`TrainedMeansLearned` says which texts it may lack).
* Reloads of the model list that overlap leave models in the box twice (`script.js:121`):
  `BoxIsOfReloads` asks for single ones only where they did not.
* A reply to an earlier fetch that comes last leaves the courses in an order that is no longer
  chosen (`app.js:13`); no property asks for the order.
* `Misc/lunar/std.py:23` has a blank after the comma, which `chall.py:77` does not strip, so the
  reference conversation is not awarded; and `Misc/lunar/README.md:19` gives longitudes from
  151.1974, where `chall.py:80` starts at 75.
* A session the server closed first may leave its port taken, and a server restarted then listens
  elsewhere for good (`server.c:427`): `LostOnlyToDeserters` says what has to come together for it.
* Operands (`X86AsmParser.cpp:63-570`), where `Denotes` is about well-formed ones only: a register
  alone in parentheses is lost (`[(eax)]` is 0); `[1-2*eax]` and `[3|2*eax]` are taken as 1+2\*eax and
  3+2\*eax, `[2*eax*-2]` as 2\*eax, `[~~1]` as ~1; a statement that ends without its `]` is not noticed.
* A factor is cut to the 32 bits of `Scale` before it is checked (`X86AsmParser.cpp:322, 542, 598`):
  `[rax*0x100000002]` is taken as `[rax*2]`, against the message at `599-601`; `Denotes` is about
  factors that fit.
* Every statement begins by forgetting the error (`AsmParser.cpp:1450`), and reading goes on behind
  one that failed (`712-728`), so that of an `.else` in the wrong place nothing is left when another
  statement follows; an `.elseif` with more behind its expression and an `.ifeqs` without a comma end
  the reading with no error at all. `keystone.h:308` has -1 on failure. The model does the same, and
  no property asks for the error.
* An `.if` whose condition cannot be read is open with the state of the text around it, and what
  its other branches do depends on that (`AsmParser.cpp:4916`, `Guess`).
* An `.exitm` in a macro that closed more conditionals than it opened pops an empty vector
  (`AsmParser.cpp`, `parseDirectiveExitMacro`); the model ends in a state `undefined` there.
* `applyFixup` lets twice the range of a byte pass and does not look at the range of four bytes
  (`X86AsmBackend.cpp:284`); that relaxation has settled is what keeps short jumps in range
  (`ShortJumpsReach`). An error met while relaxing is dropped and found again by the fixups.
* `Crypto/lattice/task.py:16` draws the modulus above the last element of the key and not above
  the sum of all, and `xor_key_list` of `Crypto/miaES/task.py:5-10` changes nothing, since it
  assigns to its loop variable. Both programs are among those section 8 leaves out.
