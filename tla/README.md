# A TLA+ model of dummyscheme

dummyscheme is a Scheme interpreter in C++: a compiler to register bytecode, a
VM with first-class continuations (copy-on-write frames), coroutines,
`dynamic-wind`, promises and error boundaries, a Lua-like hybrid hash table, a
number tower, ports, a module loader and a debug library. It is single-threaded.
What makes it hard is not parallelism but *control*: continuations run a frame
more than once, coroutines and `pcall` nest C++ calls of the interpreter, errors
cut through all of it, and callbacks run Scheme code in the middle of C++ loops;
and *representation*: boxes patched into code already emitted, numbers in three
forms, line tables and records packed into bytes.

## Inventory

| component | state | operations | interacts with | hard | correct when |
|---|---|---|---|---|---|
| hash table, `scmtable.cpp` | array part, node part, `firstfree`, metatable | ref, set!, delete!, rehash, next | environments and metatables are tables; `__index`/`__newindex` run Scheme code | collisions move nodes, tombstones, a rehash that calls out | it is a map; chains stay reachable; a walk gives each entry once |
| coroutines, `vm.cpp`, `scmbasic.cpp` | one `VM` object each: `state`, `curfrm`, `c0`, `callerstk`, `resslot` | create, resume, yield, status, running | each resume is a C++ call of `execute0`; `pcall` is one too | order of resumes, errors, continuations | resume is a call, yield a return |
| `dynamic-wind` and continuations, `vm.cpp` | `vm->dywind` chain, `state` of a wind, frames with `dynwind` | `calldynamicwind`, `dywindadvance`, capture, throw, teardown | shared wind state, copied frames | jumps in and out, errors in thunks | before and after balance; the chain matches the frames |
| promises, `vm.cpp` | cell: closure, state, value; `frm->force` | delay, force, return, `recallforce` | frames, continuations, tail calls | re-entrancy | one value, for good |
| compiler, `scmcompiler.cpp`, `scmcode.h` | code, constants, captured variables, patches | `compile*`, `movevartobox` | VM | boxes found late, tail positions, slots of temporaries | the code means the source |
| interpreter loop, frames and segments, `vm.cpp` | `CallFrame`, `StackSegment::frozen`, registers | instructions, `newfrm`, `rtnfrm`, `cowfrm`, capture, throw | everything above | multi-shot continuations, frames over several segments | the answer is that of the language; a captured frame never changes |
| ports and unwinding, `vm.cpp`, `scmport.cpp` | `frm->unwind`, `frm->env` | `call-with-output-file`, `with-...` | tail calls, errors, jumps | an unwind that runs twice or never | an opened port is closed once |
| input ports, `vm.h` | buffer, place, `eof`, the character a lexer holds | `read-char`, `peek-char`, `read`, close | lexer | the border of the buffer | no character lost or given twice |
| lexer and printer, `vm.cpp` | `buff`, list under construction | `Lexer::*`, `printvalue0` | symbols, ports | two tables of escapes and names | what is written can be read back |
| macros, `scmcompiler.cpp` | patterns, renamed symbols | match, expand | compiler | ellipsis, hygiene | expansion as R5RS says |
| numbers, `scmmath.cpp`, `vm.cpp` | limbs of big integers | arithmetic, reading, printing | printer, reader | carries, signs, the border between the forms | agrees with the rationals |
| loader, `scmport.cpp` | cache, template list, nested activations | `require`, `require-clear!`, `require-path!`, `load` | errors, `pcall`, after thunks | a load that fails half way | the cache tells the truth |
| debug hooks, `scmdebug.cpp` | masks, counts, `allowhook`, `oldpc` | sethook, trace | interpreter loop | hooks that raise or jump | no hook inside a hook; every line and count told |
| line tables, `vm.cpp` | `lines`, `abslines` | `saveline`, `getline`, `getlinesin` | compiler, hooks | differences that do not fit a byte | each instruction has its line |
| strings, vectors, bytevectors | buffers | library procedures, `string-pack` | | widths, signs, alignment | what is packed comes back |
| collector, `vm.cpp` | object groups, two halves, `StkVar` roots | mark, sweep | every object | not in use | |
| symbol table, host API | | | | | |

`PROJECT.json` repeats this list with what is modelled of each part.

## Modules

| module | models | composes |
|---|---|---|
| `HashTable` | `HashTableObj`: set, remove, rehash, `__newindex` | refines `TableMap`, operation by operation |
| `TableMap` | abstract: a map of which each operation changes the entry it names | |
| `HashTraversal` | `hash-table-next` and a loop whose body uses the table | extends `HashTable` |
| `Coroutine` | coroutines, `pcall`, errors, continuations | refines `CoroutineSpec` |
| `CoroutineSpec` | abstract: a stack of coroutines, each resume answered once | |
| `DynamicWind` | `dynamic-wind`, call/cc, throw, errors, `pcall` levels | |
| `Promise` | `force`, cells, `recallforce` | |
| `Syntax` | the forms the compiler tells apart, and values | |
| `Compiler` | `compilepair` and what it calls: instructions for a form | extends `Syntax` |
| `Machine` | `execute0`, `CallFrame`, `StackSegment`, `ContinuationObj`, `unwind` | extends `Syntax` |
| `Evaluator` | the reference: what the forms mean, with continuations as values | extends `Syntax` |
| `MCMachine` | compile with `Compiler`, run on `Machine`, compare with `Evaluator` | all four |
| `Macros` | `syntax-rules`: checking, matching, expansion, renaming | extends `Syntax` |
| `MCMacros` | macros, uses, and the reference meaning of a macro | extends `Macros` |
| `Bignum` | limbs: `addabs`, `subabs`, `mul`, `divmod`, printing | |
| `Numbers` | fixnums, big integers and ratios; reading and every exact operation | extends `Bignum` |
| `Loader` | `require`, `require-clear!`, `require-path!`, `load` | |
| `InputPort` | `InputPortObj` and the lexer's character ahead | refines `TextStream`, call by call |
| `TextStream` | abstract: a text, looked at and taken character by character | |
| `Hooks` | `traceexec`, `dochook`, `debug-sethook` | |
| `LineTable` | `saveline` and its two decoders | |
| `Pack` | `string-pack`, `string-unpack`, `string-packsize` | |
| `Datum` | `Lexer` and `printvalue0`, one after the other | |
| `MCRuntime` | the six last parts side by side | extends all of them but `Datum`, of which it has an instance |
| `...Proofs` | theorems about `HashTable`, `HashTraversal`, `Coroutine`, `DynamicWind`, `Promise`, `Bignum`, `Numbers`, `Machine`; `RuntimeProofs` about `Loader`, `InputPort`, `Hooks`, `LineTable`, `Pack`, `Datum` and `MCRuntime`, where they stand together | extend them |
| other `MC...` | constants for TLC | |

In the modules, definitions whose comment begins with "Mutant" are wrong
versions of the definition that follows them. No specification uses them;
each is listed in `PROJECT.json` with the property that fails when it takes
the place of the right one, which shows that the property depends on the code.

### HashTable

`array`, `size`, `node`, `firstfree` are the fields of `HashTableObj`, a
`TableNode` is a record and `next` an index or `None`. A key is a model value
or an integer; its hash is the constant `Mix`, any function, so that all
collisions are possible. `Set` is `set()`: a write to the array, to a node or
its tombstone, to the `__newindex` handler, or the three cases of `insertkey`.
Walking a chain is `Reaches`, stated with closed sets, not recursion. A rehash
is not atomic: `resize()` calls `set()` for each old entry and each call
consults the handler, so `Rehash`, `Reinsert`, `FinishSet` are steps and
nothing else is enabled in between (a handler that itself writes to the table
it guards is left out). `HandlerFails` is an error of the handler inside of a rehash: `set()` is
left through `rehash` and `resize`, and the entries still to be written are lost. Outside of a rehash such an error
changes nothing and is no step. Integers are cut to `2 * HalfInt` values where the
code assigns `numi(key)` to an `int`.

`MapSpec` is the refinement of `TableMap`, under the mapping `entries`, and more. The abstract specification
by itself would let any step of the table be any step of the map, so `StepsMatch` says of each step which one
it is: `Set(k, v)` and `Remove(k)` are those of the map for the same key and value, `FinishSet` writes what the `Set` before it
left pending, a `Reinsert` changes nothing or hands its own entry, unaltered, to the handler (`HandBack`), and `HandlerFails` loses
the entries that wait and no other (`Abandon`). In `TableMap` the last two need an entry of a claimed key that came into the map
without a question to the handler; without one, a rehash leaves the map alone.

`HashTraversal` adds a walk. `UseTable` is any operation of the table between
two calls of `hash-table-next`; as soon as a key gets a new place, which the
code does not promise to survive, the walk is `void` and nothing is claimed.

### Coroutine

`act` is the stack of C++ calls of `execute0`: the main program, a resume, a
`pcall`. `chain` holds the frames of each VM; a frame is the root object `c0`,
captured, or other, since these are what the code tells apart. `Yield` writes
through `resslot` and leaves the innermost `execute0`; `ReturnRoot` compares the
frame with `c0`; `Error` unwinds to the innermost boundary. `Throw` may install
frames of another VM, as the code allows. Tail resumes and the packing of
several values change no control state and are left out.

### DynamicWind

Winds are numbered in the order they are made. A frame says for which wind and
which of its thunks it was made; `stage` is `DynamicWindObj::state`, shared by
all copies of the frames. A `pcall` starts a level with its own frames and its
own wind chain (`ReserveStack`). Thunks that a jump or an error runs (`runthunk`)
are one step: they return or fail, and the code treats both alike. The history
variable `owed` counts before thunks run less after thunks begun.

### Promise

`Gives` and `Forces` describe the delayed expressions. A frame holds the promise
in `frm->force`, the cell whose expression it runs and the promises whose `force`
gets its value. `Known`, `RecallForce` and `Fulfil` are the branches of
`callrtnfrm`. `saved` holds the frames of all continuations the program keeps.

### Syntax, Compiler, Machine, Evaluator

A program is a sequence of top-level forms. `Compiler` gives each form a sequence
of lambdas, a lambda being `LambdaObj`: instructions, number of registers,
captured variables. Instructions are records, not 32-bit words. A variable that
an inner lambda captures after code for it was emitted is boxed by patching that
code, as `movevartobox` does. `Machine` executes one instruction per step. Frames are
windows on segments of `SegSize` slots; `frozen` counts the frames continuations
hold on a segment, and `CowFrame` is `cowfrm`. `reg` is the frame in whose window the
local variable `base` of `execute0` points: after a throw it may not be the current
one, which is why it is a variable. A call is made in rounds, as in `callproc`: in mode
`"call"` each step of `CallProc` is one round, and `app` is the call with its `CallAppState`, which
`call/cc`, `apply` and the port procedures change before the next round. The constants of an instruction are
atoms, lists are pairs on the heap. `Show` is what is printed of a value; the runs give it one that follows
pairs. `Evaluator` knows no frames: an expression is
evaluated under a continuation that is a value, so a continuation invoked twice is
right by construction. `Agreement` compares the answers of all forms.

`frm->unwind` is a field of a frame with the port it closes; `Unwind` follows an error
through `teardowndeadframes`.

### Macros

A macro is checked rule by rule (`InitPatn`, `InitTmpl`), a use is matched
(`TryMatch`) and expanded (`Expand`) with the indices of the ellipses as the
code keeps them. A fault of the code (a crash, an endless loop, a dead object read) is
a value, `Crashed`, `Looping` or `Lost`, so that properties can speak of it. Forms made by an
expansion are expanded again until no use is left. `MCMacros` states what R5RS gives a use,
without indices, from the bindings of pattern variables to nested rows.

### Bignum and Numbers

A big integer is a sign and a sequence of limbs, as in `NumBig`. Words have `2 *
HalfBits` bits; `Wrap` is C's 64-bit arithmetic at that width. Two numbers are combined
with each other, results become operands; the properties compare each result with the
integer or rational arithmetic of TLA+. The loops over limbs are recursive functions of the number of
limbs done, with the carry in them; `MulRow` is the inner loop of `mulabs`. Base is the square of `Half`,
and `BignumAssumption` says of `Half` that it is a number above 1, so that most proofs do not depend on its being a
power of two; for shifts, bit sums and digits it says of `2 ^ k` and `Radix ^ k` what a prover does not know,
and `NumbersAssumption` says it of the powers up to the literal exponents: that `b ^ (k + 1)` is `b * b ^ k`. `Mismatched` comes before all other cases of an
operation: `numsynctype` leaves a ratio and a big integer of two types, and the code then reads an object as one it is not.

### Loader

`levels` is the stack of C++ activations: a module being loaded, a plain `load`, a
`pcall`, an after thunk run by `teardownstack`. The code of a module is a free choice. An
error on its way out passes the levels one at a time, and thunks may use the loader
meanwhile.

### InputPort

One port on one file, with any mixture of `read-char`, `peek-char`, `read`, close. `curchar` is
the character a lexer holds; `EndDatum` is `~UnreadGuard`. `PortSpec` is the refinement of
`TextStream`, and says (`CallsMatch`) that each call is the one of the stream of its kind, so that
`peek-char` never moves and `read-char` always does, also when it fills the buffer.

### Hooks and LineTable

`Hooks` has frames with a program counter and `oldpc`; a step of the program executes
an instruction, jumps, calls or returns, and the hook runs before it as `traceexec` decides.
In a hook anything may happen: install, clear, raise, `pcall`, a continuation.
`LineTable` emits instructions with lines and decodes them with both decoders.

### Pack and Datum

`Pack` packs values by a format and unpacks the bytes with the same format; the format is
a sequence of options, integers are eight bytes, and the bytes are there as numbers since
truncation, sign and alignment are the point. `Datum` reads a text into a datum and prints
it, then reads what was printed. Characters stand for their classes; `STX` stands for those that neither print nor have
an escape, which a string shows by their number.

## Runs

All runs end within three minutes on two cores. In the modules about control the
program is a free choice among the operations, limited by `Uses`, the features it
uses; in `MCMachine`, `MCMacros` and `Datum` programs and texts are given.

| run | shows | bounds |
|---|---|---|
| `hash_table` | layout invariants, room in a rehash, array part half used; the table refines `TableMap`, each operation that of the map: set! and delete! change their key alone, a rehash no entry but those a handler takes or loses | keys 1..3 and two others, two values: tables of up to 8 nodes and 4 array slots, chains of three, moved nodes, growing and shrinking arrays; the handler claims one of the others and 3, comes at any time, and may fail in a rehash |
| `hash_walk` | every entry that stays is given once | two integers, two others, handler at any time |
| `co_nesting` | refines `CoroutineSpec`; a coroutine called normal waits | two coroutines, four nested C++ calls: each resumes the other or itself, in pcalls |
| `co_callcc` | coroutines that run form a stack; a dead one is over; a suspended one has its frames | the same with continuations and wrong argument counts |
| `dw_jumps` | thunks balance; `vm->dywind` is the chain of the frames at every level; no impossible state | three winds (siblings, nested, and a common outer one), four frames, two levels |
| `promise` | one value for good, and the promise keeps what was answered | three promises: two force themselves and each other, the third forces in tail position; three frames, two continuations |
| `numbers` | sums, products, quotients, order, rounding, bits, reading and printing agree with the rationals | words of six bits: 13 integers and 4 ratios combined twice, up to two limbs; carries and borrows between limbs, sums that leave and re-enter the fixnums, digits of a division that are corrected |
| `machine` | compiled code gives the answers of the evaluator; captured frames never change; ports are closed once; no write behind a segment | 297 programs: every pair of 13 contexts around a continuation that is entered twice, triples, loops, errors, quasiquotations, ports; segments of 18 slots, so that a call chain needs several |
| `machine_tail_callcc` | violation, see below | two programs |
| `macros` | an expansion is the instance of the first rule that matches, introduced names stay apart, uses get smaller; faults only for empty rows | 16 macros with nested, inner, custom and shadowed ellipses; uses with up to two, some three arguments |
| `macros_r5rs` | violation, see below | the same |
| `runtime` | cache and loader; the port refines `TextStream`, call by call; hooks; line table; pack and unpack; print and read | three nested loads, two modules, four template lists; five characters and a buffer of two; two chains of two frames, all events or count alone; four instructions on six lines up to 256 apart; formats of two options; texts of three of 18 pieces, also in a list, a vector, a string |

A bound that is reached more than once shows the same cases again: a third module in a
cycle, a third limb, a third frame in a hook meet the same branches. Where a case needs
a size, the size is there: -128 and 128 lines apart, a datum that ends where the buffer
ends, a frame that does not fit the rest of a segment.

`CHECK_DEADLOCK` is off in `machine`, `macros` and `runtime`, where programs and texts
end, and on elsewhere.

### What the violations show

- `machine_tail_callcc`: `(define (f) (call/cc list)) (f)` answers `#<procedure:list>`. A
  native procedure called by `call/cc` puts its result into `ac0`; in tail position the
  machine goes on at `retlab`, which returns the slot that still holds the procedure
  (`vm.cpp:3403`).
- `macros_r5rs`: `(let ((x 1) y) 5)` leaves a match half way inside an ellipsis and
  `state->matches` points to a dead object (`scmcompiler.cpp:1328-1346`); `(let* ((x 1)))`
  conses an undefined element (1513-1518); `(_ x . r)` does not match `(m 1)`.

Both were also seen with the built interpreter.

### What a rehash does with a handler

A rehash re-inserts with the full `set()`, which asks the `__newindex` handler for entries absent from the
fresh node part (`scmtable.cpp:537`). `TableMap` has this as `HandBack`, and `hash_table` reaches it in both ways the code has:
an entry of a claimed key that was there before the handler was installed, and an integer written to the array
part without asking (`scmtable.cpp:345`) whose slot a rehash takes away. Such an entry leaves the table for the handler although the
program never wrote to it. If the handler fails there, the entries of all keys that wait are lost with it, those it does not
claim included (`Abandon`), and so is the write that caused the rehash. Neither happens to a table whose handler is there from
the start and claims no integer: `Late` is empty then.

### Behaviour outside the runs

The runs keep apart the following behaviour of the code, where it does what no property could promise; of the
hazards in `PROJECT.json`, those that concern nothing else name no property. What is named in parentheses
can be switched on in a module: a feature of `Uses`, a constant or a property.

Control:

- Integer keys wider than an int are cut: two may be one key of the array part
  (`scmtable.cpp:344`; `HalfInt = 4`, keys 1 and 9, `MapSpec`).
- The end of a coroutine is recognised by `dead == vm->c0`. If its body captured a continuation
  its root frame goes on as a copy, the end is not seen and the resume gives what was in
  its slot (`vm.cpp:3090`; `ResumeGivesValue` with `"callcc"`).
- A yield inside a `pcall` returns from the `pcall` (`vm.cpp:2727`; `"nested yield"`,
  `StateIsTrue`).
- `coresume` sets `CO_OK` before `placefirstargs` checks the argument count: on an error the
  coroutine stays `normal` for ever (`"arity"`, `NormalIsWaiting`).
- A continuation captured outside a `pcall` and called inside it runs the outer frames in the
  inner interpreter call and then again (`vm.cpp:3005`; `"level jump"`, `NoFault`).
- A jump from the after thunk into the body of its own wind finds the chain unchanged
  (`"thunk jumps in"`); the check against re-entering a completed thunk asks for the
  wind in the chain, where it is also while the body runs (`"thunk reentry"`, `OwedInBody`).
- `recallforce` forgets the first promise of a chain of three, and a force in tail position
  overwrites `frm->force`: such a promise is never fulfilled and evaluated at every force
  (`vm.cpp:2492`; `AnswersStay` for all promises instead of `Stored`). An expression that gives one promise, is
  re-entered through a continuation and gives another, leaves the first promise with the cell of the last one
  given, although the answer came from the other; it needs two continuations.

Compiler and machine: `` `(0 ,@l 3) `` appends to `l` itself (`Suite = "splice"`); a vector
splice in a nested quasiquotation misses its `list`, the list case crashes; a
quasiquoted list of more than about 125 elements leaves its segment; `(if x 5 (begin))` in
tail position crashes, `(if #t (begin) 7)` gives 7; jumps over more than 4095
instructions overflow their field; a macro that expands to `(begin (define ...))` where an
expression stands moves the return slot; a string or file port in a tail call, or captured by a
continuation, is "not a oportstr in close", and one left by a continuation is never closed;
`(apply k (list 5))` delivers a list; an internal define read too early is void.

Macros: `((b ...) ...)` with `b` of depth 1 never ends; `(x ... . r)` does not match a proper
list; variables in vector patterns are never declared; temporaries of two expansions in one compiler
share a name; `(_ _ x)` and `(a ... (b ...))` are refused.

Numbers: `addabs` adds only as many limbs as its first operand has (`SumIsExactAlways`);
`(- b b)` with one big object gives -2b; ratios are not reduced and `(< -1/2 -1/3)` is
`#f`; `remainder` takes C's int `abs`; MinInt / -1 traps; the smallest fixnum prints wrongly and
exists as a big integer too; `#e-5e19` wraps; `max` and `min` keep big integers that would fit;
`gcd` changes the sign of the user's big integer; `(lcm big 0 5)` crashes; a big numerator loses its
denominator when read.

Runtime: a module that clears itself while it loads may be loaded inside itself, and the
failure of the outer load forgets the success of the inner; module names are not
normalised. Instructions of hooks count, so a count event may be lost when several kinds of
events are on; `debug-sethook` in a `pcall` or a coroutine does not seed the outer frames
(`scmdebug.cpp:116-120`); a continuation called in a hook runs the rest of the program with hooks off.
`s1` with 256 bytes or more cuts the length; `z` stops at a zero byte; `i9` and wider shift by more than the
word; `X` aligns to the start of the data when unpacking. An escaped newline in a string swallows the
next character; `(write '(quote 1 2))` raises half way; `(write (list 'unquote '@x))` prints
`,@x`; `'` at the end reads `(quote #<eof>)`; a dot
before `;` is read as a symbol, which is printed as a dot; symbols do not end at `(` or `"`, `-a` and `1a` are
refused, symbols with blanks are written without escapes. A string shows a character that neither prints nor has an escape as
`\001`, which the lexer reads as the digits (`vm.cpp:3990-3996`): `Datum` writes it so, and `Misleading` names it among
the data of which `ReadBackIsSame` says nothing.

## Fairness and liveness

`RuntimeSpec` has weak fairness of the reader and printer: a call of `read` or `write` is a
loop in C++ that nothing interrupts. Under it `ComesToAnEnd` says that every text is read,
refused or printed. Elsewhere no fairness is assumed: the interpreter is one thread
that does what the Scheme program says, and no scheduler promises that a coroutine is
resumed or a promise forced. A rehash ends because its loops are bounded.

## Proofs

All theorems hold for every value of the constants that the named assumptions allow. TLC
evaluates the assumptions on the runs. Each proof has the same outline: an inductive invariant, which
TLC has checked on a run first, one lemma for each action that keeps it, and one for each property it implies.

`HashTableProofs`, for all keys, values, hash functions, sizes and handlers
(`KeysAssumption`, `NoneAssumption`):

| theorem | property | under |
|---|---|---|
| `TypeCorrect` | `TypeOK` | |
| `KeysAreFound` | `EveryKeyFound` | |
| `ChainsAreLists` | `ChainShape` | |
| `KeysAreStoredOnce` | `StoredOnce` | |
| `NoFreeNodeAbove` | `FirstFreeBound` | |
| `RehashIsRoomy` | `RehashFits` | |
| `SizesCorrect` | `SizesAreRight` | `IntsFit` |
| `TableIsMap` | `MapSpec` | `IntsFit` |

The invariant `Inv` is `TypeOK` and `ChainInv`, the conjunction of the next four. None of
the four is inductive alone: `InsertMove` keeps `EveryKeyFound` only because no
second link leads to the node that moves (`ChainShape`), `FirstFreeBound` makes the
free node really free, and `StoredOnce` needs `EveryKeyFound`: that the walk does not
find a key means that no node has it. Reachability is stated with closed sets, so the
lemmas about it need no induction: to show that a node is still reachable, a closed set
of the new chains is turned into one of the old.

The sizes are an argument about counts. `Room`: during a rehash there are more free
nodes than entries still to go to the node part, one for the write that caused it. `Half`: the full slots
of the array and the entries still to go there fill half of it, where `SlotsOpen` gives each its
own empty slot; for this an integer must be its own index (`IntsFit`: keys fit an int). At the start of a
rehash both are what `numuse` and `computesizes` count, in between each `Reinsert` moves
one from the one count to the other.

For the refinement of `TableMap` an entry is what waits in `todo` or else what `rawget` finds. `Kept` adds
that no key waits twice, that a key that waits is nowhere else, that the write that waits is none the handler claims, and that the
handler claims no key with an entry, but for those that may have come in unasked (`Late`). There is one lemma for each action
(`SetIsMap`, `RemoveIsMap`, `ReinsertIsMap`, `HandlerFailsIsMap`, `FinishSetIsMap`, `SetMetatableIsMap`), which says that it is the
step of the map that `StepsMatch` names. Only `IntsFit` is asked, without which two integers are one key of the array part
(see "Behaviour outside the runs"): the handler may claim what it likes, come when it likes and fail.

For walks over the same tables it proves, when the integer keys fit an int (`IntsFit`):

| theorem | property |
|---|---|
| `EntriesGivenOnce` | `EachGivenOnce` |
| `WalkNeverLost` | `NeverLost` |

The argument is `Placed`: where a key is found depends only on the length of the array part and on which key
stands in which node (`Layout`), not on the values. What a loop body may do to entries leaves both as
they are, and a rehash cannot (`RehashMovesKeys`), so the places of the keys already given keep
their order. `OnTrack` is the invariant of a walk: the keys given stand in ascending places, the last
of them is the one the walk holds, and of the entries that stayed, those up to its place have been given. It
includes that the array part is no longer than `MaxSize`, or the index of a key would not be
one for `arrayindex`.

`CoroutineProofs`, for any coroutines, frames and nesting (`ConstantsAssumption`):

| theorem | property | without |
|---|---|---|
| `TypeCorrect` | `TypeOK` | |
| `CoroutinesFormAStack` | `ResumesNest` | `"nested yield"` |
| `StateTellsTheTruth` | `StateIsTrue` | `"nested yield"` |
| `NormalOnesWait` | `NormalIsWaiting` | `"nested yield"`, `"arity"` |
| `ResumeLikeCall` | `ResumeIsCall` | `"nested yield"`, `"arity"`, `"callcc"` |

The features that are excluded are those whose misbehaviour the section above describes; continuations are
in all theorems but the last. `Nested` says how the C++ calls lie on each other: a resume runs a coroutine
that does not run below it and that knows its resumer, a `pcall` runs the VM below it, everything that
runs is `ok`, and the root of a coroutine is in no frames but those of its resume (`RootsApart`), so the
frame that ends a coroutine ends its resume. `Awake` adds that a coroutine that is `ok` and has frames is run by some call.
For the refinement of `CoroutineSpec`, `Rooted` says that frames a resume runs start at the root, so that the last
return of a resume does end its coroutine; a captured continuation is what breaks it. The stack of `CoroutineSpec` is the
subsequence of resumes (`Resumes`), a recursive function whose lemmas are proved by induction.

`DynamicWindProofs`, for any number of winds, frames and levels:

| theorem | property | without |
|---|---|---|
| `TypeCorrect` | `TypeOK` | |
| `ChainFollowsStack` | `ChainIsStack` | |
| `ThunksArePaired` | `OwedInBody` | `"thunk reentry"`, `"thunk jumps in"`, `"level jump"` |
| `NoInternalError` | `NoFault` | `"level jump"` |

The first two hold whatever the program jumps to. Their invariant `Linked` says that the frames of each level, and
those of the continuation, are nested as their winds are (`Formed`), and asks nothing of `stage`,
which all copies of the frames share. The last needs in addition that a wind is on the stack of one level only and
that none on a stack is done (`Separate`): a wind is done when its last thunk leaves the stack, and a jump that brings it
back sets it to its body again, so only a jump out of a `pcall` can leave a frame of a wind that is done.
Pairing needs more: `stage` must fit the frames of the
running levels (`Fits`, in `Wound`). A jump that goes back into a
thunk that returned, that leaves a thunk for the extent of its own wind, or that leaves its `pcall`
breaks this in the code, with the effects described above.

`PromiseProofs` proves, for any promises, any values and forces of their
expressions and any nesting (`ConstantsAssumption` of `Promise`):

| theorem | property |
|---|---|
| `TypeCorrect` | `TypeOK` |
| `MarkedMeansKnown` | `EagerHasValue` |
| `ValuesAreFinal` | `FirstValueStays` |
| `AnswersAreKept` | `AnswersStay` |

`MarkedMeansKnown` and `ValuesAreFinal` rest on one lemma: a step gives a value to at most one cell, which
has none, and marks it in the same step. They hold for tail forces and chains of promises too, where
`AnswersStay` only holds for promises whose value has been stored (`Stored`: neither the expression nor the promise
it may give forces in tail position, and it gives at most one promise, which gives none). The invariant `AnswerInv` of
the last says where such a promise may point, to its own cell or that of the promise it gave, and
what every frame minds (`Minds`), also those of all kept continuations: a stored promise that waits for the answer of a frame is
the one the frame forces, or shares its cell (`AskedShareCell`). `RecallForceKeeps` is the step that moves a
promise to another cell.

`RuntimeProofs` has a part for each component, and puts them together at the end. It proves, for any modules, templates, files and lists, and any nesting of
loads, `pcall`s, errors and after thunks (`LoaderAssumption`):

| theorem | property |
|---|---|
| `LoaderTypes` | `LoaderTypeOK` |
| `RequireKeepsItsPromise` | `RequireIsRight` |

The invariant `LoaderIInv` is the types, `path = RequireMakePath(given)` and three of the four
parts of `RequireIsRight`, which need each other: that the failure of a load may take the entry of
its module away is right because there is no other load of it (`NotInsideItself`), and this holds
because `require` asks an entry that is there whenever a load is under way
(`CacheTellsTruth`). The fourth part, `NothingOverlooked`, follows from a lemma on
`RequireMakePath`: every template of the given list, and for ";;" of the default list, has a place in the
result. The lemmas `Pushed` and `Popped` say what a push and a pop do to the set of modules being
loaded.

And for any text and any size of the buffer (`PortAssumption`):

| theorem | property |
|---|---|
| `PortTypes` | `PortTypeOK` |
| `PortIsStream` | `PortSpec` |

The second is the refinement of `TextStream`, in which each call of the port is the one of the stream. The mapping is `pos`, the characters fetched less those
left in the buffer and the one a lexer holds. The invariant `PortIInv` adds to the types that
the buffer is empty once the end was met, and that a closed port, or a lexer that holds the
end, has met it. The lemma `NextIsAhead` says that the next answer of the port is the next
character of the text, `ReadCharKeeps` and `PeekCharKeeps` what the handlers do, and
`StepRefinesStream` takes the actions one by one: `Peek` is `Look`, `Read` is `Take`, and so on.

For any lines and any length of the code (`LineTableAssumption`):

| theorem | property |
|---|---|
| `LineTypeCorrect` | `LineTypeOK` |
| `EveryLineComesBack` | `LinesComeBack` |

The invariant `LineInv` says what each byte means: the difference to the line before, or the mark, and then there is an
anchor for that instruction, and the anchors are in the order of the instructions.
`BytesKeepDifferences` settles the borders of the signed byte, `AdvanceFinds` the cursor in the
anchors, `DecoderIsRight` is an induction over the instructions.

For any procedures, line tables, masks, counts, hooks and nesting (`HooksAssumption`):

| theorem | property |
|---|---|
| `HooksTypeCorrect` | `HooksTypeOK` |
| `HooksKeepExact` | `HooksAreExact` |

The invariant `HooksInv` names what an interrupted activation relies on. `Alone`: hooks are off exactly while one is
on the stack of activations, right above `pausedfrm`. `Interrupted`: what the hook will put back into the accumulator is the
value being returned, and an instruction that is about to run has been told. `ProgramSeen`: in the
frames of the program, and in those of a kept continuation, the line of `oldpc` is the line last told; it may fail in frames of a
hook, which are gone with it. `Counted`: the instructions since the last count event and those left do not exceed the
count, and none has passed while a hook runs. It is needed that a `mask` comes with a hook, or the event would be
lost while the count starts again.

For the runtime as the run `runtime` composes it, of any parts and for any constants that meet the parts' assumptions
(`PartsAssumption`):

| theorem | property | when |
|---|---|---|
| `RuntimeTypesCorrect` | `RuntimeTypeOK` | |
| `PromisesCompose` | `RequireIsRight`, `HooksAreExact`, `LinesComeBack`, `RoundTrip` and `PortSpec` | `Unambiguous` (below) |

`PartsKeepTheirSpecs` says that a behaviour of the runtime is one of every part, as the parts share no state; with it the theorems
above and those of `Pack` below hold of the very specification that TLC checks. What was left to prove for the types is the reader and
the printer of `Datum`: `DatumInv` adds that every frame of the reader names its call (`FramesOK`), so that a datum is only
ready, and frames are only left, where one of the handlers put them.

Of `Pack` it proves, for any integers and strings, any options and formats of any length, and any data before the
record (`PackAssumption`: widths are at most 8, above which C++ does not define the shift, and strings are
shorter than 65536 bytes, as `AsInt` writes a length):

| theorem | property | when |
|---|---|---|
| `PackTypesCorrect` | `PackTypeOK` | |
| `RoundTripHolds` | `RoundTrip` | `Unambiguous` |

`Unambiguous` is what the format leaves to the caller, and each part is needed: a string packed with `s1` is shorter than
256 bytes (the code writes the length cut down to its prefix and does not complain), a string packed with `z` has no zero byte, and a
record whose format has `Xn` stands at a multiple of `n` (`string-pack` aligns from the start of the record, `string-unpack`
from the start of the data). The formats, the integers and the byte order are as they like. The invariant `RecordInv` says that there
is a layout of the record (`Layout`): for each prefix of the format a position, a byte order and a number of arguments, such that the
bytes between two positions are the option's coding of its argument; and when the record is read, that offset, order and
values are those of the layout at the next option, shifted by what stands before (`Followed`). `IntComesBack` is the
heart for integers: a value that passes the range check of its width and sign is what the sign extension of its low
bytes gives, in both byte orders; `LengthComesBack` the same for lengths. The positions of the layout are those
`string-packsize` counts (`LayoutMeasures`).

`NumbersProofs`, with the lemmas about limbs, long division and digits in `BignumProofs`, proves, for limbs of any width, integers of any length, any literals and ratios (`BignumAssumption`,
`NumbersAssumption`), of the model as a whole:

| theorem | property |
|---|---|
| `NumbersTypeCorrect` | `TypeOK` |
| `ArithmeticKeepsExact` | `ArithmeticIsExact` |
| `IntegersKeepRight` | `IntegersAreRight` |
| `ReadBackKeeps` | `ReadBack` |

and of any two integers, or of programs that only use `+ - * max min abs` on integers:

| theorem | property | when |
|---|---|---|
| `SumOfIntegers` | `SumIsExact` | `Registers` |
| `DifferenceOfIntegers` | `DifferenceIsExact` | `Registers` |
| `ProductOfIntegers` | `ProductIsExact` | `Registers` |
| `OrderOfIntegers` | `OrderIsRight` | `Registers` |
| `FormsOfIntegers` | `ResultsAreCanonical` | `Registers` |
| `IntegerProgramsAreExact` | always, the five of them | `Registers` at the start, and steps of `IntegerStep` |

The invariant is `NumbersInv` (`NumbersKeep`): each register is a `Number`. That is a word in the fixnum range, a big integer whose limbs are
in range and whose highest limb is not zero (`Proper`), or a ratio of two words whose denominator is neither 0 nor -1 (`Rational`);
a denominator may be negative, since the code does not always turn the sign, but -1 is always divided out. It is stronger than `TypeOK`,
which does not exclude -1, and needs for its proof what every operation gives: one lemma for each, `NumQuotientIs`, `NumGcdIs`, `NumLcmIs`,
`SimplifyIsFine`, `ExptIsFine` and so on, and `NumbersStep` takes the actions one by one. `Registers` says that
both are integers. `IntegerStep` is the part of `Next` that adds, subtracts, multiplies, takes the greater, the smaller or the
absolute value, and moves numbers; it keeps `Registers` (`StepsKeepIntegers`). `SumIsExact` and `DifferenceIsExact` speak of sums whose first
magnitude is not the shorter one in limbs, `FirstIsLonger`: `addabs` stops at the last limb of its first
argument, and the carry out of it takes the place of the longer number's next limb (see Behaviour outside the runs). Of ratios they
speak when numerators and denominators are at most 3 (`Tame`), so that products of them stay in a word of any
width allowed (`RoomInWord`); above, the words of the code may overflow.

The argument goes from the limbs up. A number is written as the value of its limbs above the `i`th, in Horner's form (`HornerExists`,
`MagnitudeValues`). `SumOfLimbs` and `DifferenceOfLimbs` settle one limb with its carry or borrow, among them the limb that is full
and gets a carry; `SumCarries` and `DifferenceCarries` are the inductions, and `NoBorrowLeft` says that the greater less the smaller leaves
none. `CmpAbsMeans` compares magnitudes from `LongerIsGreater` and `TopDecides`. `MulLimbExact` shows that the four half products,
added modulo the base with three carries, are the whole product with the limb and the carry that come in. `RowValue` is the induction along a
row, whose last carry finds zero limbs above (`RowsStayOpen`), `RowsValue` adds the rows up. For words, `OverflowsAreFound` says that the
tests of `numadd` and `nummultiply` send a sum, difference or product to the big integers whenever it leaves the word, and `BigSetVTKeeps` that
a big integer in the fixnum range comes back as a word.

Division subtracts the shifted divisor once for each bit of the quotient. `BitLengthIs` gives the number of bits from the highest limb, `ShlAbsExact`
and `Shr1AbsExact` say that shifts multiply and halve, `DivStateNext` is one turn of the loop: the divisor times what is
found, with the dividend that is left, stays the dividend. `DivLoopEnds` is the induction, after which `QuotientBits` reads the
quotient from the set of bits (`DivAbsExact`). `NumQuotientIs`, `NumModuloIs` and `NumRemainderIs` then add the signs, and the
halves that `numremainder` cuts words to. Euclid's loops end since the divisor shrinks (`EuclidDescends`, `BigEuclidDescends`), and what they give divides both
and is a sum of multiples of both (`CommonDivisor`); `LcmTimesGcd` divides back. Literals are
spelled by their digits (`Spells`): `DigitsSpell` says it of the digits of a number, `BigFromStrIs` and `ReadUIntegerIs` that the reader makes
the number spelled, in the form that is right, across the change from a word to a string of digits.

Printing goes the other way. A big integer is divided by `Chunk`, limb by limb from the top, two half divisions each (`Div128Exact`), so that
`DivChunkIs` gives quotient and remainder of the whole number. The digits come out lowest first, which `Climbs` describes; `ChunkClimbs` is one
chunk, its leading zeros included, `JoinClimbs` puts a chunk before what follows, `ClimbSpells` turns the digits round. `Written` is the
result: what is printed spells the magnitude. `OneForm` says that two canonical integers of one value are the same, which makes the integer read the one
printed. Of exact decimals, `TimesIs` says that the multiplications by the radix that are not refused are the power, and `CutDown` that dividing by the
common divisor keeps the quotient.

`expt` squares. `ExptIsPower` is the induction along its loop: the result so far, times the power of the base that is still to come, is the power
asked for (`NumExptIs`), in the form that is right after the last turn. The reference is `Power`, which multiplies once for each unit of the
exponent, and the exponent may be any.

A word is the sum of its bits (`BitsAre`), and a set of bits made a word counts its highest bit as minus its weight (`FromBitsIs`). From there
everything is arithmetic: intersection and union of two sets of bits have the sum of both (`FromBitsAdd`), which gives and, or, xor and not;
above the last bit set nothing is left (`NothingAbove`) and below the first the number is a multiple (`NothingBelow`), which gives
the length and the first set bit; `AshRight` is a division that rounds down, `AshLeft` a multiplication when the product fits, and
`BitFieldIs` what two divisions leave.

`MachineProofs` proves, for any compiled code, segments of any size and any number of frames and continuations
(`SegSizeAssumption`):

| theorem | property | when always |
|---|---|---|
| `CopyOnWrite` | `CapturedFramesKeep` | `CallsInWindow`, `StringsAreSafe`, `ContinuationsExist` |

The conditions are about code the compiler makes, which no step of the machine checks: a call is made from inside the
window of its frame (`top` counts the temporaries), a reference to a continuation is to one that was captured, and
the string of `call-with-output-string`, which goes to `start` of its frame, has a caller there whom `callrtnfrm`
has copied. They are parts of `MachineTypeOK`, which the run `machine` checks in every state. Nothing
else is asked of the code: any instructions, operands and values will do.

The inductive invariant is `MInv`, which is `Fit(mode, M)`. Of a state that runs it says: the running frame lies on a segment that is
not frozen (`Ready`); there is a set of frames (`Holds`) with all that continuations hold, closed under callers, all of
it on frozen segments; and there is a set with the running frame and its callers (`Stands`) in which each frame is younger than its
caller and waits for its value at a slot inside the caller's window (`Linked`). The last is what makes `UnshareOwner`
right: `callrtnfrm` writes to the caller's slot, and by `Linked` a frozen caller is the owner it copies first. Each step then keeps `Holds`
(`Keeps`), and what it writes lies on the running frame's segment. `ChainFacts` unfolds the chain of callers, a
recursive function; `Freeze` counts frames of it on a segment, so a segment with one is frozen afterwards.

Induction over data: the library's induction theorems take operators as parameters and cannot be
cited, but `NatLessThanWellFounded` and `WFMin` can; from them `SetInduction` proves that a
set which contains 0 and with each number the next contains all of them. The
recursive functions of `Coroutine`, `LineTable` and `Pack` are unfolded with it. `BignumProofs` has the same fact as `Upwards` and
`Downwards`, for a set of numbers, and `Recursion`, which says that a function defined by recursion over the limbs exists and obeys its equation.

Only model-checked:

- that the machine gives the evaluator's answers (`Agreement`), and of `MachineTypeOK` and `PortsClosedOnce` what depends on the
  code the compiler makes: `Compiler` and `Evaluator` are recursive over forms of any depth;
- that a datum that was written is read back as the same (`ReadBackIsSame`): an induction over data of any depth;
- the macros: `Macros` is written with recursive operators over forms, where the prover loses its arithmetic;
- liveness (`ComesToAnEnd`), which needs fairness and ENABLED.

## Not modelled

- The collector. README.md:30 of the repository: "partially implemented, not used currently". `checkgc`
  is commented out of the interpreter loop, and the sweep keeps every object.
- The symbol table: buckets that only grow. The embedding API and host programs: wrappers.
- The inspection API of the debug library, which reads the stack.
- Reals and complex numbers, which are the C library's; in reading, what an exact decimal
  becomes is modelled.
- In the machine: the packing of operands into 32 bits; `force`, `dynamic-wind` and coroutines, which
  have modules of their own; `with-output-to-...`, whose port is in the environment.
- Vector patterns of macros, the scope of `let-syntax`.
- Library procedures on lists, strings and vectors that keep no state.

## Plan

Modelling follows the inventory and is complete but for the list above. What is left is to prove:

- `PortsClosedOnce` from an invariant of the frames, for programs whose continuations stay inside of a port's extent.
