# Constable in TLA+

Constable is the authorisation server of Medusa.  A kernel (or any other
program that speaks the Medusa protocol) asks it about the operations its
subjects want to perform on its objects; Constable runs the handlers of its
configuration, which may fetch and update kernel objects while they run, and
answers with a verdict.

This directory holds a model of it: TLA+ modules, the TLC runs that check
them on small instances, and proofs of what holds for every instance.  Paths
below are relative to `src/constable/`, or to `src/` where they start with
`libmcompiler/` or `medusa-forwarder/`.

## 1. The system

| Component | Source | State it keeps | Operations | Model |
|---|---|---|---|---|
| startup | `constable.c`, `init.c`, `comm.c` | connections, modules, arrays per connection | `main`, `run_init`, `init_all`, `comm_do` | `Startup` |
| connection configuration | `mcp/conf_lang.c` | static variables of its parser | the statements of `constable.conf` | `Startup` |
| communication core | `comm.c`, `comm.h`, `threading.h` | `comm_todo`, per connection `state`, `init_buffer`, `open_counter` | `comm_worker`, `write_loop`, `comm_conn_init`, `comm_do` | `Comm` |
| buffers and queues | `comm_buf.c` | the pools, the queues, per buffer `to_wake`, `do_phase`, `lock` | `comm_buf_get`, `comm_buf_resize`, `comm_buf_free`, `comm_buf_todo`, ... | `Comm` |
| MCP protocol | `mcp/mcp.c` | `output`, `wait_for_answer`, `state_lock`, the id counters | `mcp_read_worker`, `mcp_r_*`, `mcp_answer`, `mcp_fetch_object`, `mcp_update_object`, `mcp_write`, `mcp_close` | `Comm`, `Classes`, `Startup` |
| event decision engine | `event.c`, `event.h` | per buffer `hh`, `ehh_list`, `do_phase`, the context | `do_event`, `do_event_list`, `do_event_handler`, `evaluate_result`, registration | `Decision` |
| classes and cinfo | `class.c`, `hash.c` | classes of a connection, allocated cinfo words | `add_class`, `class_alloc_cinfo`, `class_comm_init` | `Classes` |
| tree class handler | `generic.c` | the subject's node in its cinfo, the node found in `var_data` | `generic_hierarchy_handler_decide`/`_notify`, `generic_init_comm`, ... | `Hierarchy` |
| kernel objects | `object.c`, `object_endian.c` | spaces and event masks in an object's data | `object_do_sethandler`, `object_get_vs`, access to attributes | `Hierarchy`, `Alu` |
| virtual spaces | `space.c`, `vs.c` | the list of spaces, their members, `vs`, `vs_id` | `space_create`, `space_add_path`, `space_apply_all`, `space_init_event_mask` | `Space` |
| UNST (the name space tree) | `tree.c` | nodes, literal and regular children, handlers | `create_path`, `find_one`, `tree_for_alternatives`, `tree_expand_alternatives` | `Tree` |
| compiler | `libmcompiler/`, `language/language.c`, `conf_lang.c`, `expression.c` | the parser's stack, sections with labels, words held back | the table-driven parser, `conf_lang_param_out` | `Grammar`, `Compiler` |
| bytecode interpreter | `language/execute*.c`, `alu*.c`, `variables.c`, `cmds.c` | `struct execute_s` with its stack | `execute_handler`, `execute`, `r_*` | `Machine`, `Alu` |
| RBAC, code injection, `medusa-forwarder/` | `rbac/`, `force/`, `Mlibc/` | | | none, see 6 |

How they interact: per connection a *reader* thread parses messages into
buffers and a *writer* thread sends the buffers of its `output` queue; two
*workers* take buffers from the one global `comm_todo` queue.  A request
travels reader -> todo -> worker (`do_event`) -> todo -> worker
(`mcp_answer`) -> output -> writer.  A handler that fetches or updates an
object leaves the buffer on `wait_for_answer` and is resumed, possibly by the
other worker, when the reader sees the answer.  While `_init()` of a
connection runs, its requests wait on `to_wake` of the `_init()` buffer.
`comm_buf_free()` is where all of this ends: it wakes `to_wake`, sends
`READY_ANSWER` and gives the buffer back.

What is hard, and what makes each part correct:

* **Hand-overs.** A buffer is in the hands of one thread at a time although
  threads pass pointers through five queues and look at buffers they no longer
  own (`comm.c:185`, `mcp/mcp.c:357`).  It must be in exactly one place, never
  lost, and every hand-over must wake the next thread.
* **Answers in any order**, and before the asking worker has saved where it
  stands (`comm.c:185`, `mcp/mcp.c:936`).
* **`_init()`** against requests that arrive before, while and after it ends
  (`comm.c:216`-`225`), on protocol 2 and 3.
* **Broken connections** while all of this is going on (`mcp/mcp.c:850`).
* **Suspension in the middle of the handlers**: `do_event()` is entered anew
  and has to find its place (`event.c:461`), with the verdict so far intact;
  inside a handler the instruction that asked is executed again
  (`language/execute.c:398`).
* **Verdicts** that are ordered, but not numerically (`event.h`).
* **Words shared by trees.** Several class handlers divide the cinfo words of a
  class among themselves and follow the pointers they find there without a
  check; copies of these words travel with requests and back (`class.c:170`,
  `generic.c:185`).
* **Expansion of the tree**: merging the handlers of patterns into the nodes
  they stand for creates nodes that have to be expanded themselves
  (`tree.c:317`); every handler must arrive exactly once, and objects must then
  be led to the node that has them.
* **Spaces** that include and exclude each other, in two recursions with
  different early returns (`space.c:328`, `space.c:449`), and what the start
  does with spaces nobody uses (`space.c:803`).
* **Compilation in one pass** with one token of lookahead: symbols act before
  the token after them is accepted, jumps wait for labels that may never come
  (`libmcompiler/compiler/special_out.c:90`).
* **Arithmetic** on integers of any width, sign and byte order in registers
  that hold more than the value (`language/alu.c:69`).
* **The order of the start**: arrays indexed by connections are sized by the
  connections there are at that moment (`comm.c:42`), and kernels are greeted
  one after another (`comm.c:126`).

PROJECT.json lists these hazards line by line with the properties that would
catch them.

## 2. Modules

| Module | What it is |
|---|---|
| `Verdicts` | the verdicts, how two of them combine, which notify list follows |
| `Decision` | how one buffer gets its verdict: `do_event()` and the handlers, with suspension |
| `AuthService` | the abstract service: initialise once, one verdict and one reply per request |
| `Comm` | readers, writers, workers, queues, pools, the protocol |
| `CommService` | `Comm` implements `AuthService` (refinement mapping) |
| `Classes` | classes and access types of a kernel, and who gets which cinfo word |
| `Hierarchy` | requests that move subjects in trees, on top of `Classes` |
| `Paths` | paths of the tree, and which node a pattern stands for |
| `Tree` | making nodes, expanding alternatives, looking names up |
| `Space` | from the statements about spaces to members, bits, rights and event masks |
| `Grammar` | the rows of the parser's tables for functions, handlers, commands, expressions |
| `Compiler` | the parser, sections and labels, registration of functions and handlers |
| `Machine` | the interpreter, one action per kind of instruction |
| `Handler` | `Compiler` and `Machine` composed, against the meaning of the source |
| `Alu` | what operations and assignments do to the bytes of values |
| `Startup` | `constable.conf`, the initialisation and the greeting of connections |
| `DecisionProofs` | theorems about `Decision` |
| `HierarchyProofs` | theorems about `Classes` and `Hierarchy` |
| `StartupProofs` | theorems about `Startup` |
| `CommTypes`, `CommOwnership`, `CommProofs` | `Comm`, whatever kernels do: what its state is made of; who has which buffer; the semaphores and the requests |
| `CommOrderly`, `ServiceProofs` | `Comm` with kernels that keep their connections: the order of the threads; the mail, the refinement of `AuthService`, the way of an operation to its answer |
| `MCDecision`, `MCComm`, `MCTree`, `MCSpace`, `MCHierarchy`, `MCHandler`, `MCAlu`, `MCStartup` | instances for TLC |

The modules follow a request through the program.  `Startup` ends where `Comm`
begins, with threads for the connections that greeted.  `Comm` moves buffers
and treats what a handler computes as a free choice; `Decision` looks into one
buffer and treats everything around it as a free choice.  `Hierarchy` is what
the trees' own hooks of that walk do to the subject, on the classes that
`Classes` has registered; `Handler` is what a compiled hook does, and `Alu` what
its arithmetic does to bytes.  `Tree` and `Space` are what happens before the
first request: `Space` is given the nodes of an expanded tree and uses `Covers`
of `Paths` for `tree_for_alternatives()`; that the two agree after the
expansion is what `Tree` checks (`AlternativesAgree`, `EveryHandlerOnce`).

### Decision

One buffer.  `ehh_list`, `do_phase`, `hh`, `result`, `unhandled` are the
fields of the code; `stage` is the place inside `do_event_list()` (hooks of
the event, of the subject's tree node, of the object's tree node; a hook of
the code's class-handler loops is one of the stage's sequence), `exec` is
`execute.h`, the handler the virtual machine is busy with.  The hooks come
from a set of registrations (`Configurations`); the values of handlers from
`Returned`.  `Enter` is the start of `do_event_list()`, `Mismatch`,
`ScriptReturns`, `EnterDecides`, `EnterFails`, `TrackCompletes` are one
iteration of its loop through `do_event_handler()`, `ScriptParks` and `Resume`
the suspension and its end, `NextStage`, `SwitchToNotify` and `Decide` what
follows a list.  `InitReturns`/`InitParks` are `do_init_handler()`.

What is abstracted: whether hooks match the spaces of the operands is a free
choice (`Mismatch`).  `RESULT_RETRY` is mapped to DENY by `evaluate_result()`
like any other value and needs no action.  Lists `EHH_VS_DENY` are never
walked (nothing sets `ehh_list` to it).  `Refetched` names the operands a
handler fetches into their own place; `Resume` may then find the operand
without a tree node.  `MaxParks` bounds the suspensions; the walk does not
depend on their number.

Checked: `VerdictIsStrongest`, `NotifiedDenialStands`, `EveryHookOnce`,
`HookGoesOn`, `EventuallyDecided`.  `TypeOK`, `ErrMeansUnhandled` and
`FollowsTable` (the verdict only moves up the table of `event.h`) are proved.

### Comm

One action is what a thread does between two points where another thread can
see the difference.  `ReaderGets` ... `ReaderFails` are `mcp_read_worker()`
with the `mcp_r_*` functions, `CloseOutput` ... `Closed` are `mcp_close()`,
`WorkerTakes` ... `InitClears` are `comm_worker()` with `do_event()` and
`mcp_answer()`, `WriterWaits` ... `WriterFails` are `write_loop()` with
`mcp_write()`.  `Free` is `comm_buf_free()`, `Fresh`/`Taken`/`Put` the pools.
The kernels are the actions `Reads*` and the history `asked`, `told`,
`answered`, `ready`.

Abstractions, all on the side of more behaviours:

* what a handler computes is a free choice of verdict and of operations, at
  most `MaxOps` (`MaxInitOps` for `_init()`), on objects of the connections
  `ObjectsOf` gives to its own: in the runs that one only (section 5);
* `comm_conn_init()` may fail before it touches anything (`InitRefused`, with
  "unfit types" in `Unruly`): what the kernel defined does not fit the
  configuration;
* `malloc()` hands out one and the same of the free numbers, so freed memory is
  reused at once; the model stops where `Heap` is exhausted (`Available`), which
  the runs, where that would be a deadlock, show not to happen;
* a buffer taken from the heap for a request has room for `var_data`, the one
  of `_init()`, which asks for 0 bytes, has not (`comm.c`, `comm_buf.c:75`);
* a reader may still read from a connection the writer has closed, or never
  notice; `READY_REQUEST` is sent once per connection;
* `mcp_close()` empties a queue one buffer per step;
* undefined outcomes end the process: `status` becomes "dangling" (a query put
  on a queue in freed memory), "undefined" (two readers in one buffer),
  "crashed" (the writer dequeues NULL), "deadlocked" (`output.lock` taken
  twice), "fatal", or "exited" (`comm_do()` returns).

### CommService and AuthService

`AuthService` is what the kernels are promised: no handler before `_init()` is
over, no `READY_ANSWER` before it, one verdict per request, one reply with it,
and that all of this happens.  `CommService` maps the threads to it
(`ImplementsService`, with liveness; `ImplementsServiceSafely` when
connections may break, where no liveness is promised).  The second takes `up`
from `Owed`: an `_init()` whose connection broke counts as over, because
`mcp_close()` frees its buffer and the requests that waited begin
(`mcp/mcp.c:860`).  While connections hold both readings of `up` are one
(`NothingCutShort` in `ServiceProofs`).

### Classes and Hierarchy

`DefineClass` and `DefineEvent` are `mcp_r_classdef()`/`add_class()` and
`mcp_r_acctypedef()`/`event_type_add()`; a class defined again replaces the
entry of its name while the old structure lives on.  With READY,
`class_comm_init()` goes through the class handlers: `NoClass`, `Allocate` and
`InitFails` are the outcomes of `generic_init_comm()` for the next one, which
asks `class_alloc_cinfo()` for the first free block of the subject's cinfo or of
the object's.  The mask of allocated blocks has the width of the code's `int`
(`IntBits`), the number of blocks that of a pointer (`PtrBits`).

`Hierarchy` extends this with requests.  A request is a record with copies of
its operands' data; `Request` is `mcp_r_query()`, `Begin` the refresh at the
start of `do_event_list()`, `DecideFound`, `DecideMissing` and `DecideParks` are
`generic_hierarchy_handler_decide()`, `Notify` is
`generic_hierarchy_handler_notify()`, `UserSays` and `UserEnters` what hooks of
the configuration may do in between (a verdict, `enter()`), `Answer` the update
of the subject in the kernel by `mcp_answer()`, which the kernel may refuse.
`SetHandler` is `object_do_sethandler()`.  The trees are constants: `Children`,
`Alternatives`, the spaces and the events of nodes; what the path expression of a
tree names is a free choice among what `find_one()` may return (`FindOne`): a
child, the node itself, or nothing where no child has the name.

`Request` assumes of a kernel that it asks with access types whose classes are
still the ones they were defined with.  An access type keeps pointing to its class
(`ev->op[]`); after the class is defined anew, its requests would carry copies that
are laid out like the old class but served with the offsets of the new one.

Checked: `CinfoDisjoint`, `NodesInPlace` (a cinfo word points into the tree of
the handler it belongs to), `SetsMatchNodes` (the sets stored in an object are
those of its nodes, at every moment and in every copy), `StepsDown` (a subject
moves one step, in the trees of this access type, and only if the decision list
allowed it).

### Paths and Tree

A node is its path; literal names, regular expressions and ".*" are the
components, and `Matches` says what an expression matches.  `regex_child` is
kept in the order of the code's list because the first match wins; literal
children are compared for equality and need no order.  `register_tree_type`,
`Mention` and `Declare` are the statements of a configuration, with
`create_one_i` and `create_path` as operators: a new node gets its ".*" at once,
a ".*" with its first other child.  `Expand` starts
`tree_expand_alternatives()`; each `tree_apply_alts` or `tree_node_merge` step is
one call of the recursion, whose own calls go on top of the stack `calls`.  When it is
empty, `Appears` and `Enter` move an object through the tree with `find_one()`
as the class handler does, and `find_path`, `find_one2`, `Returns` are
`str2path()`.

Abstracted: the handlers of a node are the patterns they were declared for;
the two kinds of lists (subject, object) are treated alike by the code and are
one here; the class of a node and the printing of paths are left out.  A
configuration that names a tree before it is registered is outside the model
(guard of `Mention` and `Declare`).

Checked: `EveryHandlerOnce`, `AlternativesAgree`, `LedRight` (the walk and
`find_one` end at a node whose path stands for the name), `ExpansionEnds`,
`SearchEnds`.  Names for which two expressions compete at the same node are
exempt from `LedRight` (`Ambiguous`): the newest expression of the node wins,
and no text promises which one that is after a merge.

### Space

A configuration is a sequence of statements, `script`: definitions of spaces
and additions to them, access rights, and event handlers.  One action reads one
statement (`space_create`, `space_add_path`, `space_add_vs`,
`space_add_event`), including the bits it hands out and the anonymous spaces it
makes; `Rejected` and `NoVsLeft` are its failures.  Every `Processes` step is one
round of the first loop of `space_apply_all()`, with the recursions behind it as
functions on the list of elements, and `Applied` is what follows
(removal of unused spaces, rights and bits copied to the members).
`space_init_event_mask` is the connection of a kernel; an event's type has the
classes of its operands (`op`), the monitored one among them, and the masks come
from comparing classes, as in `event.c:144`-`159` and `space.c:1018`-`1117`, so that an
event of processes on processes is reported for both operands.  `fatal()` and an
endless recursion are values of `status`.

Sets of bits are sets of numbers below `MaxVs`.  Out of memory, names of spaces
for the kernel and a second kernel are left out.  The order in which C
evaluates the two arguments that hand out bits is a free choice (`Orders`).

Checked: `MembersRight` (the two recursions against
`Meant`, the meaning of a definition as sets), `FailsForAReason`,
`HandlersMeetMembers`, `RightsAsGranted` (which rights of which nodes meet on which),
`MasksRight`, `StartEnds`.
`MembersRight` leaves out configurations in which an excluded space excludes
something itself (`Unnested`): there the code answers differently from the set
difference, and no text says what it should be.

### Grammar, Compiler, Machine, Handler

`Grammar` is the tables `conf_lang[]`, `language[]` and `exp[]` as rows.  One step
of `Compiler` is what the parser does with the symbol on top of its stack:
`synt.c` for tokens and rows, `special_out.c` for sections, labels and the
words held back until a label is known, `conf_lang_param_out()` for the
declaration and the end of functions and the registration of handlers.  Errors
are counted as the code does and skip what it skips.

`Machine` has one action per kind of instruction.  A value is its words with
the word that says what they are on top; operations on numbers are the
mathematical ones here, `&`, `|` and `^` on the bits of numbers that are not
negative (`Alu` has the bytes), a value of several words is one
word, and the chunks of the stack are one sequence (`Depth` bounds it).
`fetch` and `update` leave the machine in the middle of the instruction;
`Kernel` answers and `Resume` executes it again.

`Handler` draws a source from `Programs`, feeds its tokens to the compiler and
runs what comes out.  The reference is `Meaning`, the value of the source's tree
given without instructions, jumps or a stack and with operators of its own
(`Apply`); it follows the answers of the kernel that the run has met (`log`), so
the two can be compared in every branch.

Checked: `RunsAsWritten`, `RefusedIfWrong`, `RefsLive`, `WordsArrive`,
`EventuallyDone`.  The sources apply `!` and `^^` to results; on an attribute they
overwrite it (section 5).

### Alu

Expressions of at most `MaxOps` operations on attributes (integers of either
sign and byte order, bitmaps, strings) and literals, then an assignment.  A byte
has two bits, a word two bytes and a pointer four, so that overflow, sign
extension and garbage beyond a value's size are met by small numbers.  Registers
are sequences of bytes, `Extend` is `r_resize()`, `SetByteOrder` is
`object_set_byte_order()`.  `want` are the values the source expression may have,
as integers, texts and bit strings cut to the width of the result, and `departs` the
reasons for which the code is known to compute another one:

| `departs` | where | |
|---|---|---|
| `swapped` | a number of an object in the other byte order is read or assigned to (`language/execute.c:86`) | section 5 |
| `truth` | `!` or a test of an attribute or of a text (`language/alu.c:272`, `:289`) | section 5 |
| `bitmaps` | `==` or `!=` of bitmaps that differ (`language/alu.c:142`) | section 5 |
| `read-only` | a read-only attribute is assigned to (`language/execute.c:86`) | section 5 |
| `narrow` | a result is taken into a wider operation: nobody extends it (`language/alu2.c:112`) | no text says what it should be |
| `full` | a text that fills its attribute is compared with a longer one (`language/alu.c:168`) | likewise |
| `string` | `~` of a text | it means nothing |

`ValuesRight` and `StoredRight` claim what holds when none of them applies;
`StoredRight` also that the value survives a later change of the object's byte
order.

### Startup

A configuration is a sequence of statements; `Calls` is the sequence of calls
of `mcp_conf_lang_param_out()` the parser makes of one, `lines` and `call` say
which statement and which of its calls is next, and `static` is what the static
variables hold in between.  `ConfigRead` ... `Spaces` are `init_all()`, with one
step per hook of a module (`Hook`, `HookFails`); `arrays` records the arrays made
by `comm_new_array()` and their sizes.  `Kill` and `ParentStep` are process 1 that
waits for its child, `Greets`, `Skips`, `GreetingFails`, `Workers` the round of
`comm_do()`, `PeerSpeaks` and `KernelDefines` the other sides.  A kernel without a
greeting (`mcp/mcp.c:275`) has its first message read in the same loop: it may be good
("none"), fail or break off ("broken"), or never end, which is to say nothing.  What
the message does is left to `Comm` and `Classes`, but for the array a class makes.

Checked: `SlotForEveryConnection`, `LinesKeepTheirOwn` (a connection is what its
own line says), `ServesWhoGreets`.

## 3. Runs

| Run | What it shows | Bounds |
|---|---|---|
| `decision` | all properties of `Decision` | four registrations (a tree's handlers, scripts on every list and stage, an event without hooks), values -1..4, two suspensions, lost tree nodes |
| `comm_init` | two requests around `_init()`; the refinement with liveness; queries never wait on a freed buffer | protocols 2 and 3, verdicts ALLOW and ERR, one worker, a subject that is updated, `_init()` with one operation, its buffer from the pool or from the heap, no buffer grows |
| `comm_cross` | two requests with an operation each, after `_init()`: answers in any order, early answers, the moving `_init()` buffer | protocol 2, two workers, pools held by other connections, seven buffers of the heap |
| `comm_hangup` | the connection breaks, or its types are refused, at any point | protocols 2 and 3, one request, `_init()` defined or not, one operation of either (`OneOperation`), stray answers and premature queries, two workers |
| `tree` | all properties of `Tree`, in every order of the statements | up to four statements over ten patterns of one or two components, two overlapping expressions, objects tracked two steps below the tree |
| `space` | all properties of `Space`, and that the start fails in each of its ways | 7924 configurations of four named spaces (below), events between two classes and within one |
| `hierarchy` | all properties of `Classes` and `Hierarchy` | two trees of processes and one of files, two concurrent requests, one `enter()` each, two class definitions, an `int` of 1 bit and a mask of 4 |
| `handler` | all properties of `Compiler`, `Machine` and `Handler` | some eighty sources, right and wrong; `!` and `^^` of results only |
| `alu` | `ValuesRight`, `StoredRight` | expressions of two operations on values of 1, 2 and 4 bytes |
| `startup` | all properties of `Startup` | files of up to three statements out of twelve, three modules of which two share a name, standard descriptors open or closed |
| `decision_parked_hook`, `comm_init_moves` | one disagreement each, see 5 | |

Why the bounds are enough.  In `Comm` the hazards need two requests (or one and
`_init()`), two workers and at most one operation per handler.  The workers
are interchangeable, so symmetry is used where only safety is checked.  Pools of
one buffer per size, as `buffers_alloc()` makes them for one connection, make
every request meet an exhausted pool; in `comm_cross` the buffers of the pools
are in the hands of other connections from the start, so that the buffer of
`_init()` comes from the heap and moves.  Two connections that share the pools are
only in `comm_init_moves`; nothing else is shared between connections but `todo`
and the counters of operations.

In `tree` the hazards need two expressions that match a common name, one that
is also a literal, and ".*" above and below them; two components suffice for
merges of merged nodes.  In `space` three spaces are combined from all
small bodies that take in, keep out and cut off each other, with and without
recursion, declared before or after what they use, within themselves, plus a
space of subjects and ten ways to use them.  `MaxVs` is 3 where the code has
64 bits (`MAX_NUM_OF_VS`), `MaxPath` 3 where it has 32 (`MAX_SPACE_PATH`), so
that both limits are met; `status` takes every value but "not processed", which
`FailsForAReason` shows to be unreachable.

In `hierarchy` two trees share a class (so that words have to be told apart, and
the second one meets the end of the mask), one enters with "clone", one with
"test_enter", one access type is triggered at the subject and one at the object
and one is redefined, and a class lacks an attribute for its spaces.  `ClassesFirst` makes the kernel name its classes before
its access types, which `event_type_add()` needs to find them; `LateDefinitions` is FALSE,
a kernel that redefines a class after READY is covered by the proof of
`CinfoDisjoint` only.  `TreesFitEvents` is assumed: the class of a tree is the class
of the subject of its access type.  `generic_init_comm()` complains of a
configuration where it is not and goes on (section 5).  The sources of `handler`
cover every row of the grammar that is modelled (section 6 names the others),
every instruction, loops with both jumps, recursion, calls with references, and
one source per way to be refused.

Fairness.  In `Comm` and `Decision`: weak fairness of every thread (they are
never stopped and no thread can starve another out of a mutex for ever), and of
the kernel answering what it was asked; none for what the kernel does of its own
accord.  Deadlock is checked in `Comm`: `Done` allows stopping only when the
process ended or every request is answered.  `Handler` assumes that the thread
that runs a handler goes on and that the kernel answers (`Run \/ Answer`).
`Startup` assumes that `main()` and the waiting parent run on; what other sides
say is up to them, and `ServesWhoGreets` allows for waiting for one that says
nothing.  In `Tree` the expansion and `find_one2()` are sequential code that
runs on; what a configuration says and what objects appear is not promised.
`Space`, `Hierarchy` and `Alu` state no fairness: that the start of `Space` ends is
the invariant `StartEnds`, a bound on the rounds of its loop.

## 4. Proofs

`DecisionProofs` proves, for every set of registrations, every set of values a
handler returns and every bound on suspensions:

* `EvaluateIsStronger`, `EvaluateCommutes`: `evaluate_result()` returns one of
  its arguments, never the weaker one, in either order.
* `Typing`, `Strongest`, `ErrOnlyUnhandled`, `TableFollowed`: by the inductive
  invariant `VerdictInv`, i.e. `TypeOK`, the two invariants and that a buffer
  that was not entered yet is fresh.
* `MachineOwned`: by `MachineInv`: while no tree node is lost, the machine is
  free or tied to the hook the walk stands at, it is never tied to a tracking
  hook, and not at all before the walk or in `_init()`.
* `DenialStands`: by `DenialInv`: once the walk is on the NOTIFY_DENY list the
  verdict refuses, and stronger verdicts than a refusal are refusals.

It proves `NoHookMissed`: no hook is left out or run twice
(`EveryHookOnce`), for registrations of any length.  `EveryHookOnce` speaks of
the end of a walk; the inductive `WalkInv` says at every moment what was visited:
the decision list if it is behind (`Before`), the finished stages of this list,
and the first `hh - 1` hooks of this stage (`Gone`).  Going past a hook appends
the next one (`GoneNext`), the end of a stage is the beginning of the next
(`GoneStage`).

`HierarchyProofs` proves `CinfoNeverShared`: for any classes, redefinitions, trees
and connections two handlers of a class never keep nodes in one word
(`CinfoDisjoint`).  `CInv` carries it: a placed handler's block lies within its
attribute and has its bits set in the mask of its class (`Placing`), placed
handlers of a class have different blocks (`Parting`); while handlers are being
initialised nobody redefines their class (`AtHome`), and a connection is ready
only when no handler is left to be placed (`AllDone`).  A block with no bit set
is nobody's, however few bits the mask has.

It proves that `Hierarchy` implements `Classes`
(`LayoutImplemented`): every step of a request leaves the layout alone, hence
`WordsNeverShared`, however many requests move about.  For kernels that settle
their classes before READY (`~LateDefinitions`, a hypothesis of the three) it
proves what requests do within this layout, for trees of any shape, any hooks,
objects and number of requests:

* `PointersStayHome` (`NodesInPlace`) and `SetsFollowNodes` (`SetsMatchNodes`), by
  `LInv` and `HInv`.  `LInv` is about the connection: a class is found under its name
  (`Named`), the subject's class of an access type is the one the kernel named
  (`SubjectsFound`), and each handler of a known class got a word (`Served`);
  hence the handlers of a live object have words of their own (`HasWord`,
  `OwnWord`), and nothing of it changes after READY (`ReadySettles`).  `HInv` is
  about the data: what the kernel has of an object, and every copy a request
  carries, is `Proper`; a request's trees are trees of its subject's class, and a
  node a hook found is of the hook's own tree (`Sound`).  The two properties are
  `Proper` for all copies; `Sound` is needed because the notify hook writes the
  found node without a look, and "clone" takes the object's node for the
  subject's.
* `OneStepAtATime` (`StepsDown`), by `SInv` on top: the subject is where its way
  begins (`Begins`) until a notify hook moves it, each tree already met has
  settled on a node in reach of the beginning (`Met`, `Stepping`), and only an
  allowed request has the NOTIFY_ALLOW list.  When the decision list ends all
  trees of the access type have been met (`ToNotifyTracked`); that no hook is
  passed by is `NextHook`.

`StartupProofs` proves `SlotsSuffice`, `SlotForEveryConnection` for every
`constable.conf` and all modules.  `StartInv`: connections are added only while
the configuration is read and modules make theirs, arrays exist only after
that, and readers, which make more of them, only once connections are opened.

It proves `LinesNeverMix`, `LinesKeepTheirOwn` for files of any length.
`LinesInv` follows the parser call by call: before call `n` of a statement the
static variables its first calls set are its own (`Known`), whatever the
statements before left there; the listener in `static.listen` has the port of
this statement, because a port has one listener in `all` (which makes the first
one `mcp_listen()` finds the only one), or is none where the port cannot be bound
(`Linked`).  What is added later (connections of modules, greetings) changes
nothing a line says (`LinesRest`, `OneMoreLine`).

`Comm` is proved about in five modules, for any number of connections,
workers, requests, operations and buffers.  The first three allow every unruly
behaviour of the kernels (`Unruly`: queries before READY, stray answers, types
that do not fit, broken connections).

* `CommTypes` says what threads, queues, pools and buffers are made of
  (`TypeOK`).  It is not inductive alone: a worker that frees or answers a buffer
  goes on with `buf[b].comm`, which has to be a connection (`CommKnown`).
* `CommOwnership` proves `NoBufferTwice` (`NoTwoPlaces`) and with it
  `CommTypesKept`.  `Holds(k, x, b)` is one relation for all places: the list,
  pool or thread `x` of kind `k` has buffer `b`.  `Own` says that no buffer has two
  holders (`Apart`), that a buffer somebody holds outside the pools belongs to a
  connection (`Known`), and that no list has it twice (`Lists`); the three need each
  other, because what `comm_buf_free()` wakes and where it sends READY_ANSWER
  depend on the buffer it frees.  `Moves` is the lemma behind all actions: if
  buffers change holders only from `gone` to `come`, each from one to one, they
  stay apart; `FreeMoves` is `comm_buf_free()` in these terms, and `OwnIsApart` leads
  from `Holds` to the counted places of `NoTwoPlaces`.
* `CommProofs` proves `SemaphoreCounts` (`SemCounts`): every action changes the
  queue and its semaphore together while the connection is open, and whoever
  closes it has marked it closed first (`Shut`).  It proves `HandlersBeginOnce`
  (`BeginsOnce`): a query is read once (`ReadOnce`), nobody knows a request before
  (`UnseenUnbegun`), one buffer carries it (`OneBuffer`) and once its handlers have
  begun that buffer has a phase or is locked (`Marked`): between the request to the
  kernel and `do_phase` being saved it is the lock that keeps the second worker
  out (`comm.c:185`).

The other two are about kernels that break off no connection and ask nothing
before READY (`Orderly`: of the unruly behaviours only stray answers are left).
This is a hypothesis of their theorems and cannot be dropped: when a connection
breaks, buffers are lost, `CloseWait` frees the `_init()` buffer or wakes the
queries on it, and a worker that still has to save `do_phase` does so in a buffer
that has been given to somebody else.

* `CommOrderly` has the order of the threads, `OrderInv`: a worker that asked the
  kernel holds the lock of a buffer that somebody else will go on with (`Parked`,
  `Busy`); the buffer of `_init()` is on its way to a worker, carries no request,
  and is the only one queries wait on (`Inits`, `InitBuffers`); `state_lock`
  is held for the step it protects (`StateLocks`).  `InitBufferStands`
  (`InitBufferLives`) follows where no buffer grows (`~VarData`): the buffer of
  `_init()` is freed before `init_buffer` is cleared, and yet no query comes upon
  the pointer, because the worker holds `state_lock` in between.
  `EveryBufferInOnePlace` (`OnePlace`) needs, besides `Own`, that every buffer is
  somewhere (`PlaceInv`): what an action does not move stays where it was
  (`Rests`), and what it takes it puts elsewhere.
* `ServiceProofs` proves that `Comm` implements `AuthService`
  (`OrderlyKernelsServed`, `FixedBuffersServed`; `ImplementsServiceSafely`).  The
  inductive `ServiceInv` adds the mail to `OrderInv`: what is queued for a writer
  is a message for its kernel, an answer carries the verdict its request got, no
  message is lost, changed or made up (`MailMoves`, `ReplyMoves`); then each
  step of a thread is a step of the service or a stutter (`NextMaps`), in either
  reading of `up` (`StepsAgree`).
  `OrderlyKernelsServed` has one more hypothesis, `[]InitBufferStays`: the buffer of
  a protocol 3 `_init()` does not come from the heap where buffers grow.  A buffer
  that grows is freed by `comm_buf_free()`, and `READY_ANSWER` is then sent before
  `_init()` is over; `comm_init_moves` shows the situation (section 5).
  `FixedBuffersServed` has no such condition, because without a tree that tracks
  hierarchy `comm_var_data_size` is 0 and no buffer grows.
  The process may still end with orderly kernels: a reader may look at a buffer it
  has given away (`ReaderChecks`, `mcp/mcp.c:357`), a stray answer is fatal.
* `HandlersSeeOutcomes` (`SeesOutcome`), by `AnswerInv`: every operation has its own
  number and is one buffer's; it is in one place on the way from the worker to the
  kernel and back, or answered; until then its buffer waits on `wait_for_answer`,
  and what the reader wrote into `user_data` is kept until a worker has seen it.
  `EveryOperationHasItsWaiter` (`WaiterKnown`) follows with `Unruly = {}`: a stray
  answer ends the process in `fatal()`, before the reader has looked at the
  answers that come after it.  Both have the hypothesis `OwnObjects`: handlers
  fetch and update objects of their own connection; without it the second is
  false (section 5).

The proofs rest on `CommAssumption` (the sets of buffers, of the pools and of
`malloc()` do not overlap, connections and workers have different names, the
rest are types), `MessageAssumption` (`None` is no message), `StartupAssumption`,
`StatementAssumption` (a file is a sequence of statements of the kinds the grammar
has), `DecisionAssumption`, `ClassesAssumption`,
`DisjointAttributes` (the two cinfo attributes of a class do not overlap),
`HierarchyAssumption` (types; the nodes below a node, and its alternatives, belong to
its tree; cinfo attributes lie within `Words`) and `TreesFitEvents`, which TLC
evaluates in the runs.

Only model-checked:

* `Handler` and `Alu`, whose modules declare RECURSIVE operators (or use bitwise
  ones), which the prover cannot take.
* `Tree` and `Space`: what their folds and recursive functions compute for every
  input would take induction over data.
* `Comm` with kernels that hang up, beyond who has which buffer: `comm_hangup` checks
  the safe part of the refinement, and no inductive invariant for it is known.
* Everything about liveness, which is beyond the proof system: `EventuallyDecided`,
  `EveryReadyAnswered`, the fair part of `ImplementsService`, and the like.

## 5. Where code and text disagree

Two are runs that TLC ends with a counterexample; PROJECT.json quotes the lines.

* `decision_parked_hook`: a handler of a tree node that fetched the very
  operand it hangs on can be skipped on resumption, with the virtual machine
  still tied to it; the buffer is then never answered.
* `comm_init_moves`: a moved `_init()` buffer leaves `init_buffer` dangling.  The
  old buffer goes through `comm_buf_free()` when it moves, so a kernel of protocol
  3 gets `READY_ANSWER` before `_init()` has begun (`comm_buf.c:107`, `:135`).

The others were met while modelling.  The modules do what the code does, and
the properties leave these cases out or allow them:

* A buffer waits for an answer on its own connection, while the request of a `fetch`
  or `update` goes to the object's, which `[name]` in a configuration can make another
  one; the answer finds nobody and ends the process (`mcp/mcp.c:913`, `:918`, `:1067`,
  `:1072`).  `Asks` does so where `ObjectsOf` gives a connection another one's
  objects; with two connections that have each other's, `WaiterKnown` fails as soon
  as one operation is sent.
* When the connection breaks while `_init()` waits for an answer, `mcp_close()` frees
  its buffer, and the handlers of the requests that waited for `_init()` begin
  although it will never end (`mcp/mcp.c:861`).  `Owed` in `CommService` says so:
  the order is promised while the connection holds.
* A space that is only the subject of access rights counts as unused and is removed
  before its rights are copied to its members (`language/conf_lang.c:413`,
  `space.c:824`); `RightsAsGranted` speaks of spaces in use.
* `!` and `^^` of an attribute write their result over the attribute's object
  (`language/execute.c:593`, `language/alu.c:272`).
* Numbers of a connection in the other byte order are used unturned, the flag being
  lost on the stack (`language/execute.c:86`).
* A condition that is an attribute is decided by the bytes at the start of its object
  (`language/alu.c:289`, `language/execute.c:608`-`613`).
* `==` and `!=` of bitmaps look at one byte per word, and `!=` asks all of them to
  differ (`language/alu.c:142`).
* `language/alu2.c:80` refuses to assign to a read-only attribute, but `R_pop`
  (`language/execute.c:82`-`88`) has dropped the flag it tests.
* `READY_ANSWER` is sent again if the `_init()` buffer is reused and freed before
  `init_buffer` is cleared (`comm_buf.c:135`; `mcp/mcp.c:785`-`787` speaks of one).
* A `return` inside a `switch` leaves the selector's frame on the stack
  (`language/language.c:71`, `language/execute.c:638`-`654`); the sources of
  `handler` have none.
* A tree whose class is not the class of the subject of its access type is
  reported and used all the same (`generic.c:286`-`290`): its hooks then write the
  tree's pointer into an object of another class.  `TreesFitEvents` leaves it out.
* The mask of `<ip>/<bits>` is put together in the byte order of the host
  (`mcp/conf_lang.c:421`) and used on addresses in that of the network
  (`mcp/conf_lang.c:233`, `mcp/mcp.c:237`): on a little-endian host `/24` leaves out the
  first octet, not the last.  `BitMask` has it, `LinesKeepTheirOwn` compares with it
  (no text says which octets are meant), and nothing is ever accepted:
* TCP connections are set up and never served: `comm_do()` greets the listening
  socket like a kernel (`comm.c:121`, `mcp/conf_lang.c:67`-`74`), and
  `mcp_accept()` is never reached.  `Startup` has this (`Skips`, `GreetingFails`).

## 6. Limits, and what is not modelled

Limits of what is checked: `MembersRight` leaves out nested exclusions
(`Unnested`), `Request` access types of redefined classes, `LedRight` ambiguous
names (`Ambiguous`), `ValuesRight` and `StoredRight` values that depart
(`departs`), `RunsAsWritten` `!` and `^^` of attributes, `StepsDown` answers to a
fetch.  Known and without a property: the signal that wakes the waiting parent is lost if it comes before `pause()`; a greeting that is
refused closes its connection twice; a write error leaks its message
(`mcp/mcp.c:827`); `mcp_close()` frees buffers with `output.lock` held
(`mcp/mcp.c:855`; `Comm` has it, as an end of the process); `main()` returns with
the first reader (`comm.c:153`; the same); which of two overlapping expressions
wins after a merge (`tree.c:589`).

Not modelled:

* **RBAC** (`rbac/`).  Its start cannot succeed as the code stands:
  `rbac/kobjects.c:237` writes through `rbac_t_perm`, which nothing has set
  (line 231 allocates `rbac_t_user` instead), so no behaviour of the rest can be
  reached.  `rbac/roles.c:73` would return with its lock held.
* **Code injection** (`force/`, `Mlibc/`): `force_init()` is commented out and the
  directories are not part of the build.
* **medusa-forwarder**: copies bytes between a device and a socket.
* **The lexer and the preprocessor** of libmcompiler: a source is its tokens.
* **Rows of the grammar** for strings, paths and spaces as values
  (`language/data.c:31`-`35`), `typeof` and `commof` (`52`-`53`), variables of a computed
  class or of another connection (`69`-`70`, `74`) and aliases (`71`, `75`-`76`), and for
  handlers with paths, spaces and levels (`language/conf_lang.c`): `Handler` has the
  one form `* operation { ... }`.
* **Built-in commands** other than `fetch`, `update`, `sizeof` and `enter`; the
  chunks of the interpreter's stack.
* `mcp_accept()` and `hash_del()`, which nothing calls in a run; failing thread
  creation; out of memory.

## 7. What would come next

1. The refinement of `AuthService` with connections that break: what is promised
   to the kernels that stay while others go.
2. The chunked stack of the interpreter, and what a moved buffer shares of it.
3. Nested exclusions in `Space`: what `is_included()` answers where `Unnested`
   does not hold.
4. Attributes of the other byte order, and `!` of attributes, once it is decided what
   they should do.
