# lightbuild: a verification project

lightbuild is a configuration and build system in the style of Kbuild: `conf`
(Kconfig) turns answers into `.config`, `auto.conf` and `autoconf.h`; a set of
make fragments compiles and links directories of objects recursively; `fixdep`
makes an object depend on the options its sources mention instead of on the
whole configuration.

What the system promises is two things. An *incremental* build is as good as a
build from scratch: a promise that rests on three programs that share nothing but
files and time stamps, each of which may fail, be killed, or run many at a time. And a
*configuration* is what its declarations and the user's answers say, whatever the
order in which symbols are read, shown, set and written, and however the
declarations were simplified and rearranged before. This directory models both
halves in TLA+, model-checks them with TLC, and proves the main results with
TLAPS.

## 1. Inventory

The paths are below `src/scripts/`.

| component | state | operations | what is hard |
|---|---|---|---|
| `kconfig/confdata.c`, `conf.c`: saving and syncing | `.config`, `.config.old`, `include/config/auto.conf`, `include/generated/autoconf.h`, one stamp file per option, temporary files | `conf_read`, `conf_write`, `conf_write_autoconf`, `conf_touch_deps`, the order of them in `main()` | killed between two steps; failures that are ignored; the old values are read from a file that is replaced last; several processes |
| `basic/fixdep.c` | the `.cmd` file of an object | parse the compiler's depfile, look for `CONFIG_` words in every file read, print the rule | runs after the compiler, on files that may have changed; may fail after the object is written |
| `include/define.mk`, `generic/process.mk`: `if_changed*` | objects, `.cmd` files, time stamps | decide from `$?` and the saved command whether a recipe runs; run it | parallel jobs, cut-off recipes, interrupts |
| `main/main.mk`, `main_rule.mk`, `build.mk`, `submake.mk`, `top.mk`: targets and descent | `built-in.o` of each directory, one make process per directory | descend, compile, link; the `*config` targets; clean, mrproper | makes wait for makes; one fails while siblings run; selection changes |
| `main/lib*.mk`, `modules/*.mk`, `auxiliary/*.mk`: other rules | `lib.a`, host and custom programs, `.dtb`, `.bin` | as above, partly without dependency tracking | headers and includes that no rule knows |
| `kconfig/symbol.c`: values | value, visibility and flags of each symbol | `sym_calc_value`, `sym_set_*_value`, choices, ranges, select and imply | cached values that are stale, evaluation order |
| `kconfig/expr.c` | expression trees, shared | three-valued evaluation, simplification, equality | simplifications that change the value |
| `kconfig/menu.c` | the menu tree, the properties of each symbol | `menu_add_*`, `menu_finalize`, visibility | conditions rewritten in one pass while entries are moved below others |
| `kconfig/symbol.c`: `sym_check_deps` | marks on symbols | depth-first search for cycles | missed and spurious cycles |
| `kconfig/conf.c`: dialogue | the passes over the menu | `conf`, `check_conf`, `conf_choice` | does the loop end, is everything asked |
| `kconfig/preprocess.c` | variables, the environment they asked for | assignments, recursive expansion, functions | when a right-hand side is expanded; macros that call themselves |
| `kconfig/parser.y`: statements | the current entry and menu | `menu_add_*` in the order of the file | a symbol declared twice, blocks inside choices |
| lexer, front ends, generated parser, `newconfig`, `dtc`, checks, examples | | | not core: see section 7 |

How they interact: the parser hands each statement to the preprocessor and to
`menu_add_*`; at the end `menu_finalize` rearranges the tree and turns
dependencies into expressions of symbols, and `sym_check_deps` looks for cycles.
`conf` reads `.config` into that table, asks, and writes. `make <x>config` runs `conf --<x>config` and then
`conf --syncconfig`. `conf` rewrites `autoconf.h`, which every compilation
includes and which `fixdep` removes from the dependencies, and touches
`include/config/<option>.h` for each option whose value changed since the last
`auto.conf`. `make` reads the `.cmd` files, finds objects older than a file or an
option stamp, compiles them, and lets `fixdep` write the new `.cmd` file. The make
of a directory links its objects and the `built-in.o` of its subdirectories.

What makes each component right:

- *saving*: the last saved configuration is never lost or half written;
- *syncing, fixdep and if_changed together*: an object make would keep was
  compiled from the present sources and the present options; a finished build
  equals one from scratch; nothing is compiled without need; after any failure
  another run repairs the tree;
- *descent*: no link takes what is still being made; the image has every
  selected object, fresh; every run ends;
- *parsing*: conditions, selects and choices are those declared, and an entry is
  moved below another only if it cannot be seen without it; *expressions*: each
  simplification keeps the value; *macros*: a text expands to what its assignments mean,
  or to an error;
- *cycles*: one is reported exactly when there is one;
- *evaluation*: cached values are what an evaluation from scratch gives, in any order; a
  choice has one value, a number is in its range, an answer is kept;
- *dialogue*: it ends, everything is asked, nothing is asked when nothing is new;
- *reading and writing*: a written configuration reads back as it is.

`PROJECT.json` lists the hazards, each at its line.

## 2. Modules

The build:

| module | models | note |
|---|---|---|
| `BuildTree` | the shared files: Kconfig declarations, `.config`, `auto.conf`, `autoconf.h`, sources, time stamps | state of the incremental build |
| `SyncConfig` | one conf run after another: `main()`, `conf_write_autoconf`, `conf_touch_deps` | one action per step another process can see |
| `IfChanged` | one make over the objects of a directory; compiler and `fixdep` | parallel jobs |
| `IncrementalBuild` | both over one tree, with edits; the properties; fairness | composition |
| `BuildCache` | the promise: a cache of compilations | abstract specification |
| `LinkTree` | the recursive descent: one make per directory, linking `built-in.o` | uses the promise of `BuildCache` for objects |
| `ConfWrite` | `conf_write` system call by system call, several processes | refines the atomic step `ConfSave` of `SyncConfig` |

Kconfig:

| module | models | note |
|---|---|---|
| `ExprLeaf` | leaves of expressions, their values, how one is rewritten, the tables of `expr_join_or` and `expr_join_and` | no recursion: `ExprLeaf_proofs` |
| `KconfigExpr` | expression trees: evaluation and every simplification of `expr.c` | operators |
| `MenuTree` | the menu tree and `menu_finalize` | operators |
| `MenuDeps` | the dependencies of a chain of entries, simplified step by step, beside their truth tables | machine |
| `KconfigMenu` | the parser: every Kconfig of a size, then `menu_finalize` | machine over `MenuTree` |
| `SymbolTable` | `sym_calc_value` and what it calls | operators from table to table |
| `KconfigValues` | reading, showing, setting, filling in, randomising and writing a configuration | machine over `SymbolTable` |
| `ConfDialogue` | the questions of `conf`, over `KconfigValues` and a menu tree | composition, fairness |
| `DepSearch` | `sym_check_deps` over all symbols, call by call, with the C stack, `dep_stack` and the marks | no recursion: `DepSearch_proofs` |
| `KconfigCycles` | the search over declarations, then evaluation in any order | `DepSearch` beside `SymbolTable` |
| `Preprocess` | macros: assignments and uses of a file, expanded piece by piece with the C stack | no recursion: `Preprocess_proofs` |
| `MacroMeaning` | what a file of macros means, unfolded | operators over `Preprocess` |

The `MC*` modules hold the instances TLC checks, the `*_proofs` modules the proofs.

### State and code

- *Time stamps* are not numbers: `newer[o]` is the set of files and option stamps
  touched after object `o` was written, which is what `$?` can tell. `LinkTree`
  has the same for each `built-in.o`.
- *Configurations* are functions from symbols to values; `"n"` stands for a symbol
  that is not written at all, or written as unset. `kconf` gives each symbol its
  declared type, `"absent"` (no symbol of the name) or `"unknown"` (the name is
  still used in an expression, so `sym_find` finds a symbol without a type).
- *Source texts* are members of a small set; `Mentions` gives the options a text
  names and `Includes` the headers it includes under a configuration. An object is
  the record of what it was compiled from, so two equal objects are the same
  compilation.
- *A conf run* (`conf`) goes `write` → `autoconf` → `touch` → `auto` → `next` →
  `write` ..., where `next` is the second command of the recipe. What the user
  answers and how values are computed is abstracted: a run ends with any
  configuration of the declared types.
- *A make run* takes each object through `todo` → `cc` → `dep` → `ok`. `cc` is the
  compiler at work, `dep` the time between the object's being written and the
  `mv` of the `.cmd` file.
- *A directory's make* in `LinkTree` goes `make` → `link` → `save` → `ok` or `fail`. `missed` has
  the `built-in.o` files linked in this run whose time stamp the make above read before; `NeedsLink`
  does not see them. Nothing is missed from one run to the next.
- *A save* in `ConfWrite` goes `write` → `compare` → `backup` → `install`.

- *Expressions* are records with the constructors of `expr.c`; `NULL` is one of them. The C
  code changes trees in place and walks them with pointers to pointers; here
  these are paths from the root. *Valuations* give the symbols tristate values 0, 1, 2.
- *A menu tree* (`m`) numbers its entries in the order of the file. `raw` keeps it as
  parsed, so that the properties can read the declarations.
- *A symbol table* (`tab`) has one field per thing `struct symbol` keeps: `valid`
  (`SYMBOL_VALID`), `has` and `def` (`SYMBOL_DEF_USER` and `def[S_DEF_USER]`),
  `cur`, `vis`, `dir`, `rev`, `write`, `need`, and for choices `chosen` and `pick`.
  Evaluating a symbol changes the table, also for the symbols it depends on, so operators
  take a table and return one and the order of the C code's calls is kept. Numbers are
  small naturals; hex differs from int only in how it is written.
- *A dialogue* has no call stack: `todo` is the list of calls of `conf` and `check_conf`
  still to be made, which is enough because they do nothing after their last call
  (the one exception is the call `rest`).
- *A text* of the macro language is a sequence of words and references. `count` is
  `exp_count`; `env_list` the remembered environment. What `X := $(X)` reads through a freed
  pointer is any member of `Junk`, or ends the program (`Crash`).

Definitions whose comment begins "A mutant" are not part of any specification:
each is a plausible bug, kept to show that a property would find it.

## 3. What is checked

### Passing runs

| run | instance and bounds | shows |
|---|---|---|
| `cache` | 2 objects in parallel with a common header, 1 option, under fairness; every interleaving of edits, conf, make, failures and kills | `TypeOK`, `KeptMatchesSources`, `KeptMatchesConfig`, `DoneIsFresh`; `ImplementsCache`: refinement of `BuildCache`; `Recovers` |
| `recipe_faults` | recipes cut off after the compiler | `DescribedMatches`: an object with its own `.cmd` file is right even so |
| `link_tree` | a root with two subdirectories, one of them empty, 1 object with 2 texts, under fairness | `TypeOK`, `NothingMovesBelow`, `RunEnds`, `Recovers`; `LinkedUnlessMissed`: the image is that of a build from scratch unless a make missed a `built-in.o` linked in the same run |
| `conf_write_two` | 2 processes, 3 configurations, deaths, failing backups | `SavesAtomic` |
| `menu_deps` | a bool and a tristate symbol, 16 conditions, at most 4 leaves in the trees at hand (`MaxLeaves`) | `MeaningKept` and `EqualsAgree`: simplification and equality are right under every valuation; `BinarySubmenuDepends`: what is moved below a symbol needs it |
| `kconfig_menu` | 3 entries (`MaxEntries`), 2 options (`MaxOptions`), a bool, a tristate, a tristate choice | `OrderKept`, `ConditionsKept`, `SelectsKept`, `DirectKept`, `SubmenuDepends`, `ValuesKept` |
| `kconfig_values` | 4 sets of 5 to 7 symbols: select and imply with modules, a choice with a default, a choice that depends on a value of another, a range with a symbol as bound; numbers 0, 3, 4, 5, 6, so that a number `conf_read` forgot can be answered again | `UpToDate`, `ChoiceOne`, `DependsMet`, `InRange`, `AnswerKept`, `Stable`, `RandomEnds` |
| `conf_dialogue` | 2 menu trees with all `.config` files of a few values, under fairness | `AllAnswered`, `Quiet`, `Ends` |
| `kconfig_cycles` | about 2000 sets of dependencies between 2 symbols, a choice and its 2 values, in two orders; numbers that bound each other | `CyclesFound`, `SearchClean`, `OrderFree` |
| `preprocess` | files of at most 3 statements (`MaxStatements`), 2 of them assignments (`MaxAssignments`), 2 names, 10 right-hand sides, 3 environments; the limit of 1000 nested calls is 2 (`MaxDepth`) | `TypeOK`, `ExpansionMeans`, `ErrorsMeant`, `EnvRemembered` |

The runs of the build have no counters, so no bound cuts a behaviour short: all runs,
edits and crashes may be repeated for ever. The instances are small in *things*: two versions
of each text, so that a change can be made and undone; two objects, so that one job can
fail while another runs; two sibling directories, so that one make can fail or wait
while the other goes on, and an object two levels below the image. The proofs of
section 4 cover all other sizes.

The same holds of `kconfig_values` and `conf_dialogue`: a table may be read, changed and
written for ever. Their declarations are few, each chosen for one way in which values
depend on each other; `MCKconfigValues` says which. `menu_deps`, `kconfig_menu` and
`preprocess` enumerate everything up to a size instead. Four leaves are the least with
which two operands on each side of an `&&` or `||` can meet; three entries
the least with which one entry is moved below another and a third follows; three
statements the least with which a name is assigned, changed and used.
`MaxDepth` of 2 lets a macro call itself with arguments and still be stopped.

The deadlock check is off where a program comes to its end: after `menu_finalize`
(`kconfig_menu`), after the last evaluation (`kconfig_cycles`) and at the end of a file
(`preprocess`).

### The reference definitions

Each Kconfig run compares the code with a definition that shares nothing with it but the
evaluation of the three-valued operators: `MenuDeps!means` is a truth table
built from the declarations; `KconfigMenu!Enclosing` and `Declared` read conditions off the
tree as parsed, walking outwards; `KconfigValues!Scratch` is an evaluation with an empty
cache; `DepSearch!Cyclic` is a set of nodes that all depend on members, and
`KconfigCycles!Circular` the same read off the declarations;
`MacroMeaning!Means` unfolds the statements without a table or counters.

### The violations

`stale_after_reset` shows that `conf_read` contradicts `expr.h:94-95` ("The `SYMBOL_VALID` bit
is set in 'flags' when this is up to date"). Its first loop calculates all symbols, its second
resets a number that is out of range and clears `SYMBOL_VALID` of that number alone
(`confdata.c:568`). A symbol that depends on the number keeps its old value and is
written with it: with `N` in the range 3 to 5, `B` depending on `N>3` and `N=6` in
`.config`, `olddefconfig` writes `N=3` and `B=y`. `kconfig_values` shows that
`UpToDate` holds without such a dependency, except for a number whose forgotten value is
given as the answer again (*Answers lost* below).

`missed_link` shows that `if_changed` does not do what its comment says ("Execute command if
command has changed or prerequisite(s) are updated", `define.mk:425`) for the `built-in.o` of a
subdirectory. `$(obj-subfile):$(subdir-y)` (`main.mk:84`) has no recipe, not even the empty one,
and make does not read the time stamp of such a target again. With `-j` it has read it while
the make below was still running: the file is not in `$?`, the directory above is not linked
again, and the run ends well with an old image. The next run sees the new time stamp and
links. The rules of `scripts/main/main.mk`, run with GNU make 4.3 over a directory with one subdirectory,
do this with `-j2` and `-j4` after an edit below, and link with `-j1`, or when the `built-in.o` below was
missing. Those are the choices of `MayMiss`. `link_tree` shows what is left: a
finished build is fresh when no make has missed anything (`LinkedUnlessMissed`), and a later
run repairs the rest (`Recovers`). `lib.mk:72` has the same rule for `lib.a`.

### What else the code does against its comments

The preconditions of the properties name these; each was found with the models and none
needs a run of its own. The faults of the build are members of the constant `Faults`, so
that the runs and theorems can say exactly which discipline they need.

- *Retyped symbols* (`retype`). `conf_set_sym_val` (`confdata.c:260`) rejects an old value of
  `auto.conf` that the symbol's present type does not have: a tristate at `m` that
  becomes a bool at `n` is not touched, and objects compiled with it are kept, against
  `fixdep.c:31-34`. So is a symbol whose declaration is gone but whose name is still
  used (`referenced`; `confdata.c:460` against 464-467), and a header that a killed conf run left for a
  build (`build_unsynced`; `confdata.c:1092-1095`).
  These three faults are in no run; `SourcesCorrect` is proved with them, and the other theorems
  say which of them they exclude.
- *Recipes cut off* (`recipe_cut`). `define.mk:435` compiles in place and records the
  dependencies afterwards: a recipe that stops in between leaves a new object
  with an old `.cmd` file, and a later change of a newly included header is missed, against
  `fixdep.c:43`.
- *Changed commands* (`reflag`). `cmd-check` (`define.mk:406`) only asks whether a command was
  saved, against `define.mk:404` and `fixdep.c:44-45`. For the same reason
  an object removed from `obj-y` stays in `built-in.o` (`define.mk:426` against 425).
- *Edited `.config`* (`hand_edit`). `top.mk:105` reads `auto.conf` without asking whether it
  belongs to `.config`; compare `conf.c:717-718` and `confdata.c:939`.
- *Full disks* (`full` of `ConfWrite`). `conf_write` ignores the results of `fprintf` and `fclose`
  (`confdata.c:913`), installs the truncated file and says that it was written
  (`confdata.c:932`).
- *Answers lost.* `sym_set_string_value` returns early when the new text is the old one
  (`symbol.c:681-683`), after setting `SYMBOL_DEF_USER`: a number that was
  forgotten and is answered again with the same text keeps its default until something else clears
  the flags. With `N` in the range `L` to 5, by default 0, and `L=4` and `N=3` in `.config`: `conf_read`
  forgets `N`; set `L` to 0, look at `N` (0) and answer 3; the answer is accepted, `N` stays 0 and is
  written as 0. `tab.stuck` remembers such numbers; `AnswerKept` and `UpToDate` except them, and
  without the exception `kconfig_values` finds this trace.
- *Asking answers.* `menu_is_visible` sets `SYMBOL_DEF_USER` of a hidden symbol that has a visible
  child (`menu.c:668`); `expr.h:151` says that the flag means that the user's value is valid.
- *Definitions without dependencies.* `expr_alloc_or(NULL, X)` is `X`: a symbol with
  one definition without dependencies and one with `X` has the direct dependency `X`
  (`menu.c:504`), and a select warns of unmet dependencies that are met. `DirectKept`
  asks for a dependency in each definition.
- *m in conditions.* `expr_trans_bool` gives m where y is meant (`select C if T!=n`), and an entry
  that depends on a symbol's being n goes below it when the symbol is m. `SelectsKept`,
  `SubmenuDepends` and `BinarySubmenuDepends` are exact for valuations without m.
- *Bounds of ranges.* `sym_check_sym_deps` does not follow them (`symbol.c:1196`): two numbers that
  bound each other have values that depend on which is evaluated first. `OrderFree`
  excludes cycles through bounds.
- *Unset variables.* `preprocess.c:77-79` returns before the comment "We need to remember
  all referenced environment variables" (81): one that is not set is not remembered.
  `EnvRemembered` is about those that are.
- *Freed values.* `X := $(X)` reads the value freed a moment before (`preprocess.c:293`), or
  an uninitialised one.
- *Refused recursions.* A macro that calls itself through another one without arguments is
  refused although it would end (`preprocess.c:260`); `ErrorsMeant` allows it.

### Fairness

`IncrementalBuild!Fairness` has weak fairness of the steps of a started conf run, of
each job of a started make run and of its end: processes that the system
schedules and that block on nothing but each other. Weak fairness of `RetryConfig`
and `Start` is the developer's part: after a `*config` that failed it is run
again, and make is run again. Nothing is assumed of compilers or kills: failures are never
forced, and `Recovers` asks for a result only when, from some moment on, no edit,
failure or kill happens. `LinkTree!Fairness` is the same for the makes of the
directories; `RunEnds` holds even when recipes go on failing.

`ConfDialogue!Fairness` is weak fairness of the steps of conf, which include the user's
answering each question at last with something that is accepted. It is written out instead of
with `WF_` because a step is possible whenever there is something to do (the run finds no
deadlock), and the evaluation of ENABLED would try every answer again. No fairness lets the user
answer in a helpful way: `Ends` holds for all answers.

## 4. What is proved

All theorems are checked by TLAPS for every value of the constants that satisfies
the named assumptions of the modules (finite or not: nothing counts).

`IncrementalBuild_proofs`:

- `TypeCorrect`: `Spec => []TypeOK`, with every fault allowed.
- `SourcesCorrect`: without `recipe_cut`, `Spec => []KeptMatchesSources`: it does not depend on conf
  at all, nor on symbols that are retyped or builds after a failed sync. The invariant
  behind it (`SourcesAged`, `FilesListed`): a file that differs from what an
  object was compiled from is in `newer[o]`, and a finished object's `.cmd` file lists
  what it read.
- `ConfigCorrect`: in a `Disciplined` use of the tree (none of `build_unsynced`,
  `retype`, `referenced`, `recipe_cut`), `Spec => []KeptMatchesConfig`. The invariant
  `BuildInv` ties the two halves together. `KeptMatchesConfig` alone is not
  inductive: while conf runs, header and `auto.conf` differ, and what saves the
  object is that every option in which they differ has been touched
  (`HeaderAged`, `OptionsAged`) and that the option is in the object's `.cmd` file
  (`OptionsListed`), which in turn holds because the texts have not changed since
  `fixdep` read them, or are newer themselves (`OptionsMentioned`).
- `DescribedCorrect`: in a `Synchronised` use of the tree (as `Disciplined`, but any recipe may be
  cut off after the compiler), `Spec => []DescribedMatches`. A cut-off recipe breaks
  `FilesListed` and `OptionsListed`, since the object is then newer than the list it has. The
  inductive invariant `DescribedInv` keeps what no fault of a recipe can break: what
  has changed is newer than what it was compiled into (`SourcesAged`, `OptionsAged`),
  and auto.conf, the header and the touched options agree (`SyncInv`).
- `BuildFresh`: with constant flags as well, `Spec => []DoneIsFresh`.
- `Implementation`: the same assumptions give `Spec => ImplementsCache`; each step maps
  to a step of `BuildCache` or to a stutter. The extra invariant `CompiledIfNeeded`
  says that a running compilation was needed.

`LinkTree_proofs`, for every tree of directories (`DirsAssumption` states that it
has no cycle as an induction principle on sets of directories, which TLC evaluates on
each instance):

- `TypeCorrect` and `LinksWait`: from `RunInv` (a make that links has only finished
  jobs below it, and what is finished exists).
- `FreshLink`: when nothing is deselected, `Spec => []LinkedUnlessMissed`. The invariant
  adds `KeptLink` (a `built-in.o` with nothing newer below it is what `ld` would make
  now), `Unbuilt` (what is not selected was never built, so selecting it makes
  it new), `NewerMissed` and `TreeMade` (after a run all objects that the root reaches are right,
  and only what was missed is newer than a `built-in.o`). `WholeTree`
  then goes up from the lowest directories.
- `StaleSeen`: on the same assumption, `Spec => []KeptLink`. What a run missed, or left undone when it
  was cut off, leaves a newer file behind: the next make sees it. This is the safety part
  of `Recovers`.

`ConfWrite_proofs`:

- `SaveAtomic`: for any number of processes, when writes succeed,
  `Spec => SavesAtomic`, from `WholeFiles` (a temporary file that is compared or renamed
  is its own process's whole configuration).

`ExprLeaf_proofs`, for every set of bool and tristate symbols and every valuation:

- `JoinOrSound`, `JoinAndSound`: what `expr_join_or` and `expr_join_and` make of two operands is worth
  what the two are worth. These tables are what `expr_eliminate_dups` applies to each
  pair of leaves, and the run `menu_deps` checks the walk around them.
- `TransformLeafSound`, `NegateLeafSound`: what `expr_transform` makes of a test of a bool symbol
  for a constant, and of a negated leaf, is worth what it was.
- `CompareLeafSound`: `expr_trans_compare` of a leaf with `y` or `n` is `y` if the leaf is, or is not,
  worth the constant, as asked, and `n` if not. How the two functions go through a tree is checked
  by `menu_deps` and `kconfig_menu`.

`DepSearch_proofs`, for every dependency graph that is `WellFormed`, of any number of symbols
and choices:

- `SearchLeavesNothing`: `SearchSpec => []SearchClean`. `SearchClean` alone says nothing of the
  middle of a search. `MarkInv` does: each call was made in one of the ways the code has (`Link`),
  `dep_stack` has the symbols of the calls (`StackInv`), and a symbol is marked
  `SYMBOL_CHECK` if and only if a call that has not returned is going to take the mark off
  (`Marks`, `MarksInv`), which no two calls are.
- `SearchFindsCycles`: `SearchSpec => []CyclesFound`. What is reported is a cycle (`Sound`): from
  the place of a marked symbol in the stack up to the top, each group of symbols depends on the
  next (`CycleMet`). The other direction is the hard one, because the marks of one search hide
  symbols from the next, and because a choice without its `SYMBOL_CHECK` is passed over while its
  own values are being searched. `DoneInv` says that the groups that are finished depend on
  finished groups only, that no set of them is `Recursive`, and how far each call has
  come (`FrameDone`): all it has gone past is finished, but for a choice that is passed over
  while one of its values is still to come (`RefSettled`). `OneMore` then adds one group
  at a time. At the end all groups are finished (`Passed`), so none is in a cycle.

`Preprocess_proofs`, for every file over any set of names and texts, nested as deep as one likes,
and any two environments:

- `TypeCorrect`: `Spec => []TypeOK`. That no expansion is left counted cannot be seen from
  `exp_count` alone, which goes up and down while an expansion is on. The inductive invariant
  (`Fine`) says what it counts: `Counted` makes `exp_count` of each variable the number of frames
  that expand its value (`Opens`), and `Owned` makes the name in each such frame that of a variable
  that exists, so that every way out takes back what the way in has added. An empty stack then
  counts nothing (`OpensEmpty`). `Plain` and `TopOK` say what the pieces of a text and of a frame
  can be when they are taken up.
- `EnvSufficient`: `Spec => []EnvRemembered`. The invariant `TwinInv` holds two readings of the file
  together step by step: while the set variables in which their environments differ are not in
  `env_list`, they have the same frames, results and errors, and tables that are the same but for
  the value that a `:=` being read has freed (`Freed`). A reading that looks at that value
  (`ReadsItself`), or at a variable that differs (`TwinEnvironment`), leaves the premise, since
  `seen` and `env_list` only grow (`StepKept`).

What an expansion gives is another matter: `ExpansionMeans` and `ErrorsMeant` compare it with
the recursive definition `Means` and stay with TLC.

Only model-checked: the liveness properties (`Recovers`, `RunEnds`, `Ends`: fairness
and ENABLED are out of the prover's reach), the violations, and of Kconfig everything but
the rules for leaves, the search for cycles and the two properties of macros above. Expression
trees, menus and evaluation are recursive definitions, and induction over data and recursive
operators are out of the prover's reach; `ExprLeaf` is the part of the expressions that
needs none, and `DepSearch` and `Preprocess` have the recursion of their C code as a stack.
`OrderFree`, which puts the search beside the evaluation, stays with TLC for the same reason.

## 5. Assumptions of the models

- One `*config` or build at a time, as a developer at one terminal runs them;
  `ConfWrite` is the exception. Two concurrent `syncconfig` runs would share the
  fixed names `.tmpconfig`, `.tmpconfig.h` and `..config.tmp`.
- A source is not saved while the compiler reads it: no make that compares time
  stamps can notice that. Between the compiler and `fixdep`, and at all other
  moments, edits happen freely.
- Time stamps are fine enough to order two writes.
- SIGINT is delivered to all processes of a make run and each make deletes the
  target its recipe changed; a killed shell or a failing `fixdep` is the fault
  `recipe_cut`. A compiler or linker killed with SIGKILL in the middle of writing
  its output is not modelled.
- Kconfig files are edited while no conf run reads them.
- In `LinkTree` the configuration changes between runs, and an object that is kept
  is right, which is what `BuildCache` promises. Compiling again without need is allowed.
- The symbols of a tree are declared before they are evaluated; the declarations of
  `MCKconfigValues`, `MCConfDialogue` and `MCKconfigCycles` are trees as
  `menu_finalize` leaves them, written out.
- A `.config` has at most one line for a symbol, in the order of the menu, as `conf_write`
  writes it.
- `DepSearch`: no choice is a value of a choice, and no symbol is declared in two
  (`ChoicesLinked`). The grammar has no choice among the statements of a choice, and no expression
  can name a choice, since `sym_lookup` finds no `SYMBOL_CHOICE`: only what is declared inside a
  choice, or depends on a value of it, depends on its symbol. Of a symbol declared
  in two choices the code only says "used outside its choice group", and what
  `sym_check_deps` does then is not promised anything here.
- A symbol has one prompt at most in the dialogue. The user's end of input is not modelled.
- `KCONFIG_OVERWRITECONFIG`, which makes `conf_write` write `.config` in place, and the
  removal of `.config` by `mrproper` are left out of `ConfWrite`.

## 6. Plan

The modules of section 2 are written. What is left is proof:

1. The promise of `BuildCache` carried into `LinkTree`: what `Compile` may do there follows from
   `DoneIsFresh`.
2. `SavesAtomic` as a refinement of an abstract save, in which `.config` changes from one whole
   configuration to another.
3. The rules of `SymbolTable` that evaluate one symbol, from the values of those it depends on.

Candidates for more modelling, none of them needed by the above: comparisons of numbers in
`ExprLeaf`, hex and string symbols, two concurrent `conf_write_autoconf`.

## 7. Not modelled, and why

- *Other rules* (library, host, custom, nasm, dtb, elf, bin): variants of the rules in `IfChanged`
  and `LinkTree`. What is particular to them is that the cust, nasm and dtb rules
  record no included files (`cust.mk:65`), so that nothing can be promised of
  their rebuilding.
- *clean, mrproper, `O=`, the list of projects, the bootstrap of `fixdep`*: they remove or
  redirect files, or run one host compiler.
- *`fixdep`'s scan of a text* for `CONFIG_` words, and the lexer: text without state to
  interleave; the models take what is recognised as given.
- *Generated parsers* (`lexer.lex.c`, `parser.tab.c`, those of `dtc`): modelled through their
  sources where they call the core.
- *Front ends* (`mconf`, `nconf`, `gconf`, `qconf`, `lxdialog`): they call the same core as `conf`, whose
  operations `KconfigValues` takes in every order (`Show`, `SetTristate`, `SetNumber`, `Read`,
  `Write`).
- *`newconfig`* is vendored Python, *`dtc`* and *`libfdt`* a vendored compiler, the examples contain
  vendored libraries. They are most of the lines of the repository.
- *Checks and scripts* (semantic patches, `checkstack.pl`, `merge_config.sh`,
  `streamline_config.pl`), *warnings and templates*: no state of their own.
- In the modelled files: help texts, warnings, printing of expressions and of dependencies,
  searching by pattern, `conf_write_defconfig`, the shell function.
- *Long calls*: the limit of 16 clauses in a reference (`preprocess.c:387`) is not modelled, nor is what
  one with exactly 16 commas does, which passes that test and is stored past the end of
  `new_argv` (399). `preprocess` has references of two clauses at most; the theorems of
  `Preprocess_proofs` are about files whose references stay below the limit.
