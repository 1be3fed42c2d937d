# facet: TLA+ models of the incremental builder, its plans and the solver

facet describes Rust types at run time and offers reflection over them. Most of the repository is
static description (facet-core), code generation (the derive macros) and read-only views (Peek). The
part that keeps state across calls, and that has to be right for memory safety, is
`facet_reflect::Partial`: it builds a value of any type field by field in uninitialised memory, out
of order, with re-entry and failure at every step. These modules model it - structs and arrays,
lists, maps and sets, enums, Options, Results and smart pointers, the plans it builds by - and, as
the second part of the repository that keeps state across calls, `facet_solver::Solver`. TLC checks
the models on small types; TLAPS proves the central invariants for every type, schema and bitmap.

## Inventory

| Component | State | Operations | Interacts with | Hard behaviour | Right when |
|---|---|---|---|---|---|
| Partial: frames, trackers (`partial/mod.rs`, `partial_api/{misc,fields,set,internal}.rs`) | a stack of frames; each has a place, `is_init` and a tracker (one bit per field, child cursor) | begin a field, set, set default, end, drop | TypePlan (fields, defaults), the vtables (drop, default), HeapValue | responsibility for a field moves between parent bit and child `is_init`; partial failure; drop at any point | every value is dropped exactly once |
| Partial: deferred mode (`misc.rs`, `fields.rs`, `mod.rs`, `alloc.rs`) | `stored_frames`: path to frame, start depth | begin or enter deferred mode, end stores, begin restores, finish walks, the error path cleans up | the stack, by path and by depth | two records of one field, stale cursors, order of the walk, a walk that fails half way | trackers and memory agree, nothing set is lost |
| build and HeapValue (`build.rs`, `heap_value.rs`) | the finished allocation | build, finish in place, materialize, drop | Partial's root frame | a rejected value must find its way back to Drop; owned and lent memory | what is handed over is complete; memory is freed by its owner, once |
| Partial: enums (`eenum.rs`, `internal.rs`) | selected variant in the tracker | select a variant, enter its fields | stored frames (discarded on a switch) | variants share field indices, so also paths | as above |
| Partial: lists, ListRope (`lists.rs`, `rope.rs`) | chunks of element slots, drained at the end | begin list, push | vtable push | elements live outside the list until it is drained | every element dropped or moved once |
| Partial: maps (`maps.rs`) | key and value buffers, pending entries | begin key, begin value | vtable insert | half an entry when given up | as above |
| Partial: options, results, pointers, sets | an inner frame in memory of its own | begin some, ok, err, inner, item | vtable constructors | re-entry of a value that is there already; containers that add no step to a path | as above |
| Partial: shorthands | none | a begin, a set and an end in one | Partial | none of their own | as the calls they stand for |
| ISet (`iset.rs`) | a bitmap in one word or a vector | set, unset, all set | trackers | 64 and 65 fields, last word's mask | behaves as a set |
| Arena, TypePlan (`arena.rs`, `typeplan.rs`) | precomputed nodes per type, a cache of plans for the process | build, look up | Partial, whose frames carry a node each | recursive types, shared nodes, proxies of one field | one node per type; a frame's node is that of its type |
| invariants of a value (`build.rs`) | a memo of the thread: which types have invariants below | validate | build | answers given in the middle of a cycle outlive it | a value is refused exactly when some part of it is unsound |
| facet-solver | candidate resolutions of a flattened type | see or probe a key, satisfy shapes, hint a variant, finish | format crates | keys in any order, criteria mixed | the resolution the input selects survives |
| facet-path | a sequence of steps | push, pop, walk a shape | Partial | which containers add a step | a path names one place |
| Peek, Poke | a pointer and a shape | read; assign in place | facet-core | none across calls | - |
| Deferred materialization, resolution | data types | - | facet-solver | - | - |
| facet-core | shapes and vtables | - | everything | static | - |
| facet-pretty, facet-default, facet-error, facet-validate, derive macros, showcase, test helpers | none | formatting, token streams | - | - | - |

Nothing in `Partial` runs concurrently: every method takes `self` by value. What makes it hard is
the order of legal calls, re-entry, and failure in the middle. The hazards, each with its line and
the properties that cover it, are listed in `PROJECT.json`.

## Plan

1. `Shapes`, `Partial`, `MCPartial`, `Promise`: structs, arrays and leaves, strict and deferred
   mode, build, drop, and the abstract promise. *Done.*
2. `Ownership` and its proof modules: the inductive invariant, its proof, and what follows from it.
   *Done for every property of the runs but liveness.*
3. `Schema`, `Solver`: the resolutions of a flattened type, the narrowing, and what narrowing keeps.
   *Done, proved.*
4. `Collections`: lists with their rope, maps with their pending entries, sets. *Done, proved.*
5. `ISet`, `Choices`: bitmaps as words; enums, Options, smart pointers and Results. *Done; the words
   are proved.*
6. `Plans`, `Validation`, `NameTables`: the plan of a type, its use by the frames, and what `build`
   checks by it. *Done; the plan and its use are proved.*
7. Left: entering a complete Option in place, the proxies' conversions, slices behind smart
   pointers; for `Choices`, an invariant of the kind `Ownership` and `Collections_proofs` have, which
   first needs its recursion over shapes (`Whole`, `Leaves`, `PutWhole`) put as sets of places.

## Modules

| Module | Models |
|---|---|
| `Shapes` | the type being built, as the tree of the places of one value, with its assumptions |
| `Partial` | the builder, its properties, and the bug-like variants of its definitions ("Slip") the properties are tested against |
| `Promise` | the abstract specification: what a Partial promises about one value's memory |
| `Ownership` | the inductive invariant |
| `MCPartial` | two small types and the values of the constants |
| `Ownership_proofs` | lemmas about places and paths, about one frame, about the stack; how each kind of change to stack, stored frames and memory preserves their agreement; one lemma per action, then the invariant and the state properties it contains |
| `Guarantee_proofs` | sole authority, the refinement of `Promise`, and the action properties |
| `Schema` | facet-solver's builder: from a type with flattened parts to its resolutions |
| `Solver`, `MCSolver` | the calls of `Solver` over any schema; some types and their schemas |
| `Solver_proofs` | narrowing is independent of order, keeps the right resolution, never reopens |
| `Collections`, `MCCollections` | lists, maps and sets: ropes, pending entries, stored elements |
| `Collections_proofs` | the inductive invariant of `Collections`, one lemma per action, and what follows |
| `Description_proofs` | what the calls described of each place, and that the calls which begin an element or write a value keep to it |
| `Built_proofs` | the same for the calls that end an element, the walk and `build`; `AsDescribed` |
| `ISet` | the bitmap of a tracker, in words |
| `ISet_proofs` | the words are a set |
| `Choices`, `MCChoices` | enums, Options, smart pointers and Results; their frames' bits are kept in `ISet`s |
| `Plans` | TypePlan's builder and cache, and the nodes of a Partial's frames |
| `Plans_proofs` | a plan is like its types, and every frame finds its node in it |
| `Validation` | the invariants that `build` calls, over `Plans` |
| `NameTables` | the tables from names to fields and variants |
| `MCPlans` | recursive, shared and proxied types, and the reference for the tables |

`Plans`, `Validation` and `NameTables` are composed in `MCPlans`; `Schema` gives `MCSolver` the
schemas that `Solver` runs over; `Choices` keeps its bits by `ISet`. `Partial`, `Collections` and
`Choices` model the same frame stack and stored frames, each for its own kinds of places: a field of
a composite in `Partial` may be thought of as any of the values of the other two, since each of them
hands a complete value to its parent's bit at `end`.

### State of Partial

| Variable | Code |
|---|---|
| `mode`, `startDepth` | `FrameMode::Strict` or `Deferred { start_depth, .. }` |
| `stack` | `FrameMode::stack`; a frame is its place `at` (for `data` and `shape`), `isInit`, the tracker's name, `iset`, `current_child` |
| `stored` | `Deferred::stored_frames`, path to frame. A path is the set of its steps: the steps of one path name nested places, so their order is that of the tree |
| `phase` | which call is running: `Active` is the caller's turn; `Walking` is `finish_deferred`'s loop, `Cleaning` its error path, `Dropping` `Drop for Partial`, `Returning` the Drop that runs as `build` returns |
| `mem`, `buffer` | what each leaf's memory holds; whether the root allocation is live |
| `faults` | history: a destructor run on nothing, a value written over |

A leaf's content is one of three: nothing, a value the caller set, a default. That is what the
properties tell apart.

### Actions of Partial

`BeginNthField` (re-entry through `RestoreField`, or a new frame through `EnterField`) is
`begin_nth_field`; `Set`, `SetDefault` and `SetFails` are `set_shape` and the calls that end in it,
`set_default`, and `set_from_function` or `parse_from_str` with a failing closure or parse.
`EndStrict`, `EndFails` and `EndDeferred` are the three outcomes of `end`; `BeginDeferred` and
`EnterDeferred` the two ways into deferred mode. `FinishDeferred` starts the walk, whose iterations
are `WalkFrame` and `WalkFails`, and whose last step on the top frame is `WalkTop`. `Build`,
`BuildFails` and `BuildRejects` are the outcomes of `build` and `finish_in_place`; `Materialize` and
`DropHeapValue` are HeapValue's. `CleanStored`, `CleanedUp` and `DropFrame` are the loops of the
error path and of `Drop`. A call that fails before it changes anything drops `self`, which is what
`Cancel` does.

Default filling differs between `fill_and_require_fields` (through the TypePlan) and
`fill_defaults`, in whether a struct whose tracker has no field set is default-constructed as a
whole; `Fill` takes that as its second argument.

### Lists, maps and sets

`Collections` has the frame stack and the stored frames of `Partial`, and in place of fields the
slots of a rope (`rope`: how many were handed out, how many of the first of them are finished) and
the buffers of an entry (`pending`, and the insert state). `InitCollection` is `init_list`,
`init_map` and `init_set`, `BeginItem` is `begin_list_item`, and the other actions have the names of
their calls; `said` records, from the calls alone, the value that they describe. `mem` is the memory
by place; a place of a slot or buffer exists while it is allocated. An element has a size: a
zero-sized one needs no slot. What is inside an element's element is a leaf. A set's element
(`BeginElement`) is inserted when it ends, in deferred mode by `EndElement` and without a check.

### Enums, Options, smart pointers and Results

`Choices` tracks one field that is one of these, and what is inside it, to the leaves. `mem` has the
cells (values, discriminants, Option tags), the live buffers and what went wrong. A place starts
with the number of its buffer, since `begin_some` builds in a buffer of its own and the value is
moved later - by the walk, when the Option that keeps it as `pending` is completed, or at once
(`TakeValue`) into a smart pointer or a Result in strict mode. What a smart pointer points to on the
heap is thought of as below the pointer. `SelectVariant` has the code's three cases (none selected,
the same again, another one), with the stored frames that it discards. Every bit is read and written
through `ISet` (`new`, `set`, `unset`, `get`, `all_set`, `set_all`).

### Plans

`Plans` runs the recursion of `build_node_with_proxy` as a stack of calls: each asks for the next
part's node, and is answered by a finished node (`Reuse`), a `BackRef` (`ReferBack`) or a call of
its own (`BuildNode`, then `Alloc`). `Finish` puts the plan into the process's cache. A frame then
carries a node, and `BeginField`, `BeginPart`, `BeginInner` and `BeginProxy` find the child's as the
code does: a struct's and enum's by the node's kind, a container's by its strategy, a proxy's by its
format. `from_shape` holds the lock of the cache while it builds, so two plans are never in the
making together. `Validation` adds `build`: a walk over the value guided by a walk over the types,
whose answers stay in a memo of the thread.

### The solver

A schema is a set of resolutions, each with its fields (category, name, path, required) and key
paths. `SeeKey`, `ProbeKey`, `SatisfyShapes`, `SatisfyAtPath`, `HintVariant`, `HintVariantForTag`,
`MarkSeen` and `Finish` are the calls; what they return is in `result`. `truth` is the resolution
that the input was written for, if any: then the caller says only what is true of that input.
`Schema` builds the resolutions by forking and merging as `SchemaBuilder` does.

### What the caller does: Usage

Some calls reach past the frame on top of the stack. The constant `Usage` says which of them the
caller makes, so that each can be looked at by itself:

- `defer`: enter deferred mode at all;
- `overwrite_stored`: replace a place as a whole while frames for parts of it are stored;
- `build_unfinished`: call `build` before `finish_deferred`;
- `enter_twice`: call `enter_deferred` in deferred mode.

The other modules have constants of the same kind. `Solver`: `satisfy_nested` (a run).
`Collections`: `reopen`, elements are begun in deferred mode in a collection that was completed
before (a run). These have no run of their own; what is said of them is what TLC finds when the
constant is set:

- `Partial`, `enter_twice`: `enter_deferred` replaces the mode by a new one without stored frames,
  whatever the mode was (`alloc.rs:286-293`). What the discarded frames held is then the parent
  bit's alone, whole or not (`SoleAuthority` fails).
- `Choices`, `switch`: another variant is selected while the old one has values that only its bits
  know of, or parts within stored parts. The values leak (`internal.rs:160-170` only resets the
  tracker; `NothingLost` fails), and in deferred mode the discarded frames of a nested part are
  dropped twice (`internal.rs:96-100`; `NoInvalidDrop` fails). `eenum.rs:58-62` says that switching
  is refused, but no code refuses it.
- `Choices`, `linger`: the Partial is given up, or finished, within an Option that was entered again
  in deferred mode. Its frame is restored as still building (`fields.rs:164`), and its clean-up
  takes away what the inner frame cleans up too (`NoInvalidDrop` fails).
- `Choices`, `again`: `begin_some` twice in deferred mode without leaving. The second inner frame is
  stored over the first (`NothingLost` and `NoInvalidDrop` fail).
- `Choices`, `result`: deferred mode is entered inside a Result, or a Result is begun in it. A
  Result adds no step to paths (`mod.rs:2254`), so its inner frame is stored under its own path and
  replaced when it ends (`NothingLost` and `RefusesOnlyGaps` fail), and the frame at the depth of a
  path's length is not the parent that `misc.rs:676` takes it for: the parent keeps its bit and
  drops what the stored frame has dropped (`NoInvalidDrop` fails).
- `Collections`, `unset`: a set's element is ended in deferred mode without a value. It is inserted
  unchecked (`misc.rs:1857`; `OnlyInitialized` fails).
- `Collections`, `set_parts`: deferred mode around or inside a set's element that is a list or a
  map. A set adds no step either: the element is moved into the set while its own elements are still
  stored, and their parents are not found (`OnlyInitialized` and `NothingLost` fail).
- `Plans`, `bypass`: what is inside a container is begun although its field has proxies, none for
  the format at hand. The field's node has the strategy `FieldProxy`, so no child node is found and
  the call panics: "TypePlan must have .." (`lists.rs:488`, and its like in `option.rs`, `maps.rs`,
  `sets.rs`, `ptr.rs`; `NeverPanics` fails). `begin_inner` falls back to the wrapper's own node
  instead.
- `Solver`, `texts` (with `TextSchemas` for `Schemas`): two structs that are flattened into one
  schema have a text field each, of different names. `see_text()` finds the first of them in the
  index of the whole schema, where "there's only one such field per struct" (`lib.rs:882-894`), and
  rules out the resolution with the other (`TruthSurvives` fails).
- `MCSolver`, `InnerTypes` for `Types`: a flattened enum has a newtype variant over an Option or a
  list of structs. `unwrap_transparent` follows every inner shape (`lib.rs:3197-3230`), and an
  Option and a list have one as well (`option.rs:334`, `vec.rs:499` in facet-core), so the struct's
  fields become required keys of the variant (`ForksAreTheChoices` fails).

`LateRoots` for `Roots` in `MCPlans` is the same for types (run `late_invariants`): a type that
contains itself before a part with invariants.

## Runs

| Run | Question | Result |
|---|---|---|
| `partial_deferred` | a struct in a struct, with defaults, in strict and deferred mode, any order, any failure | all ten properties hold; about 76,000 states |
| `partial_arrays` | an array of structs, strict mode, lent memory | holds; about 1,400 states |
| `overwrite_stored` | set a struct whose field is stored | `NoInvalidDrop` violated |
| `build_unfinished` | build before finish | `BuiltComplete` violated |
| `deferred_arrays` | array elements in deferred mode | `NoInvalidDrop` violated |
| `solver` | seven types with flattened parts, and schemas of six, flat, tagged and DOM | six properties hold; about 52,000 states |
| `solver_nested` | the shapes of a nested path given to `satisfy_shapes` | `TruthSurvives` violated |
| `collections` | lists, maps and sets of each other, both modes | six properties hold; about 1,600,000 states, two minutes |
| `reopened` | more elements, in deferred mode, for a list that has some | `OnlyInitialized` violated |
| `choices` | Options, smart pointers and Results of leaves, structs, enums and each other, an enum with overlapping variants, both modes | six properties hold; about 42,000 states |
| `plans` | plans, frames over them, values built from them, tables of names | eight properties hold; about 8,000 states |
| `late_invariants` | a value of a type that contains itself before a part with invariants | `RefusesExactlyTheUnsound` violated |

Properties: `TypeOK` (well-formedness); `NoInvalidDrop` and `NoLeak` (every value dropped once,
nothing overwritten, nothing left); `BuiltComplete` (no hole in what is handed over);
`SoleAuthority` (each value has exactly one responsible frame, each frame claims only values);
`OwnershipInv` (the inductive invariant); `SetSurvives` (what the caller set stays until the caller
replaces it or the Partial is given up); `FinishRefusesOnlyGaps` (a complete value is never
refused); `CallsReturn` (liveness); `KeepsPromise` (refinement of `Promise`).

The other modules' properties, in a line each (their comments say more):

- `solver`: `NarrowingIsOrderFree` (what the keys leave does not depend on their order),
  `OneShotAgrees` (`finish` decides what matching the whole input decides), `TruthSurvives` (the
  right resolution is never ruled out), `NeverReopened` (a ruled-out one never returns),
  `ForksAreTheChoices` (the builder's forks and merges are one resolution per consistent choice).
- `collections`: `OnlyInitialized` (nothing is moved or dropped that holds no value, no half-entry),
  `NothingLost`, `OneAuthority` (a frame or the collection, not both), `AsDescribed` (what is built
  is what the calls said), `RefusesOnlyGaps` (finish_deferred refuses only what is incomplete).
- `choices`: `NoInvalidDrop`, `NothingLost`, `BuiltWhole`, `AsChosen` (the last choice is what is
  built), `RefusesOnlyGaps`.
- `plans`: `OnePerType` (the plan does not grow with the paths), `PlanFollowsShape` (frames and
  nodes go down together), `OwnProxies` (a frame is offered the proxies declared for it),
  `NeverPanics`, `RefusesExactlyTheUnsound` (for types whose checked parts are found before the
  recursion), `TablesAgree` (a name finds what a search of the declarations finds), `PlansEnd`
  (planning ends, for recursive types too).

**Bounds.** There are no counters to cap: the state is finite because the type is. `Config` (six
places: a defaultable struct of two leaves, a plain leaf, a leaf with a default) has a stored frame
below a stored frame, a stored frame next to one on the stack, two stored siblings, a default for a
field and for a struct, and an unfilled required field beside each. `Grid` (seven places) has an
array whose elements are a struct and a leaf. Every pair of frames in these types is related in one
of the ways two frames can be related (equal, nested directly, nested through a third, siblings,
cousins); deeper trees add longer chains of the same links, and the theorems cover them. Deadlock is
not checked: a caller may stop, and a built and moved or dropped value has no next step.

For the other runs: `collections` has two items per collection (the second is the one that meets a
finished or stored first), four whole values, and seven pairs of kinds (sets only hold leaves in
deferred mode); each is needed for an element to be stored below a stored one. `reopened` has three
items, since the numbers of the second and third collide. `choices` needs no bound: its types are
finite. A word of an `ISet` has two bits there, so that one, two and three fields are a word not
full, full, and two words. `plans` bounds the calls of the builder inside each other (`MaxCalls` 9,
more than its types need: reaching the bound would show as a violation of `PlansEnd`), the frames
(6, enough to go round every cycle once) and the Partials (two, so that the second meets the first
one's cache and memo); the thresholds of the tables are 2 for 8 names and prefixes of 1 and 2 bytes
for 4 and 8, with all lists of up to three names of up to two bytes.

**Fairness.** `MCPlans!Spec` adds weak fairness of the builder's steps: a plan is made within one
call, under one lock. `FairSpec` adds weak fairness of `Loop`, the iterations of a call that is
running. A call is ordinary sequential code, so once made it runs. Nothing is assumed of the caller:
no call need ever be made.

### Disagreements found

Each is a run that must find a violation; `PROJECT.json` quotes the code's own statement.

1. `overwrite_stored`: `end` in deferred mode sets the parent's bit although the stored frame still
   owns the field; `set` on the parent drops the field, and the stored frame drops it again when the
   Partial is dropped. The comment says no double free is possible by construction.
2. `build_unfinished`: `build` does not look at the mode, and counts a stored, unfinished field as
   initialised.
3. `deferred_arrays`: an array element is stored under an `Index` step and looked up under a `Field`
   step; re-entering it makes a second frame for its memory.
4. `solver_nested`: `satisfy_shapes` compares with top-level fields only; its documentation's own
   example gives it the shapes of a nested path and loses every candidate.
5. `reopened`: the first two elements begun in deferred mode in a list that has one get the same
   number; the second replaces the first among the stored frames, and a slot without a value is
   moved into the Vec. Maps have the same flaw: the drain does not reset `current_entry_index`, and
   `complete_map_value_frame` panics at its `expect`.
6. `late_invariants`: while a type is busy, the types between it and itself are answered `no`, and
   the thread's memo keeps that (`build.rs:13-74`). In `struct Late { next: Option<Box<Late>>, item:
   Email }` nothing below `next` is validated, in the first `build` already, against "Validate
   invariants on the full value tree" (`build.rs:267`).

Smaller ones met on the way, without a run: `KeyResult::Unknown` is returned for the tag's and
variants' own keys in flat schemas (`lib.rs:747` says unknown means unknown to all); the comments of
`collect_nested_key_paths_for_flattened` speak of forks that it never makes; `Drop`'s comment on
`Index` steps (`mod.rs:2345`) contradicts `deinit` (`mod.rs:798-805`).
`finish` goes by names, and `see_text()` reports none: in a DOM schema an input whose required text
was seen is answered "No viable resolution" (`lib.rs:1472-1480`). `end` looks at the kind of a
frame's node without following a `BackRef` (`misc.rs:1540`), so the validators of a struct that is
built inside itself do not run; nor do those of a frame stored in deferred mode.

## Proofs

For every tree of places and every use of the builder that keeps to `DocumentedUse`,
`Ownership_proofs` proves `Spec => []P` for `OwnershipInv`, `TypeOK`, `NoInvalidDrop`, `NoLeak` and
`BuiltComplete`; `Guarantee_proofs` proves `SoleAuthority`, the action properties `SetSurvives` and
`FinishRefusesOnlyGaps`, and `KeepsPromise`.

**Assumptions.** `NodesAssumption` and `TreeAssumption` (the places form a finite tree),
`DefaultAssumption` (an array frame never fills itself), `ConstantsAssumption`, and `DocumentedUse`:
none of the uses above other than `defer`, and no arrays in deferred mode. Each part of
`DocumentedUse` is needed: the violation runs show it, and for `enter_twice` the list above. Without
`defer` arrays are allowed, so the theorems cover strict mode for all places.

**The invariant.** `NoInvalidDrop` is about the history of the memory; by itself it does not say why
the next drop is right. `OwnershipInv` does. `Agree` relates frames and memory:

- `StackDescends`: the stack runs down the tree from the root, one field at a time, and the cursors
  say so - needed for derived paths to be right;
- `StoredFiled`: each stored frame is filed under the path of its place, and no place has two frames
  - so a lookup finds the frame it means;
- `Closed`: whatever contains a live place is live - so a parent is always found, stored or on the
  stack;
- `Accounts`: a composite frame is right about each field that has no frame of its own, a scalar
  frame about its whole place - so what a frame drops is what is there.

A parent's bit for a field with a frame of its own means nothing: that is how the deferred mode's
early mark (`misc.rs:1784`) is harmless in documented use. The deepest-first order enters in
`DeepestFree`: a deepest stored frame has nothing live inside it, so its tracker is right about all
of its place. `Phases` ties the running call to the shape of the state; `Outcome` states the
results.

**Layout.** A change that actions share - update the top frame, push, pop, store, take out and tell
the parent - has its lemma in `Ownership_proofs`, said of any stack, stored frames and memory. One
lemma per action follows, and `InvStep` combines them. In `Guarantee_proofs`,
the frame that answers for a leaf is that of the innermost live place around it; that there is one,
and that every place has a leaf, rests on the order of the natural numbers being well founded (the
places below a place get fewer going down). `FinishRefusesOnlyGaps` is `Accounts` read the other
way: an incomplete frame that is right about its place has a field, or all of its place, empty.
`SetSurvives` uses the absence of faults: a default that went over a value would have been one.

**The solver.** `Solver_proofs`, for every schema that keeps to `SchemasAssumption` and for `Usage =
{}`: the invariant `SolverInv` says that the candidates are resolutions, that in a history of
`see_key` alone they are those that have every key seen so far, and that the right resolution is
among them. Each call is a lemma; `finish` agrees with matching the whole input because a candidate
by keys that has its required names is a match. `SchemasAssumption` says what a schema is. That the
right resolution stays also needs `TextsAssumption`: a schema has at most one field of each category
without names of its own (`Text`, `Tag`, `Elements`), since `see_key` takes the first it finds
(`lib.rs:886-894`). Without it, the usage `texts`, the proof's `OnlyNameless` fails, and so does the
property. What `finish` says of DOM schemas is not part of any theorem.

**The bitmap.** `ISet_proofs`, for every word size and every number of fields: a bit is changed by
`set` and `unset` alone and only at its own index, `all_set(n)` is true exactly when the first `n`
bits are, and after `set_all(n)` it is. The argument is division by the word size: an index is one
pair of a word and a bit, and the indices below `n` are the full words before the word of `n` and
the masked part of that.

**The plans.** `Plans_proofs`, for every set of types that keeps to `ShapesAssumption` and for
`Usage = {}`: the invariant `PlansInv` says

- of the arena, from its first node on, that each node is made like its shape and that the nodes it
  names are made like the shapes of its parts and proxies - the arena only grows, so what a node is
  never changes (`StaysFit`);
- of the builder, that the types in `building` are those of the running plain calls, each once, and
  that a `BackRef` names a type that is in `building` or in `finished` - so with the last call every
  reference back has its target, and the plan is whole (`PlanMade`) when it enters the cache;
- of the frames, that each has a node of the active plan that fits its type and its field's proxies.

`NoOpenWrapper` is the step that the source does not spell out: no reference back ever names a
wrapper, because a wrapper's call has nothing open above it, so that `begin_inner`, which does not
follow references back, meets none. `ShapesAssumption` says what facet-core and the derive macro
make: parts and proxies are types there are; proxies are attributes of structs, enums, opaque types
and fields; what is inside a wrapper is a scalar. The theorems are about `PlansSpec`; each step of
`MCPlans`' specification is one of its steps, with `Validation`'s variables beside it.

**Lists, maps and sets.** `Collections_proofs`, for every set of types, every number of items and
`Usage = {}`: `TypeOK`, `OnlyInitialized`, `NothingLost`, `OneAuthority`, and the action property
`RefusesOnlyGaps`. `CollectionsInv` has these parts:

- `Owned`, of the set of the frames and the memory: no two frames have one place; every place but
  the root is that of a part of some frame (`Kid` says which parts a frame can have had); and each
  frame is right about itself (`OwnOK`) - it is initialized exactly if its place holds a value, what
  it counts as finished holds a value and has no frame, and what lies in it and has no frame is
  among its allocations, and empty unless it is counted.
- `ListOK`: the slots of a rope that are not counted as finished all have frames. A rope only counts,
  and counts from the first slot on; so when one frame passes the walk, the slot that becomes
  finished is the right one only if the frame is that of the first slot that is not. `ListOK` says
  that those before it are gone, and the order of the walk that those after it are not: `ListWalked`.
- `MapIs`: the keys with the numbers from `Len(pending)` to `n - 1` have stored frames, and so have
  the values of the first `n` entries that are not given yet, but for the last one's while the map
  waits for it. Keys sort before values, so the pending entries are full when the map's own turn
  comes, and `complete_map_value_frame` finds the half-entry at the index of its path: `MapWalked`.
- `Placed`, `Opened`: the stack descends through the step each frame has open, and a stored path has
  the length and the last step of its place. `AsTheyLie`, `Behind`: a path is that of its place, when
  deferred mode began at the root; when it began inside, paths start at the step the root has open,
  whatever its slot is. `Tied`: in deferred mode the number a path gets is the number of the slot or
  entry. It is what `reopen` breaks.

The lemmas under "Changes to frames and memory" say what becomes of `Owned` when a frame is added
(`Added`), replaced, given up (`GivenUp`), or left to its collection (`HandedOver`, `HandedToSet`);
each action is one of these, together with a change of the stack or the stored frames.

**What is built.** `Built_proofs` proves `AsDescribed`, again for every set of types, every number
of items and `Usage = {}`: what `build` hands over holds, element by element, what the calls
described. `said` is one value, and the frames that build it are many, some of them stored; so
`DescriptionInv` says that there is *some* description `d` of places which gives `said` at the root
and with which every frame agrees (`Told`). It cannot be computed from the state: what a set dropped
because it had it already is nowhere. A frame agrees (`Tells`) when

- a place that was written holds what is described of it, and a collection that has no value yet is
  described as empty;
- a list is described as what it holds, and then one value for each slot of its rope, those counted
  as finished being what the slots hold (`ListTells`); a map likewise, with its pending entries and
  those whose halves are stored or open (`MapTells`);
- a stored element is described at the index its step has (`Counted`), the open one at the end
  (`Lastly`). The first is where `Collections_proofs` comes in: the walk counts an element at the
  index in its path, because the frames before it are gone and those after it are not.
- a set holds what is described, as a set; one that is an element or a value itself also in order,
  since the leaves written to it are new to it (`Grows`, `New`).

A call that describes the place on top anew changes `d` at that place and at those of the frames
below it (`Upward`), and for none of the others. An element that ends or passes the walk changes the
frame of its collection and not `d` (`HandedTold`, `Passes`). Completing a collection makes of its
place what is described there (`FinishSays`), and for `build` that place is the root's.

**Only model-checked:** everything about `Choices`, `Validation` and `NameTables`, and the builder in
`Schema`: their definitions recur over shapes, types, schemas or lists of names, so the proofs would
be inductions over data, which the prover has no rule for. `PlansEnd` and `CallsReturn`: liveness
under fairness is beyond the proof system too.

## Not modelled

Of Partial: dynamic values, proxies' conversions and parse-time spans, byte buffers and strings as
lists, slices and `str` behind smart pointers, `begin_inner`, the shorthands (each a composition of
modelled calls). Entering a complete Option in place is left out: the end of the borrowed frame does
not tell the Option that it is complete, so `finish_deferred` refuses it and its value leaks.
Replacing a collection as a whole while parts of it are stored is left out of `Collections`: it is
the case of `overwrite_stored`. An `Option` is a leaf with a default in `Partial`. The walk's
`fill_defaults` never fails in the model. Panics (of a closure, of an invariant function) are not
modelled. Structs without fields start initialised in the code and behave as a leaf written at
birth; `Choices` has an enum variant without fields.

Of TypePlan: the rules by which missing fields are filled (`Partial` has them as defaults), field
validators, metadata containers, opaque types with a builder shape. Of the solver: the
reports of an error (closest resolutions, suggestions), specificity among resolutions, key paths of
DOM formats, `ProbingSolver` and `VariantsByFormat`, which wrap the calls that are modelled.

Peek, Poke, facet-pretty, the derive macros, facet-default, facet-error, facet-validate and the
tooling hold no state across calls: read-only views, formatting and token streams, as the inventory
says.
