# A TLA+ verification of the EGIL SCIM client

The EGIL SCIM client reads students, teachers, groups and so on from a data
source (LDAP, CSV, SQL, an external process), renders each object to JSON, and
makes a SCIM server agree with it.  It is started by an operator or a timer,
does one pass and exits.  Between runs only two things survive: the SCIM server
and the client's cache file, which holds what the client believes it has put on
the server.  Paths below are relative to the repository; `src/` means `src/src/`.

## Inventory

| component | state | operations | what makes it correct |
|---|---|---|---|
| run of the client (`main.cpp`) | options, exit status, status file | load, read cache, thresholds, rebuild query, force options, perform | every exit leaves a cache file and a status file that tell the truth |
| comparison and synchronisation (`scim.cpp`) | `scim_new_cache` | `perform`, `process_changes`, `process_deletes`, `process_deletes_per_endpoint`, the create, update, copy and delete functors | a clean run mirrors the source; after a failed one the next can repair it |
| SCIM sender (`simplescim_scim_send.cpp`) | `number_of_timeouts`, `aborted` | `send_create`, `send_update`, `send_delete`, `query` | after too many timeouts nothing more is sent and nothing is forgotten; a query finds all there is |
| thresholds (`thresholds.cpp`) | none | `verify_thresholds` | a run never changes more objects than allowed |
| cache file (`rendered_cache_file.cpp`, `cache_file.cpp`, `advisory_file_lock.cpp`) | the file, its temporary file, a named mutex | `get_contents`, `begin_`, `save`, `finalize_rendered_cache_file`, the old format | replaced as a whole or not at all; read as a whole or not at all |
| data source (`data_server.cpp`, `load_common.cpp`, `model/`) | objects per type, attribute indexes | `load`, relations, orphans, duplicates | an incomplete load is never taken for a complete one |
| LDAP (`ldap_wrapper.cpp`) | the connection, the paging cookie | `ldap_search`, first and next object | the same; every attribute that is used is asked for |
| external processes (`external_process*.cpp`) | pipes, sessions | start, write, read, split the array | no deadlock, no partial output taken for all |
| generated types (`generated_*.cpp`) | generated objects, `dont_try_again` | Employments, StudentGroups, Activities | complete, whatever the order of the objects they are made from |
| load limiters (`load_limiter*`) | limiters that have been made, the user blacklist | `include`, `get_limiter` | a type is limited the same way however often it is loaded |
| CSV and SQL (`csv_*`, `sql*`) | open tables | read rows | no row is lost, cut or joined to another |
| templates (`scim_json_parse.cpp`, `json_template_parser.cpp`, `renderer.cpp`, `transformer*`) | the template, `iteration_stack`, `verified_types` | find variables, interpret, verify, transform | an object is rendered as the template says, and to JSON |
| configuration (`config_file*.cpp`, `simplescim_ldap_attrs_parser.cpp`) | settings, lists of attributes | parse, `load_templates`, `add_variable` | settings are what was written |
| metadata, audit, cache printing, utilities | none | read, print | |

The data flow of one run: `main` reads the configuration and the templates, loads
`data_server`, reads the cache, applies the thresholds, possibly queries the
server, and hands `current` and `cached` to `ScimActions::perform`, which renders,
compares, sends through the `scim_sender` singleton and fills `scim_new_cache`; at
the very end the temporary file becomes the cache file.  One thread does it all;
the concurrency is between the client and the server (a request the client has
given up on may still arrive), between the client and other writers on the server,
between instances of the client that share a cache file, between the client and
whoever edits its lists, and between the client and its external processes.

What is hard: a run can stop at any line and leaves the server changed and the
cache file not; a request can time out and take effect later, even in a later
run; a request can fail in a way the client must remember; an object can leave
the data source, or fail to render, in any of these states; and the operator
can force, rebuild or skip.  `PROJECT.json` lists the hazards line by line.

## Modules

The core, one run after another:

* `RenderedObjects` - rendered objects, the dummy object, lists of objects.
* `Thresholds` - `thresholds.cpp`, as operators.
* `ScimSender` - the sender and, external, the SCIM server.  `Send(req, out)` is
  one request and its outcome: the status classes `send_create`, `send_update`
  and `send_delete` tell apart (`ok`, `conflict`, `missing`, `error`), the three
  kinds of curl failure (`timeout`, `refused`, `broken`) and `aborted`, when the
  sender answers without asking.  A request that timed out or broke off goes to
  `late` and is handled at any later time, or never.
* `ScimSync` - the program: `pc` is how far `run_main` has come.  One action per
  request, per phase and per exit:

  | action | code |
  |---|---|
  | `StartRun`, `LoadFails` | `main.cpp` 422-438 |
  | `read_cache`, `CacheTruncated`, `CacheUnreadable` | `main.cpp` 174-210, 441-456, `rendered_cache_file.cpp` 120-146 |
  | `ThresholdsPass`, `ThresholdsStop` | `main.cpp` 458-474 |
  | `QueryEndpoint`, `QueryFails` | `scim.cpp` 512-541, `main.cpp` 476-484 |
  | `ForceOptions` | `main.cpp` 486-502 |
  | `RenderAndPreallocate`, `PreallocationFails` | `scim.cpp` 304-334 |
  | `CopyObject`, `SkipUnrendered`, `CreateObject`, `UpdateObject` | `scim.cpp` 105-190 and the functors |
  | `DeleteObject`, `DeleteStray` | `scim.cpp` 196-244 |
  | `FinalizeCacheFile`, `FinalizeFails` | `scim.cpp` 398-411, `rendered_cache_file.cpp` 239-285 |
  | `SettingMissing` | `config_file.cpp` 248, `main.cpp` 507 |
  | `Crash` | the process dies anywhere |

  Objects of one type are processed in any order (the code follows the id
  order of a map; which id is smaller is arbitrary), types in send order.
  `doubt`, `new_doubt`, `touched` and `failures` are history variables: they
  record which ids a lost answer, a crash or another writer has made uncertain
  and never decide what the program does.
* `Mirror` - what the client promises of the server, without caches, rebuilds,
  comparisons or passes: the server is a set of places, an endpoint and an id
  each.  A run looks at the data source, and until it ends writes each place at
  most once and then to what it saw.  A write may come late or never.
* `ScimMirror` - the refinement mapping: `held` is `server`, `view` is `current` at
  the places its types have, `settled` are the ids that the pass has handled or
  swept, `delayed` are the late requests, without their kind.  `ImplementsMirror`
  is `Mirror`'s specification under that mapping.
* `ScimSyncInv`, `ScimCompleteInv` - the inductive invariants, and what some of them
  assume of the data source and the command lines.
* `ScimSyncProofs` (types, accuracy, refinement) and `ScimCompleteProofs` (the phases of
  a run, completeness, clean runs, rebuilds, deletes, the status file, references,
  thresholds) - theorems and proofs.

What a run rests on:

* `CacheInstances` - the cache file when several instances are started on one
  configuration.  Each reads the cache file under the lock, opens and fills the
  temporary file, writes its new cache over the filling, cuts the file to size and
  renames it under the lock again.  Files are kept apart from their names: an open
  file keeps its contents when its name is renamed.  The lock is a named mutex that
  is given up after 30 seconds and then removed by name; a holder may be killed.
* `JsonSplitter` - `json_array_splitter` and `json_parser_sink` as operators on
  bytes and texts.
* `ExternalProcess` - `run_process` on POSIX: the three pipes, the main thread
  that reads standard output, the thread that reads standard error, and,
  external, a child that writes what it likes in any pieces, may stop short,
  fail, close its outputs and wait for the end of its input.
* `ProcessSessions` - `external_process_manager` and the load that uses it:
  parse, init commands, one command for each type, cleanup commands; whatever
  fails goes to the cleanup.  A read is atomic, and what is between two commands
  of a load is left to `DataLoad`.
* `DataLoad` - `data_server::load` with what it calls:

  | action | code |
  |---|---|
  | `LoadTable`, `TableHasDuplicates`, `TableFails` | `csv_load.cpp` 42-154, `sql_load.cpp` 66-192 |
  | `LoadLdap`, `ReadEntry`, `EndOfEntries` | `simplescim_ldap.cpp` 46-103 |
  | `NextPageFails`, `EntryFails`, `SearchFails` | `ldap_wrapper.cpp` 413-567 |
  | `NothingToLoad`, `LoadSucceeds`, `DuplicatesFound` | `data_server.cpp` 90-110, 247-262 |
  | `GenerateEmployments`, `EmploymentsCollide` | `generated_load.cpp` 326-622 |
  | `PickMain`, `RelateLoaded`, `NothingLoaded`, `StartSearch`, `ReturnResponse`, `NextRelation`, `ReturnList` | `load_common.cpp` 109-229 |

  `load_related` calls itself through the search for related objects; `stack`
  holds the lists that are being loaded.  Objects are shared by pointer, so they
  live on `heap`, and the objects of a list are related in any order.
  Required relations go before the others, and a search returns what it finds in the
  order of the source; both are one fold (`Picked`).
  `Wanted` and `Tolerated` say what the settings ask for without following the
  load; they are what the load is compared with.  `LoadInv`, at the end, is the
  inductive invariant.

What turns what others wrote into what the client works with, each a small state
machine of its own:

* `Templates` - a template's variables are found and asked for, an object is
  interpreted token by token with the loops that are open, values are escaped,
  trailing commas removed, and the first object of a type is verified.  `Result` says
  what a template means, a recursion over its loops that knows no stack and no places.
* `ConfigFile` - the configuration parser, line by line, with comments, multi line
  values and repeated settings.
* `AttributeLists` - the lists of attributes that templates, hidden attributes,
  relations, transformers and generated groups add to, the text that is made of
  them and what LDAP is asked for.
* `LoadLimiters` - the five kinds of limiters, by type or by endpoint, the user
  blacklist, and files that others rewrite meanwhile.  A limiter is the sequence of
  its parts, each after those that it is made of.
* `CsvFile` - the CSV reader, a field a step: quotes, both kinds of line ends, a byte
  order mark.  `Writings` says, without following the reader, how a table may be written;
  one writing is refused, a mark before a header in quotes.
* `CacheFormat` - both formats of the cache file as they are written and, cut off
  anywhere, read.
* `ScimQuery` - a query page by page, with others creating and deleting meanwhile.
* `GeneratedGroups` - groups made from the values of users, with transformers and a
  limiter, one user after the other in any order, and Activities made from them.
* `Readers` - the eight together.  They hand on results and share no state, so a
  behaviour has one of them at work and the others idle.
* `CacheInstancesProofs`, `ProcessSessionsProofs`, `DataLoadProofs`, `TextFileProofs`,
  `ReadersProofs` - theorems and proofs about `CacheInstances`, `ProcessSessions`,
  `DataLoad`, `CsvFile` and `ConfigFile`, and `ScimQuery`, `CacheFormat`, `AttributeLists`,
  `LoadLimiters`, `GeneratedGroups` and `Templates`.
* `FoldLemmas` - folds over sequences and finite sets, and induction, for these proofs.
* `MCScimSync`, `MCRetype`, `MCCacheInstances`, `MCProcessSessions`, `MCDataLoad`,
  `MCReaders` - small instances.

`ScimSync` takes a load for one step that succeeds as a whole or fails.
`DataLoad` and `ProcessSessions` say how far that is true: the runs `load` and
`process` show it, and `partial` and `truncated` show where it is not.

## Runs

| run | shows |
|---|---|
| `daily` | one failure of every kind, an absolute and a relative threshold, `--skip-load`, `--force-update`: type invariant and the safety properties of the core |
| `storm` | two failures of any kind, two late requests, runs that keep being started: the client implements `Mirror`; until something fails references always resolve; in the end the server and the cache file are what the source is |
| `repair` | `--rebuild-cache` and `--force-create`, other writers, a lost or damaged cache file, a run that cannot save or lacks a setting: what the status file tells; the inductive invariants `RunInv` (with `AccuracyInv` in it) and `CompletenessInv` |
| `instances` | three instances at once, one killed or failing anywhere: the cache file is all of one run unless two new ones were under way together, the lock excludes, every instance ends |
| `process` | two sessions, two types, seven outputs cut at any place, any failure: what was written is what is loaded and is the same however it was cut, sessions are cleaned up once, the run ends |
| `load` | four configurations, 512 sources, one failure: what is loaded, related and generated is what the settings ask for |
| `readers` | templates, configuration, lists, limiters, CSV files, cache files, queries and generated groups, each on all of its small inputs, mean what was written |
| `retype` (violation) | an object that changes type is updated and then deleted in the same run |
| `truncated` (violation) | a JSON array cut off between two objects is loaded as if it were whole |
| `partial` (violation) | an LDAP search that fails after its first page ends as if it were complete |
| `overlap` (violation) | two instances, with no failure at all, leave a cache file that is a mixture |
| `nested` (violation) | a loop in a loop that uses the variable of the outer one reads through an end iterator |

Bounds of `ScimSync`: two or three ids of two types at two endpoints are enough for a
reference between objects, a choice of order within a type and between types,
and a failure of one object while others succeed.  `MaxFaults` is 1 or 2: the
second failure can hit the run that repairs the first.  `MaxLate` is 1 or 2, so
that an old PUT can land after a newer one.  `MaxChanges` 1 or 2 lets an object
that may be there from the start change, go or come back.  `http_max_acceptable_timeouts` is 0, 1 or 2, so the sender
aborts at once, at the second timeout, or never.  Deadlock checking is off: a
behaviour rests when no more changes or failures are left to happen and no run
is started.

Bounds of `CacheInstances`: three instances, so that a third can make a new mutex
while a second removes the first one's; new caches of one and of two blocks, so that
one is written in a single step and one can be cut in half; two renames, so that
one can fail and be tried again; one failure, a kill included.

Bounds of `Readers`: templates of up to three of seven tokens, loops of any two
tokens, and longer ones for each construct of `doc/JSON-REPLACEMENT-RULES.md`, over
values that need escaping, are empty, or are two; configurations of four
characters and of the beginnings of each kind of line; all lists that two related
types can have; limiters of depth two; every CSV text of five characters, or of four
with a mark, and every way to write one or two rows of fields with quotes, separators
and line ends;
caches of up to three objects, cut at every place; up to three objects at an
endpoint, in pages of one and two, with three changes by others; three users with up
to three values, of which two make the same id, six configurations of generated
groups.  A third of anything adds no new neighbour to what these
programs look at.

Bounds of `ProcessSessions`: pipes and buffers of two bytes, so that every object
is cut somewhere and both pipes fill up; three bytes of complaints, one more than
a pipe holds; outputs in the three formats of `doc/USAGE.md` and three that are
malformed; two sessions, so that one can fail after the other.

Bounds of `DataLoad`: at most two objects of a type, pages of one entry, so that
every second entry can be lost; values that find nothing, one object or two;
ids that occur twice in a type or in two types.  The configurations have no cycle
of LDAP relations: with one the recursion would not end (a hazard).

Fairness (`SyncFairness`): runs keep being started, because the client is meant
to be run by a timer, and a started run goes on, because it is a single thread
whose only waiting is for curl, bounded by the request timeout.  Nothing is
assumed of failures, late requests or the source.  In `SessionsFairness` each of
the two threads is scheduled, and a child that can write, or has seen the end of
its input, goes on; a child need not fail.  In `FairInstancesSpec` each instance goes
on: it waits for nothing but a mutex with a time limit and its own sleep.  In
`FairReadersSpec` the configuration parser and the query go on.  The server modelled
there puts something in a page as long as there is more; with an empty page the query
asks for the same one for ever, and nothing in the code would stop it.  `DataLoad`
and the other readers have no liveness property: each of their steps takes one
thing from a finite list, but for the cycles of LDAP relations.

What the properties excuse: ids in `doubt` - a lost answer, a run that never
saved, another writer - are those the client cannot know about.  The model says
precisely when an id leaves `doubt`: on a definite answer whose result is saved.
An `error` status is taken to leave the server as it was.

## Proofs

Every theorem holds for every value of the constants, under the assumptions that it
names.  Each rests on an inductive invariant and goes action by action.  TLC finds no
counterexample to these invariants on the instances of the runs, except where it is said
that it cannot evaluate them.

### What the theorems assume

| assumption | says | why the code justifies it |
|---|---|---|
| `TypesFixed` | an id has one type in all states of the source | ids are UUIDs, types are read from different places; `retype` shows that without it `DeletesOnlyGone` is false |
| `AllTypesSent` | a run sends every type that the source has objects of | `scim-type-send-order` lists the types; the cache drops objects of other types (`scim.cpp` 398) |
| `RepairsUndisturbed` | if runs rebuild or are told to create objects again, then no object fails to render, none is refused, and the sender does not abort | these runs do not go by the old cache for such an object; when it fails it is forgotten (findings) |
| `NoRepairs` | no run rebuilds or is told to create objects again | the command lines of daily use |
| `ReferencesInOrder` | the source has what its objects refer to, and types are sent after those they refer to | `master_config/master.conf` 74 lists types so; deletes go in the reverse order (`CHANGELOG.md` 227) |
| `IsFiniteSet(Uid)` | finitely many ids | thresholds compare numbers of objects |

`MCScimSync` assumes `TypesFixed`, `AllTypesSent`, `RepairsUndisturbed` and
`ReferencesInOrder` of its instances, so TLC evaluates them in `daily`, `storm` and
`repair`: they are not vacuous.  `NoRepairs` holds in `daily` and `storm`.

The other modules need the assumptions next to their constants, which say what shape
configurations and inputs have; TLC evaluates each of them in a run.  More than that say:

| assumption | says | why the code justifies it |
|---|---|---|
| `OutputsAreWellCut` | where a command's output is said to have an object, there is one, and none after the end of an array | it says nothing of the program, only what the outputs are; the splitter stops at the end of the array (`json_array_splitter`) |
| in `FormatAssumption` | a file of the old format has fewer objects than the magic number 1000 | that number tells the formats apart |
| in `LoadAssumption` | Employments are not generated from other generated types | `Employment-generate-key` and `Employment-generate-remote-part` name types that are read |
| in `LimiterAssumption` | a limiter is made of limiters that were made before it | `create_limiter` builds the tree from its leaves |
| in `CsvAssumption` | the first field of the header of a table to compare with does not itself begin with a byte order mark | `strip_utf8_bom` takes what looks like one for the mark of the file |
| in `ListAssumption` | an attribute has a name of its own, or of its type and its own, without separators | `add_variable` and the templates split names at the dot, lists at commas and blanks |

### The core

| theorem | states | assumes |
|---|---|---|
| `TypeCorrect` | `SyncTypeOK` | |
| `AccuracyInvariant`, `CacheAccuracy` | `AccuracyInv`, `CacheIsAccurate` | `TypesFixed` |
| `NoDeleteOfCurrent` | `DeletesOnlyGone` | `TypesFixed` |
| `Refinement` | `ImplementsMirror` | `TypesFixed` |
| `PhaseInvariant`, `RunInvariant` | `PhaseInv`, `RunInv` | `TypesFixed` |
| `CompletenessInvariant`, `CacheCompleteness`, `CleanRuns` | `CompletenessInv`, `CacheIsComplete`, `CleanRunMirrors` | `TypesFixed`, `AllTypesSent`, `RepairsUndisturbed` |
| `RebuildsSettle` | `RebuildSettles` | `TypesFixed`, `AllTypesSent` |
| `DeletesAreKept` | `FailedDeletesAreKept` | `TypesFixed`; and no rebuilds, or `AllTypesSent` and `RepairsUndisturbed` |
| `StatusFileTellsCache` | `StatusTellsCache` | |
| `FaultlessInvariant`, `ReferencesAlwaysResolve` | `FaultlessInv`, `ReferencesResolve` | `TypesFixed`, `AllTypesSent`, `NoRepairs`, `ReferencesInOrder` |
| `ThresholdsBoundChanges` | `ThresholdBoundsChange` | `TypesFixed`, `AllTypesSent`, `IsFiniteSet(Uid)` |

*Accuracy.*  `CacheIsAccurate` is not inductive: a new cache file is written from
`scim_new_cache`, which says nothing of the ids not reached yet, and copies come from
`cached`.  `AccuracyInv` adds what holds in the middle of a run: each real entry of
`scim_new_cache` and of `cached` agrees with the server unless the id is in doubt;
`cached` and `cacheFile` agree where the force options do not; before its turn nothing
is touched or recorded for an id; between runs all of it is empty.

*Refinement.*  Every request goes to a place where the run has not written: an id is
settled when a pass handles it or the delete pass sweeps it, and with fixed types
these are not the same place twice.

*Completeness.*  The converse of accuracy needs more: an object that the server has may
be remembered by the old cache, by the answers to a query, or by the new cache,
depending on how far the run has come.  `PhaseInv` says what the place in the program
tells about the passes, `CleanInv` (in `RunInv`) what a run without failures has made of
the server so far, and `CompletenessInv` which of the lists remembers what at every
step.  `CleanRuns` and `RebuildsSettle` are what is left at `FinalizeCacheFile`.

*References.*  `ReferencesResolve` relates objects of different types at every single
request.  `FaultlessInv` says that, until something fails, the server has only what came
from a state of the source, and with it all that this refers to, and that the lists of a
run have nothing that the server has not.  With `RunInv`, which knows the types that
are done, an object is sent when what it refers to has been sent, and deleted when what
refers to it has been changed or deleted.

*Thresholds.*  `ThresholdsInv` carries the check made before the run over to the new
cache file: the lists that were compared are the cache file that is still there and the
objects that are sent, and without failures `scim_new_cache` has what has been
handled, with its type, and only that.  The theorem then counts: sets that correspond
have the same cardinality.

*The status file.*  `StatusTellsCache` speaks of every run that has read the cache, with
any command line, but not of one that is killed, which leaves the status file as it was,
or that lacks a setting, which reports a cache that was never saved (findings).  `CachedIsCacheFile` is the invariant: as long as no new cache is saved,
`cached` is the cache file without the objects of `--force-create`.

TLC checks `RunInv` and `CompletenessInv` in `repair`; `FaultlessInv` was checked on the
instances of `daily` and `storm`, `ThresholdsInv` on all three, `AccuracyInv` on
`storm` and, as part of `RunInv`, on `repair`.

### What a run rests on

| theorem | module | states |
|---|---|---|
| `InstancesTypeCorrect`, `WholeFile`, `LockKeepsApart` | `CacheInstancesProofs` | `InstancesTypeOK`, `WholeUnlessOverlap`, `LockExcludes` |
| `SessionsTypeCorrect` | `ProcessSessionsProofs` | `SessionsTypeOK` |
| `CommandsInSessions`, `SessionsCleanedUp` | `ProcessSessionsProofs` | `CommandsRunInSessions`, `EverySessionIsCleanedUp` |
| `LoadedWhateverTheCuts` | `ProcessSessionsProofs` | `LoadedHoweverCut` |
| `LoadedWhatWasWritten` | `ProcessSessionsProofs` | `LoadedIsWritten`, assuming `OutputsAreWellCut` |
| `LoadTypeCorrect` | `DataLoadProofs` | `LoadTypeOK` |
| `LinkedOnlyAsConfigured`, `RequiredAlwaysLinked` | `DataLoadProofs` | `LinkedAreRelated` and `RequiredAreLinked`, two of the three parts of `RelationsAsConfigured` |
| `QueryComplete`, `CutFilesAreNotRead` | `ReadersProofs` | `QueryFindsAll`, `CutFileIsNotRead` |
| `EveryAttributeAsked` | `ReadersProofs` | `EveryAttributeIsAsked` |
| `AdmittedAsMeant` | `ReadersProofs` | `LimitedAsMeant` |
| `GroupsComplete` | `ReadersProofs` | `GeneratedAsMeant` |
| `RenderedIsMeant` | `ReadersProofs` | `RenderedAsMeant` |
| `RowsReadAsWritten` | `TextFileProofs` | `RowsAsWritten` |
| `SettingsAreAsWritten` | `TextFileProofs` | `SettingsAsWritten` |

*Instances.*  The temporary file has one name, so an instance can lose it to another.
`InstancesInv` says that the cache file and the temporary file are never the same file;
that there is one mutex, which whoever is in the section holds, as long as no waiter has
given up and nothing has failed; and that, while no two new caches are under way, at
most one instance saves, the temporary file is its own, and holds as much of its
cache as its place in `save` says.

*Sessions.*  `SessionsInv` counts: how often each init command has succeeded and each
cleanup command been tried, against the place in the list where the program is.

*Streams.*  `StreamInv` says that the pipe holds the last of what the command has written,
and that the sink is where all the bytes before these, in one piece, would have brought
it.  That a sink given two pieces is as if given their concatenation is an induction over
bytes.

*Outputs.*  The splitter knows, byte by byte, how deep it is in an object and whether it is
in a string.  An object is kept until its last byte and goes to the parser with it, what
stands between objects adds none, and one that was cut off leaves the splitter
incomplete.  So what the sink has after any number of bytes is what has been written in
full by then; `OutputsInv` adds that the outputs that were believed are
those of the commands, and `StreamInv` that the sink has seen as many bytes as were
written.

*Loads.*  `LoadInv` speaks of every list that is being loaded, not only of what the data
server holds in the end.  An object that has passed the first relations of its type has
been related as those of them ask that are required; one that has passed all, and was not
put into `remove`, as all of them; the list on top of another is loaded for a value of the
object at hand below, so what it returns does match.  `PickMain` may take any object and a
relation may load further lists, so that an object can be replaced on the heap while a
list that holds the old one is still at work: links name ids, not places, and are never
taken back.

*Lists of attributes.*  `ListsInv` says that all that the types loaded so far need is in
the lists, and at the end in the text that LDAP is asked with.  The text is taken apart
again into the names that it was put together from, in whatever order these come out
of their set, and a list of hidden attributes into the names in it, when there is a
blank after each of its commas.

*Limiters.*  A limiter is read from its configuration, combined with the blacklist and
evaluated from its first part to its last.  By induction over the parts, the verdict on
each is what the part means, also where parts have moved because others were put before
them.  `LimitersInv` keeps which files a limiter was made from: those of the first time
its type was loaded, not those of now.

*Generated groups.*  `GroupsInv` follows each membership, a value of a user that
matches a specification: it is still to come (its type, its user or the value
itself), or the user is in the group, with a transformed value, and has been told of it,
or the group was refused and will be again.  It also says the reverse, that every member
of a group comes from such a value.

*Templates.*  The meaning of a template is a recursion back from its end, over all values
the iteration variables may have; it is shown to exist and to follow the tokens
(`MeaningStepped`).  `RenderInv` says of each level of open loops, outermost first, what
the iteration variables are there, what is still to be written by this round and those
after it, and where the loop is closed (`Reaches`): what has been written, followed by
what is left at each level, is what the template means.  One lemma for each kind of
token says that its step keeps this or fails where the template means nothing.
Three more carry them: the innermost open loop that has a variable gives the value the
meaning has for it (`InnermostBinds`), a loop that is skipped is left after the
end that closes it (`SkipCloses`), and the commas that are removed are those before a
closing bracket and outside of literals (`CommasRemoved`).  `SkipCloses` is where loops
have to be written plainly (`PlainLoops`): no white space in `${for` or `${end}`, and no
attribute whose name begins with `for`.

*Queries.*  `QueryInv`: as long as nobody deletes in between, the query asks on from just
after what it has found, and what was there throughout has been found or is listed from
there on.

*The cache file.*  `FormatInv` keeps two things: which objects the writer put in the
file, and that the place of the reader is where the text of the objects read so far
ends.  One lemma for each construct, number, string, list, attribute and object, says
that reading what was written gives it back and stops behind it, and that reading it cut
off gives nothing; longer constructs follow by induction over objects, attributes and
values.

*CSV files.*  What a quoted field is, is a recursion over the rest of the file; one that goes
back from the end is shown to exist and to do what it says.  `FieldIsRead` says
that the text of a field, quoted or not, is read as the field up to where the text ends,
and `FieldIsWritten` that a field that is read comes from such a text.  From the second
follows `FileSoFar`: what has been read, rows and fields, has a writing that is what the file
has up to the place of the reader.  From the first follows `TableIsRead`: if the file is a
writing of some table, then what has been read are the first rows of that table, and the
first fields of the next, and nothing was refused.  Of a mark before a header in quotes
`MarkedFieldFails` says that the first field cannot be read, and `MarkIsRefused` that the
reader never comes past it.  A table of nothing but one empty field
without a line end is an empty file, which is why the last row may do without its line
end only if something is in it.  Both invariants quantify over all rows there are, so TLC
cannot evaluate them; on the instance of `readers` it checks what they imply,
`RowsAsWritten`.

*Configuration files.*  From each place of a file the grammar gives at most one value, at
most one assignment and at most one line, and they are the parser's (`ValueIs`,
`AssignmentIs`, `LineIs`).  What the rest of a file says is a recursion back from its end,
which is shown to exist and to follow the lines (`MeaningsExist`, `RestIs`).  `SettingsSoFar`
says that the file is one that the grammar accepts exactly if the rest is, and that
what it says is the assignments that the settings are made from so far, followed by
those of the rest.  It quantifies over all lists of assignments, so TLC checks only what
it implies, `SettingsAsWritten`.

`InstancesInv` was checked on the instance of `instances`, `SessionsInv`, `StreamInv` and
`OutputsInv` on that of `process`, `LoadInv` on that of `load`, `QueryInv`, `FormatInv`,
`ListsInv`, `LimitersInv` and `GroupsInv` on that of `readers`; `RenderInv` quantifies over
all stacks of levels, so TLC checks only what it implies, `RenderedAsMeant`.

### Induction

The induction theorems of the standard library take an operator as a parameter, which
the provers here cannot instantiate.  `FoldLemmas` goes another way: a set of natural
numbers that has 0 and with each number the next is all of them, which is proved from
the least element of its complement.  With it a fold over a sequence is computed element
by element, over a concatenation, and over the parts of a sequence of sequences.  The
same is done for folds over finite sets, by the number of their elements.  A recursive
function that goes back from the end of a sequence is shown to exist in the same way
(`Backwards`).  This is why
folds stand in the models where the code has a loop.

### What stays with TLC

* Liveness under fairness: `EventuallyAgrees`, `CacheConverges`, `RunEnds`,
  `InstancesEnd`, `ReadersEnd`.
* `DataLoad`: `LoadedIsWanted`, `EmploymentsAreDerived`, and of `RelationsAsConfigured` that
  whatever is related according to the settings has been linked.  They are not true of
  every configuration: they need a load order in which no type is related by comparison
  to one that is loaded later, and relations that are no deeper than `Wanted` follows
  them.  The configurations of `load` are such; a theorem would need a description of
  all that are, and an induction over the depth of a recursive function.
* `VerifiedOnceIsEnough`.  It compares the results of two objects literal by literal; a
  theorem needs a second invariant that runs both meanings side by side.

## Refinement

`Mirror` is what an operator would say the client does.  `storm` checks, and the theorem
`Refinement` proves, that every step of `ScimSync` is a step of it or leaves its
variables alone: in particular that
no run, whatever its cache file holds, writes a place twice, deletes what the source
has, or sends a body older than the one it loaded; the only old bodies are those of
requests that come late.  This is what the passes of `perform` have to achieve
together, and it is exactly what `retype` breaks: there the id is handled as one type
and swept as another, at the same place.

## Findings

The five violation runs above.  Also met while modelling:

* An exception of type string in `perform` ends as success and reports a cache
  that was never saved (`main.cpp` 507).
* A truncated cache file stops `--rebuild-cache` too (`main.cpp` 451).
* A missing `<type>-unique-identifier` leaves the output of an external process
  unread, and the run waits for ever (`external_process_load.cpp` 132).
* With `--force-create` the status file of a failing run lacks the forced objects:
  the status shares its list with the cache (`main.cpp` 496).
* A DELETE that fails during a rebuild is forgotten (`scim.cpp` 235), as is an
  object that does not render then (176).
* A damaged cache file of the old format reads as an empty one
  (`cache_file.cpp` 231): every object is created again, and those that left the
  source stay on the server.
* Types with LDAP relations to each other load each other without end
  (`load_common.cpp` 162).
* A loop that is skipped does not see `${ for ...}` and `${ end }`, which are taken
  elsewhere (451), and takes `${format}` for a loop (`scim_json_parse.cpp` 555-558); `${|attr}` alone does not add `attr` to the attributes
  that are asked for.
* Of a list `a,b c` the `b` is lost (`utils.cpp` 36); a list file that cannot be
  opened is an empty list (`load_limiter_impl.hpp` 66); a setting that is given twice
  is joined, not replaced.
* A query that gets an empty page asks for it for ever, and a deletion between two
  pages hides an object (`simplescim_scim_send.cpp` 687).
* A byte order mark before a header in quotes makes the file be refused
  (`csv_file.cpp` 147), as its comment says and `csv_tests.cpp` 129 expects; a mark that
  is the first character within the quotes is dropped like one of the file.
* With ids `$1$2`, as in `doc/USAGE.md`, two groups can have one id, and a user with
  two values of one id is listed twice as its member (`load_common.cpp` 79).

## Not modelled, and the plan

1. Proofs: which configurations have a load order as `LoadedIsWanted` and
   `EmploymentsAreDerived` need it; `VerifiedOnceIsEnough`.
2. The estimate of the cache file's size (`rendered_cache_file.cpp` 226), which
   needs sizes in bytes, and the index of an object list (`object_list.cpp` 22) with
   writers that change indexed attributes.
3. Names of national tests in Activities (`generated_load.cpp` 236-270, `dnpactivities.cpp`).

Left out of what is modelled: in `ProcessSessions` the Windows variant, directories
that cannot be removed, a grandchild that holds a pipe open; in `DataLoad` the
attribute values that relations copy, the multi-valued joins, cycles of LDAP
relations, and objects whose id is missing or badly formed; in `GeneratedGroups`
regular expressions other than two parts around a separator, hashes, which are
taken to be one to one, and the ends of `get_generated_activity` for want of a setting; in
`Templates` a bar before `for`, `switch` or `end`, and what is malformed but begins
with `${for`; in `ScimQuery` pages without resources while there should be more, with
which a query does not end (findings).

Left out for good: curl options, LDAP filters and SQL attribute access, the typed
getters of the configuration, the text of JSON, logging, the audit log,
`--print-cache`, the single generated Organisation (two settings copied), federation
metadata (no state, or only formatting), and the test server.
