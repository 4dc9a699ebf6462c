# SATRAP-DL in TLA+

SATRAP-DL loads cyber threat intelligence (CTI) in STIX 2.1 into a knowledge base, the *CTI SKB*, which is
a TypeDB database, and offers analyses over it.  This directory models setting the database up, extracting a
STIX source, transforming it into insert queries, loading the queries, and the analyses that compose the
answers of several queries.  Every definition is taken from the Python code and the TypeQL schema; `PROJECT.json` ("map")
names the lines.

## 1. Inventory of the system

| Component | State it keeps | Operations | Hard behaviour |
|---|---|---|---|
| CTI SKB (TypeDB server, `assets/schema/cti-skb-types.tql`) | databases, schema, data | sessions, transactions, `match … insert` | keys, snapshots, a commit that loses against another, a `match` without an answer inserts nothing and is no error |
| Database setup (`typedbmanager.py`, `exec_setup`) | none of its own; the SCHEMA session | contains, delete, create, define types, define rules | five separate calls, interrupted or interleaved with those of another process |
| Loading (`loader.py`, `inserthandler.py`, `ETLOrchestrator.load`) | position in the three lists, the open transaction | insert a batch, insert again query by query | roll-back of a whole batch, lost answers, crashes, other writers, a database that vanishes |
| ETL and transform commands (`commands.py`, `ETLOrchestrator.etl`, `transform_load`) | counts before and after, the local file | confirm, count, extract, transform, load, report | which exceptions end the command and which are only logged; two runs with one local file |
| Extraction (`extractor.py`, `file_utils.py`) | the local file | download, read, adapt objects | truncated files, answers that are neither ok nor an error, a generator that raises in the middle |
| Transformation (`transformer.py`, `stixobject_converter.py`, `valueconverter.py`, `query.py`, `stix_to_typedb_mapper.py`) | one `QueryBundle` per object, three lists of queries | create, main object, properties, extension, order | how much is lost when a value, a property, a type or an extension cannot be converted |
| TypeQL builder, data objects (`typeql_builder.py`, `dataobjects.py`) | a counter of variables, the clauses of a query | deal a variable, add a statement, build the text of a query | variables connect statements made in nested loops, some of which are discarded; printing a relation consumes one of its roles |
| CTI engine, TypeDB handler (`cti_engine.py`, `typedbhandler.py`) | a driver, a session | queries, explanations of inferences | a driver left open when opening or closing the session raises; each query reads in a transaction of its own |
| CTI analysis toolbox (`satrap_analysis.py`) | results of queries | techniques, usage, mitigations | the answer of one query is used in the next, while others load; selection with bounds, order and limit |
| Inference rules (`cti-skb-rules.tql`) | none | relations derived by TypeDB | what the fixpoint of the rules contains |
| Command line, settings, logging, containers, notebooks | configuration | parsing, printing | none |

How they interact: a command asks the server for a count, calls the orchestrator, and counts again.  The
orchestrator calls the extractor, hands what the extractor's generator yields to the transformer object by
object, and gives the three resulting lists to the loader.  The loader opens a driver for each list, and a
session and a transaction for each batch.  Setup works on the same database from another process; nothing
in the program coordinates the two, only the server does.

What makes each part correct:

* **Loading.** Every query is dealt with once, in the order entities, relationships, embedded relations; a
  rejected query costs nobody but itself; what can be stored is stored, however many processes load; a load
  ends; nothing is stored more often than it was acknowledged, but for a commit whose answer is lost.
* **Setup.** An incomplete schema is always due to an interruption; the schema lock has an owner; a reset
  repairs whatever was left.
* **Both together.** A load that is left alone is complete, whatever setups do before and after it; one whose
  database is replaced under it goes on with the new one and still stores what can be stored; a load never hangs.
* **Transformation.** A value that cannot be converted costs its property, an unusable object costs itself,
  nothing leaks from one object into another's queries, and only an object the extractor cannot adapt
  stops a file.
* **Analysis.** The rules derive what they are meant to; what is selected is all that belongs to the result;
  an answer composed of several queries is true of the database at the last of them; a call closes what it opened,
  unless opening or closing itself fails.
* **Commands.** A run that reports its end has loaded its own source, and the number it reports covers what
  it has stored.

`PROJECT.json` lists under "hazards" the places in the code where these can go wrong.

## 2. Modules

```
SKBStore ── BatchLoad ──┬── SKBSystem ── EtlCommand
   │            │       │
   │            └ implements LoadContract
   └────── DatabaseSetup┘
Transform ── TransformLoad ── (INSTANCE) BatchLoad
   └ implemented by InsertQueries
InferenceRules ── CTIAnalysis
```

The theorems are in `BatchLoadProofs`, `SKBSystemProofs` (of setups, and of loads and setups; extends that one),
`EtlCommandProofs` (extends the second), `TransformProofs`, `TransformLoadProofs` (extends `TransformProofs` and takes
`BatchLoadProofs` by INSTANCE), `InsertQueriesProofs` and `CTIAnalysisProofs`.  `SetLemmas` has what proofs
of the conversion and the analyses share: inductions over numbers, smallest elements, least closed sets.

* **SKBStore** is one database as seen through the driver, and *external*: a query is a model value with the
  keys it inserts (`Keys`: the `stix-id`, and the second keys of the schema, the name of a malware family and
  the level of a TLP marking), the keys its `match` clause needs (`Needs`), and whether TypeDB rejects it
  (`Refused`).  A transaction sees a snapshot and its own writes; a commit fails if another one has inserted
  one of its keys since.  Embedded relations have no key, so a second copy is possible: `copies` counts.
* **BatchLoad** is `ETLOrchestrator.load` with `TypeDBLoader.load` and the insert handler, for any number of
  processes.  `phase` is the list being loaded, `lo` the loop variable `i` of the batches, `sgl` the query of
  a failed batch being sent again (0 in a batch), `pos` the query of the transaction.  Each call to the server
  is an action, with a second one for the exception it may raise.  `aux_…` variables record the past and
  guard nothing: what became of each query, how many acknowledgements were lost, which database a load began on.
* **LoadContract** is what a load promises without batches: a query is settled (stored, unmatched, refused)
  exactly once and after everything in earlier lists; several may be settled at one moment.
* **DatabaseSetup** is `create_database` called by `setup` with or without `-d`; **SKBSystem** puts loads and
  setups on one server.
* **EtlCommand** adds the commands around the load: the counts, the local file, the exceptions.
* **Transform** is the conversion of a file.  An object is what the conversion depends on: whether it can be
  adapted, its class, whether its type is in the mapping, its properties by kind of conversion, and its
  extensions.  An insert query is the object it is for, the positions of the properties it holds, and the
  identifiers it matches on.  One property is one step, so that an object can fail half-way.  A value is good,
  `Invalid` (its converter raises `ValueError` or the mapper `MappingException`) or `Fatal` (`TypeError`).
* **InsertQueries** is the same conversion one level down: the queries consist of statements (entities and
  relations with a variable, the values they own, the ids they match, the variables that play their roles), and
  one element of a list, one value of a composite, one item of a dictionary is one step, as in the loops of
  `valueconverter.py`.  `local` is what the property has produced so far, which is in the `QueryBundle` only
  when its conversion returns.  `counter` is `VariableDealer.counter`.  `BuildTexts` is what `TypeDBLoader.load`
  does before it opens a session.  The module is shown to implement Transform: `AbstractContent` classifies the
  values by what their conversion raises, `AbstractBundle` and `AbstractLists` forget the statements.
* **TransformLoad** hands the three lists to an instance of BatchLoad, on an empty database, and says what a
  file becomes in the end.
* **InferenceRules** gives the three rules that queries depend on as operators, their fixpoint as TypeDB
  computes it, and what they are meant to derive as chains of uses and attributions.
* **CTIAnalysis** is a call of `CTIanalysisToolbox`, any of the twelve: `CTIEngine.__enter__` opens a driver
  and a session, each query is an action that reads the database as it is then, and `__exit__` closes the session
  (`CloseSession`) and then the driver (`CloseDriver`), each of which may raise instead.
  `AskSingle` stands for the calls that need one query.  Between two queries other processes commit objects
  and relations or reset the database; a session ends with its database.
* **MC…** modules give the constants values; an operator whose comment begins with "Mutant" is a plausible
  wrong version of the definition that follows it, used to see that the properties can fail.

## 3. Runs

| Run | Instance | What is asked | States |
|---|---|---|---|
| `load_one` | one process, 26 bundles with repeated identifiers, rejected objects, families sharing a name; batches of 2; 2 failures of the connection | types, phase order, nothing skipped, end, refinement of the contract | 20,997 |
| `load_two` | two processes, equal or overlapping bundles, 1 failure | refused for cause, complete, copies, refinement, where another writer matters | 60,155 |
| `system` | one load and two setups, each interruptible at any step | completeness, loads resumed on a recreated database, incomplete schema explained, lock owned, end, reset repairs | 227,563 |
| `etl_two` | two commands, two local files, a crash at any step | own source loaded, report covers the load | 618,164 |
| `etl_setup` | one command and one setup, 1 failure, an unreadable source | what a reported run may hide, end | 26,020 |
| `transform_load` | every file of at most 2 of 18 kinds of objects, of at most 3 of 15 of them, and four longer ones; batches of 2 | nothing lost but what failed, no leak, order, references kept, no trace of batches, file loaded | 110,139 |
| `queries` | every file of at most 2 of 13 objects with values of every kind, nested and failing at every place, and three longer ones | queries executable alone, texts whole, dictionary values kept, refinement of Transform and of its progress | 7,217 |
| `analysis` | 10 objects in 2 batches and 11 relations in 6, committed in any order; 17 calls; one reset | rules against chains, selection, composed answers, drivers, end | 375,076 |

What `system` says of a load whose database is replaced: `LoadComplete` is about a load left alone, `LoadResumes` about the
other kind.  A batch that breaks off because its database is gone is sent again query by query to the database
there is then, so that from the moment its schema is defined every pending query whose ends are stored gets in, unless the load
stops with an error or the database is deleted once more.  A query that was being sent alone at that moment is excepted, as the
code does not send it a third time.

Bounds.  Batches of two queries and lists of up to four give full, short and empty batches, a failing query
at either end of a batch, and a retry that is not the last thing to happen.  Two connection failures allow a
failure during the retry of a failure.  Two loads suffice for every conflict at a commit, which is between
one transaction and what was committed since its snapshot.
Three objects of a file are an object, one it refers to, and one that fails between them; longer files in
`transform_load` are there for a relationship that is itself the target of a reference, which needs four.
In `queries` objects meet only through the counter and through references, so that two of a file suffice; object
`c` has a dictionary for every item of at most two JSON values, and the objects that fail do so at each kind of
value, after good values of the same property.
The relations of `analysis` hold a chain of two uses, one that an unnamed malware breaks, an attribution, and
a technique in two versions, so that counts of 0, 1 and 2 occur with and without the rules; one reset is
enough to replace the database of an open session.  `MaxDrivers` stops calls once that many drivers are leaked.
`CHECK_DEADLOCK FALSE` everywhere: the program ends.

Fairness.  `WF` of a process's own steps: a process that waits for nobody goes on.  Failures, crashes, user
input and the start of a command have none.  In `CTIAnalysis` the exceptions of opening and closing have none either, apart
from that of a session on a database that is gone; `CloseSession` and `CloseDriver` are steps of the process itself.  A setup that opens its schema session waits for open write
transactions: its fairness is that of the steps this allows.  No strong fairness is used: the server answers or raises.
`TransformSpec`, `QueriesSpec` and `PipelineSpec` are sequential programs whose every step is internal.

### Disagreements with the documentation

Four runs are expected to find a violation; each checks a sentence of the repository.

* `etl_no_objects`: a STIX file without objects raises `UnboundLocalError` instead of the documented
  `ExtractionError` (`extractor.py:235` uses the name of an exception outside its `except`).
* `etl_status`: `download_file` is documented to raise for every status but 200.  After a 204 it writes
  nothing and returns, and the run loads what its local file held before.
* `transform_extension`: a value that cannot be converted in an extension drops the whole object: the handler
  formats a message without two of its fields, which raises `KeyError`; SWD-005 says the step works like that
  of ordinary properties.
* `load_versions`: of two versions of an object in one file the second is refused by its key, but its embedded
  relations are stored and so belong to the first.  SRS-007 names preventing contradictory data as the purpose of the
  integrity that the data model has to enforce: the key refuses the object, and nothing refuses its relations.

Met while modelling and stated in the properties that hold: `etl` logs a `ValueError`, although it documents
to raise it, and the command then reports a finished run (`ReportedRunIsLoaded` lists the cases); loading a
file again, or again after a lost answer, adds a second copy of each embedded relation (`CopiesAccounted`
bounds the copies by the loads that were acknowledged).  Of the converters (`InsertQueries`):

* A null behind a number or a timestamp in a list of a dictionary raises `TypeError`, where
  `valueconverter.py:20-27` documents `ValueError`; `create_typeql_property` does not catch it, so that the
  object is lost and not the property (`ConvertPropertyRaises`, `DropObject`).
* A dictionary of an object is lost as a whole if one of its values is a float, a timestamp or a null: there are
  item types for integers and strings only.
* A boolean in a dictionary is stored as a number; in a list that begins with a number, floats and numerals are
  truncated to integers (`DictionariesKept` states what is kept).
* The text of a query can be built only once: `build_all_roles` takes the last role out of the relation.

Of the analyses (`CTIAnalysis`):

* `techniques_usage` raises, and does not return an empty list, when the bounds leave no technique: the query
  for the names of no ids has an empty pattern (`AskNamesRaises`).  A bound of 0 is no bound.
* A count is one of pairs of names: with revoked versions included, a group that uses a technique under two
  names counts twice, although `cti_engine.py:252` says "number of intrusion sets"; and revoked groups count.
  The name given for a technique may be that of any object with its id (`NamesOf`).
* The rules ask for names, so that `transitive-use` derives nothing through a malware without a name, which
  the comment above it does not say; `InferredUsesAreChains` is stated with that condition.
* `TypeDBHandler` leaves its driver open when the session cannot be opened, for want of the database or of a
  connection (`OpenSessionRaises`), and the exception is that of the driver, not the `SatrapError` that
  `CTIEngine.__enter__` documents.
* `TypeDBHandler.close` calls `session.close()` and then `driver.close()` without `try … finally`: if the first raises,
  as when the server is gone, the driver is never closed, and the exception takes the place of the result of the call
  (`CloseSessionRaises`, `CloseDriverRaises`).  `DriversAccounted` therefore promises a driver closed only to calls that
  do not end with an exception of the driver, and to those that do, that they leave no more than their own.

## 4. Proofs

The first part of `SKBSystemProofs` proves for any number of setups, interrupted anywhere:

* `SetupInvariant`, the inductive invariant, and from it `LockIsOwnedCorrect` and `IncompleteExplainedCorrect`.

It needs no assumption but those of `SKBStore`.  `IncompleteExplained` is too weak to be preserved: a setup
about to create or delete explains an incomplete database as the property states it, but may fail at its next
step because another one was faster.  The invariant names the setups that can really repair it: one whose
session is open on this very database, one about to open it, or one that was interrupted.  It also needs that no session is open on a
database yet to be created.

`BatchLoadProofs` proves for every set of queries and bundles, every batch size, any number of processes and
of failures:

* `TypeCorrect`: `Spec => []TypeOK`;
* `LoadInvariant`: the inductive invariant;
* `NothingSkippedCorrect` and `PhaseOrderCorrect`.

The assumptions are those of the module constants (`SKBStore`, `BatchLoad`): a batch size of at least one, bundles of three
lists without a query twice, `Keys` and `Needs` of the right type.  `TypeOK` is not inductive as it stands:
that the query at the cursor exists needs bounds on `lo`, `sgl` and `pos` by the state of the process.  The
invariant adds them, and for the safety properties relates the verdicts to the cursor: the queries of the
current list before the cursor have a verdict, those after it and those of later lists have none, and the
transaction's staged and unmatched queries are exactly those between the start of the slice and `pos`.  Each
action then moves cursor and verdicts by the same amount; `Retry`, which moves back to single queries,
settles nothing.  The proof has one step for each action.

Its second part is `ImplementsContractCorrect`, `Spec => ImplementsContract`.  `StepMapped` maps each action:
an insert call that ends well is `Store`, one that fails is `Refuse` or, with the connection, `Disturb`, or is
invisible because its queries are sent again; giving up is `Stop`; all else stutters.  Two facts make it work.  By
the ledger above, the queries of a transaction are still pending and those of earlier lists are not
(`CurrentTurn`, `StagedPending`).  And what was in the snapshot is still in the database, each staged query
refers to that or to a query staged before it, and no two staged queries share a key (`Founded`), so that
the commit of a batch as a whole can be seen as the storing of a set of queries.

The third part says what a load leaves behind:

* `RefusedForCauseCorrect` and `LoadCompleteCorrect`, from the invariant `Justified` (as long as no connection
  fails, every verdict is explained by the database as it is now) and `Snapshot` (a transaction of a later list
  sees all that can be loaded of the earlier ones).  The second is what makes the order of the lists matter: without
  it a relation could be found unmatched although its ends come in the same bundle.
* `CopiesAccountedCorrect`: a query that is stored was pending, so that the load joins those that count it as
  stored at the step that adds the copy.  It uses that there are finitely many processes.

The last part is about a load that is alone and whose connection does not fail: `SoleLoadInSequence` says that it stores what
executing its queries one by one would store.  `SoleInv` states this of the queries that have been settled
(`Settling`) and, of those a transaction has seen, that one is staged exactly if it fits what was stored before the batch
and what was staged before it (`StagedInTurn`).  All that is stored comes from queries before the cursor (`StoredBefore`),
so the snapshot of a batch is what its first query would find (`KeysInBatch`); a query that is refused is refused alone and
does not fit (`SoleRefused`); and the commit itself cannot fail.

`SKBSystemProofs`, for any number of loads and setups on one server: `SystemTypeCorrect`, `SystemLoadCompleteCorrect`,
`SystemLockIsOwnedCorrect` and `SystemIncompleteExplainedCorrect`.  `SystemInv` joins the invariants of loads and of
setups (`FrameInv` and `SetupStutterKeeps` say that one side does not disturb the other's) with `Outcome`, which is demanded
only of a load that is still on the database it began with: its verdicts are justified, and its transaction's snapshot
is still in the database.  A step of a setup either keeps all data, or deletes them together with the database, or creates
a database with a new number (`SetupCases`).  As a load begins on a number that exists (`HomesAreOld`), the last two end
`Undisturbed` for good, so that no setup can take from a load what its outcome rests on and leave it in force.

`EtlCommandProofs`, for any number of commands beside any number of setups: `EtlTypeCorrect`, `LoadsOwnSourceCorrect`,
`ReportCoversLoadCorrect` and `ReportedRunIsLoadedCorrect`.  To the assumptions above they add that there are
finitely many queries (the instances are counted), and at least one source and one file name.  `CommandIsLoad`
says that a command does nothing to the server but one step of its load, so that `SystemInv` carries over.
`FileInv`: two commands that share a file share it for good (`OwnTargetBefore`), and a command that shares it with
nobody finds there what it wrote.  `ReportInv`: as long as the database is the one counted first, the instances have
grown by at least what the own load counts as stored, since a commit adds one instance for every query it adds to
those (`InstancesGrow`, `CountsGrow`); and a load is rejected only when the database is gone, so that the second
count succeeds only on a database created since.

`TransformProofs`, for every mapping and every file of distinct objects: `TransformTypeCorrect` and `MainBeforeEmbeddedCorrect`.
`BundleInv` follows the list a bundle's main object goes to: it is settled before the first property is
converted, and a bundle that never gets one reaches `order_bundle` empty, so that embedded relations always have a
main query (`ListsOrder`).  An object that is skipped leaves its place in the file unused (`ListsKept`).

`CTIAnalysisProofs`: `DriversAccountedCorrect` and `AnalysisTypeCorrect`, for every knowledge base, calls and number of resets.
The assumptions are those of `InferenceRules` and `CTIAnalysis`: finitely many objects and ATT&CK ids (what is found is put in
some order), and an integer as `limit` of a usage call.  `Counting` adds to the first property where the call
stands: from the moment it has a driver to the moment it closes it, exactly one more is open than before the call; `ResultsOK` and `CallOK` add to the types which results exist before which query.

`InferredUsesAreChainsCorrect` compares two fixpoints: the rules, applied as often as TypeDB applies them, and the chains.
Both are iterated by a recursive function, and both are shown to reach the least set closed under their step
(`LeastIterates`: an iteration that only adds has reached it after as many steps as there can be elements).  Then each
side is closed under the steps of the other (`InferredHaveChains`, `NamedChainsAreInferred`).

`RowsSelectedCorrect` follows the rows of `techniques_usage` through selection, sorting and cutting (`SelectionIsRight`)
and through the query for the names, which leaves out a technique without one.  `AnswersTrueOnReturnCorrect` rests on
`AnswersInv`: as long as the session is open, what an earlier query has answered is still true, because others only add to the
database (`DatabaseGrows`), and a reset ends the session, so that the next query raises (`SessionsPast`).

`TransformProofs` has a third theorem, `TranslatedSoFarCorrect`.  `ConvertedInv` says that the bundle holds what the properties
before `prop` give, that none of them has raised, and that an object before its first property has collected
nothing.  What the lists hold of the file up to `next` is a recursive function of its length, unfolded by one at
each object (`OneMore`), also where the object is lost (`TranslatedSkip`).

`TransformLoadProofs`, for every mapping, file, batch size and keys: `FileRepresentedCorrect` and `ReferencesKeptCorrect`,
the two results about the whole way from a file to the database.  `PipelineInv` joins the invariant behind
`TranslatedSoFar` with `SoleInv` of the instance of `BatchLoad`, whose assumptions hold of the translation of a file:
its queries are of the right types (`QueryTypes`) and none occurs twice (`TranslationDistinct`), as different objects give
different queries (`QueriesOfFile`, an induction over the file).  `InOrderPlaces` finds the place of a query in the
three lists put one after the other.  References are kept because the keys of an accepted object are free when its turn comes
(`KeysFree`), so that entities, then relationships, then embedded relations fit one after the other
(`EntityStored`, `RelationFound`).

`InsertQueriesProofs`, for every content however nested: `QueriesTypeCorrect` and `QueriesSelfContainedCorrect`.  The types need
`LoopInv`, which says where the loops can be: a composite value under construction, and something produced by a
property, only in the middle of a property.  That a query declares each variable once is an invariant of
more than the lists: of all that the current object has produced so far, `Named` says that a variable stands for one thing,
of one part, and is below `counter`; `PlayedInv` says that what a relation refers to is in the same query or, for a
pair within a composite value, is the value that is still being built.  A property that fails half-way takes its things with it and leaves the counter where it is.  The variables of the role players
are numbered by the size of an initial segment, which makes them distinct (`PlayerVariables`).  Printing takes
roles away and so keeps the property (`PrintedSelfContained`).

The second part of the module is `ImplementsTransformCorrect`: every step of `InsertQueries` is a step of `Transform`, of
its classified content, or a stutter (`AbstractNext`, with one lemma for each action).  Two invariants make it
work.  `LocalInv` follows the loops: the elements before `elem` and the values before `leaf` have been converted, so
that the first that fails is the one on which `Transform` decides between a lost property and a lost object
(`FailureIsAbstract`); and `local` has something, all of it at the position of the property, as soon as one element is
through (`Produced`).  `MainInv` says that every embedded relation is inserted between two things the query matches, the
object by its own id and the target (`Ends`), so that the query has links exactly if it has relations (`LinkEnds`).
`PropertyDone` then adds to the abstract bundle what `Extend` adds at once (`ExtendedBundle`), and everything the loops
do before is invisible (`LoopsStutter`).  The refinement needs that a rejected value, a fatal one and an id are three
different things, which `InsertQueriesAssumption` says.

The last part of the module is `TextsWholeCorrect` and `DictionariesKeptCorrect`: what the text of a query says, compared with
the content of its object alone.  Neither is inductive, as both speak of texts only.  `TextsInv` says the same of everything
on the way there, as far as the conversion has come: of what the loops have in hand in the middle of a property
(`LocalWhole`), of the bundle after the properties before `prop` (`BundleWhole`), of the lists that have not been printed yet
(`ListsWhole`) and of the texts.  At each stage there is a set of places of the content, and the things are `Exact` for it
(for every place one value and one relation, and nothing else), `Connected` to their owners, and own what the leaves and items at their
place give (`Filled`).  Each step of a loop adds one place (`Grows`) and the two things made for it; a composite value has its
place, and is an owner of pairs, only when it is complete; a property that is through adds its places to those before it
(`BeforeConverted`), and one that fails has none (`BeforeFailed`), which is why it must take all of its things along.  The
role players of a relation need the two numberings of the relationship converter, by role and by variable, to agree (`RolesOfNumber`,
`RolePlayersMatched`).  The numbers of helpers and of embedded relations follow from one bijection (`OneEach`, with
`PlacesFinite`), the ids at the ends of an embedded relation from `Named` (`IdsMatched`).  Printing spoils the lists: `ListsWhole` is
true only of those after the last text, which is enough as each list is printed once (`TextsKeepLists`).

Only model-checked: liveness (`LoadEnds`, `LoadAlwaysEnds`, `LoadResumes`, `ResetRepairs`, `CommandEnds`, `EndsOrRaises`, `FileLoaded`,
`CallEnds` and `KeepsUpWithTransform`, that the loops come to an end as the steps of `Transform` do), which is out of the
prover's reach, and the four properties that the code does not have, of which TLC shows a counterexample.  Every
other property of the runs is proved.

## 5. What is left out, and the plan

Abstracted: the characters of TypeQL, names and values of attributes and the type hierarchy (to a load an insert
query is known by its keys and needs); objects and lists nested in the items of a dictionary, which no item
type can hold; numbers outside the range of `int`; the name a custom relationship gets as an attribute; default timestamps; the
MISP extractor (`extractor.py:250-282`), which searches events and writes their bundle to a file as the downloader writes its
answer, but through another library; validation of arguments; logging.  The server's isolation is stated as the code relies on it and is not verified.  Of the analyses, the
names and values in an answer, the content of explanations, and `related-to` relations that are stored rather than
derived are left out.  Not modelled: argument parsing, printing, settings, containers, notebooks.

What could be added next: a second ETL run in `TransformLoad`, so that what a
first file left in the database meets the references of a second one; the server's own crash and restart, of which the
code knows nothing but the exception its calls raise.
