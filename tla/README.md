# A verification project for lensix-inventory

`lensix-inventory` reads a customer's AWS, Azure or GCP account with about a
hundred *gather functions*, collects what they find in one `InventoryWriter`
and writes one gzipped NDJSON file, which a person or `docker-entrypoint.sh`
uploads. These modules say what that program does, step by step, check it
with TLC on small instances, and prove the results that matter most for every
instance with TLAPS.

What may go wrong in such a program is rarely one wrong value. It is a call that
fails in the middle, an exception that reaches one `try` too far, a resource
that was to be left out and is not, a file that is not all there, a run that
finds what an earlier one left. The properties are about those.

## 1. Inventory of the system

| Component | State it keeps | Operations | What makes it correct |
|---|---|---|---|
| `InventoryWriter` (`common/output.py`) | records, counts per type, regions seen, errors, tag suppressions, edges; the file | `add_resource`, `add_edge`, `add_error`, `write` | totals are those of the records; both accounts of a suppression agree; a file that is not complete can be told from one that is |
| Tag suppression (`common/output.py`) | none | `_normalize_tags`, `parse_tag_suppression` | what an owner wrote has the same effect in every shape and spelling in which it may arrive |
| Gather functions (`aws/*.py`, `azure/*.py`, `gcp/*.py`) | the lists and lookups of one call; `lambda_.py` also two caches | list, look up, `add_resource`, `add_edge`, `add_error` | a failure costs what it must and no more, and is told; edges lead from and to what is recorded; nothing is recorded twice; what is suppressed is not recorded |
| `parallel_map` (`common/concurrency.py`) | a pool of threads, a queue, futures | submit, run, take, cancel, join | it is the serial list; no thread outlives it; it ends |
| Orchestration (`cli.py`, `*/__init__.py`, `*/session.py`) | the writer, the position in regions and modules, the exit code | load, authenticate, choose regions, call each gather function, write, summarise | exit code 0 means a complete file; each failure of a module is reported and costs that module only; a run cut short leaves the earlier file alone; it ends |
| Upload job (`docker-entrypoint.sh`) | the file at `/tmp`, exit code and HTTP status | gather, check, POST, check, remove | the server holds whole inventories, and never an older one than before |
| Credential report (`common/credential_report.py`) | at AWS: one report per account | generate, poll | a report somebody else is generating is no failure; the wait is bounded |
| Local runner (`run.sh`) | `.venv/` and a marker per provider | create, activate, install, mark, run | a run that was interrupted is repaired by the next; no run gathers from an installation another run left half done |
| Secret scanning (`common/secrets.py`) and redaction | none | pure functions on text | (unit tests) |

How they interact: `main()` loads a provider and calls its `run()`; `run()`
makes the one `InventoryWriter` and passes it to each gather function in turn
inside a `try`; a gather function makes SDK calls and calls the writer, always
from one thread, with `parallel_map` around lookups that do not touch the
writer; `run()` returns the writer, and `main()` has it write the file.
`docker-entrypoint.sh` sees an exit code and a path. Gather functions of one run
share nothing but the writer and the account, which is where `gcp/iam.py` and
`gcp/logging.py`, and the five modules that resolve networks, meet.

Hard behaviours: every SDK call may fail, in one item of one loop of one module;
the process may be killed at any point; `write()` is not atomic; threads
complete in any order and one of them may raise; the container may be started
again with the files of a run that failed; the response to an upload may be
lost; runs share a virtual environment, and an account's credential report.
`PROJECT.json` lists each under "hazards" with its line.

## 2. The modules

```
 TagSuppression    InventoryWriter     GatherLanguage         OrderedMap
          \         /     |    \         |       |             ^ refines
         TaggedWriter     |   GatherModule    AwsGatherers    ParallelMap
              |           |        |          AzureGatherers
              |           |   GatherForms   GcpGatherers
   MCInventoryWriter      |        |         |
                          |     MCGather ----+
                     ProviderRun --refines--> RunContract <-- relied on by UploadJob
                          |
                    MCProviderRun         Runner, MCRunner
                                          CredentialReport, MCCredentialReport
 proofs: InventoryWriterProofs (used by the next three), TaggedWriterProofs,
         GatherProofs, ProviderRunProofs, ParallelMapProofs, UploadJobProofs,
         RunnerProofs, CredentialReportProofs
```

* **InventoryWriter** — the object and the file. One variable per attribute
  (`records` is `_records`, and so on) plus `file` and `phase`, where `write()`
  stands. Each method is an action that takes the method's arguments, so that
  the modules around it use the same ones; `write()` is four actions
  (`WriteOpen`, `WriteLine`, `WriteClose`, `WriteFail`), because it may fail
  between any two of them. Of a resource's payload only the suppressed check ids
  are kept, the one part the writer itself changes.
* **TagSuppression, TaggedWriter** — the two parsing functions as operators on
  tags in every shape (nothing, a dict, lists under three pairs of field names),
  and the writer whose `add_resource` is given such tags. Beside the tags
  the model keeps what their writer wished (`wishes`), and the property compares
  the two ends of the chain. A text is the sequence of the words between its
  hyphens; `strip` and `lower` are functions on words.
* **GatherLanguage** — the statements gather functions are made of: loops over
  a list call, lookups, `add_resource`, edges, `try`; each call with what the
  code does when it fails (raise, report and go on, report and skip, report and
  return, silently go on, silently skip), each list call with its paging (all
  pages, one page only, a fallback that starts again), each edge with where its
  other end comes from (the payload, a map of what was listed, the item of the
  outer loop if that was recorded).
* **AwsGatherers, AzureGatherers, GcpGatherers** — the 46, 36 and 17 gather
  functions in these statements, one definition each (the large ones in parts).
  This is where fidelity counts: order, nesting, and what is and is not inside a
  `try` are those of the source; comments say what looks odd and is so in the
  code.
* **GatherModule** — the machine that runs one of them, or several in a row with
  one writer. `todo` is what is left to run; an exception drops frames up to
  the innermost `except` mark, and the last mark is the `try` of `run()`. The list
  calls return any number of resources with any tags; every call may fail; an
  edge leads to any resource. `Statements` and `ProgramAssumption` say what a
  program may be; TLC evaluates that for all programs on every run.
* **GatherForms** — what a gather function may look like: where its statements
  stand and what they do when a call fails. Each form is a condition on the
  statements of a program at any depth, stated without recursion as one on sets
  of statements that are closed under nesting. The theorems about gather
  functions are about forms; `MCGather` computes the sets for each program and
  TLC evaluates, in `FormsAssumption`, that each function has the forms that the
  theorems claimed of it ask for.
* **ProviderRun** — `main()` around `run()`. A gather function is any sequence of
  writer calls here, ended by return or exception. The process may be killed in
  any state; of a file that is being written a prefix is then on the disk.
* **RunContract** — what a caller may rely on: an exit code of 0 means that the
  whole inventory is at the output path. `ProviderRun` implements it under a
  refinement mapping from exit code and file.
* **UploadJob** — the shell script, invoked `MaxRuns` times. The program is
  what `RunContract` promises; the server (external) takes one upload in five
  minutes and refuses others, and any response may be lost.
* **OrderedMap / ParallelMap** — `[fn(i) for i in items]`, and the thread pool
  that implements it: submission, a FIFO queue, threads, the caller that takes
  results in order, cancellation from the far end of the queue when a call
  raised, and the join at the end of the `with`. The internals of
  `ThreadPoolExecutor` are external.
* **CredentialReport** — generate and poll, for several runs of two fetches each
  on one account. IAM (external) refuses a second generation, may refuse any
  call and may never finish.
* **Runner** — `run.sh` command by command, one run per provider at a time in one
  `.venv/`, started again and again; any command may fail or be interrupted,
  and the repository may be updated between runs. `venv` and `pip` (external)
  write what is looked for last, and package by package.

Definitions introduced by a comment that begins with "Slip" are not part of the
specification: each is an action as a plausible mistake would have it, and
"mutants" in `PROJECT.json` names the property that tells it from the code.

## 3. What is checked

| Run | Asks | Bounds, and why they are enough |
|---|---|---|
| `writer` | any calls in any order, tags in every shape the SDKs and every spelling the README allows, then `write()` failing anywhere | 3 entries of all kinds: two resources and an edge or error are enough to confuse an order, a total or a kind of line; two check ids, texts with capitals, empty words, a repeated id and blanks beside an id (of which the README says nothing; blanks beside `true` are run `tag_blanks`) |
| `gather` | all 99 gather functions, and `gcp/vpc` after each of the four modules that look its networks up and are called before it (`vpcaccess`, called after it, is run alone only): edges, suppression, duplicates, reach and report of a failure | 4 events (resources listed, calls failed, edges): a suppressed resource, a recorded one, a failure and an edge together, in every order a function allows |
| `provider_run` | exit code, file and error entries of one execution; the refinement | one provider with regions (2 regional modules, 1 global one, up to 2 regions, a region named twice) and one without; 2 writer entries |
| `upload_job` | what the server stores over several invocations | 4 invocations: one that succeeds, one that leaves a file, one refused or unanswered, one after it |
| `parallel_map` | order, exceptions, threads, end | 4 items on 2 threads: fewer threads than items, and two items beyond them, so that some are cancelled and some are not |
| `credential_report` | what a fetch makes of a busy, refusing or endless service | 2 runs, 2 fetches each, all 15 polls: both of one run, and one of each, compete for the report |
| `runner` | what a gather finds installed; recovery | 2 providers with one package in common, one update, 2 faults: an interruption of one run and of its repetition, or of two runs at once |

`CHECK_DEADLOCK FALSE` stands wherever the system ends: a gather function
returns, a process exits, the container stops, the fetches are over. `runner`
does not end and is checked for deadlock.

### Of which gather function each property holds

`MCClaims` names, for eight of the gather properties, the functions they are
claimed of. A function is left out where the code does something else on purpose
or where no document promises the property of it; where a document does, it has a
run of its own below.

| Property | Not claimed of | Because |
|---|---|---|
| `EdgeOwnersRecorded`, `EdgesFromRecorded` | `azure/vm` | `rsv.py` adds the edges of backup vaults before the loop that records or suppresses the machines |
| `EdgesFromRecorded` | `aws/vpc` | see `vpc_subnet_edge` |
| `UniqueRecords` | `aws/account`, `aws/msk`, `aws/apigateway` | log groups of several trails; a fallback that starts from the first page; custom domains that both versions of the API list, recorded with one type and by name |
| `UniqueRecords` | `gcp/gke`, `gcp/vpc` after it | a resource's number stands for its id in the models, and the id of a cluster is its bare name, which two locations may both use |
| `LossIsExplained` | `aws/account`, `account_global`, `ebs` | lists and descriptions that fail silently; see `account_silent_lists` |
| `NoSilentLoss` | these and `gcp/iam`, `gcp/logging` | one page asked for, `nextPageToken` not looked at |
| `SectionsIsolated` | all without a sentence that promises it | a `gather()` with one `try`, or none, may rely on that of `run()` |
| `NetworkEdgesLand` | all but `gcp/vpc` | the others look networks up by themselves; `DanglingExplained` says what holds of them |

`GatherTypeOK`, `ParentEdgesLand`, `SuppressedUnlessUnread` and `LossIsConfined`
are claimed of all.

### Fairness

Safety assumes none. `ProviderRun` assumes weak fairness of the program's own
steps, not of kills: the SDKs bound the duration and the retries of a call, and
every loop of a gather function is over what a call returned. `ParallelMap`
assumes it of the caller, of the pool (a thread that is idle takes a queued item)
and of each call of `fn`. `CredentialReport` assumes that each call of a run
returns, and nothing of the generation: the bound on the polls is what ends the
fetch. `Runner` assumes that a command that is running goes on and that a user or
cron starts the script again; its faults are finitely many, as interruptions
that never cease excuse everything. Nothing is assumed of the upload, for curl
is started without `--max-time`, and no property there says "eventually".

### Where the code and its documentation disagree

Five runs end with a counterexample on purpose; each checks a sentence of the
repository against the code that does not follow it ("findings"):

* `vpc_subnet_edge` — the edge from a subnet to its route table is not guarded
  by the subnet's own `add_resource()` (`aws/vpc.py:187`), contrary to
  `add_edge`'s docstring. `azure/vm.py` does the same in another way: it has `rsv.py`
  add the edges of every backup vault (`azure/rsv.py:95`), also of one that was
  suppressed when `rsv.py` handed it over.
* `ec2_isolation` — independent calls that the comments say are isolated, and are
  not (`aws/ec2.py:152`; `aws/lb.py:212` in the same way).
* `lambda_tag_lookup` — a resource tagged `lensix-suppress=true` is recorded
  when the separate call for its tags fails, contrary to the README. The same
  holds wherever `AwsGatherers` says `FetchTags("silent")`. What does hold, as
  `gather` shows and `SuppressionEffective` proves, is that this is the only way.
* `account_silent_lists` — list calls of `account.py` that fail leave no error
  entry, and the summary then says that every resource type was read.
* `tag_blanks` — `true` between blanks suppresses a resource (`output.py:162` strips
  it); the README says that only exactly `true`, in any case, does.

Seen while modelling. The first contradicts the comments of both modules and
follows from their models, without a run of its own; of the others no sentence is
contradicted or the sentence is general:

* `gcp/iam.py:72-79` and `gcp/logging.py:205-215` both record the project's IAM policy
  with one id and the same writer, so a full run has it twice; `iam.py:24-26` and
  `logging.py:26-29` say that there is one record. `IamPolicy` in `GcpGatherers` is
  the section that both have. `UniqueRecords` is claimed of each of them alone.
* An interrupted `python -m venv` leaves a `.venv/` that `run.sh` takes for a
  complete one: every later run ends at `source`. `RunsRecover` excepts exactly
  this, against README.md:42-45 in spirit.
* The marker of `run.sh` does not say for which requirements it stands; after an
  update that adds a package pip is not run again.
* `workspaces.py`, `containerapps.py` and `conditionalaccess.py` report a failed
  call under the plain name of their module, as `run()` does when the module
  raises. `EveryFailureReported` therefore says "at least one entry" for them and
  "exactly one" for the others.
* gcp's edges to networks that vanish between two list calls, and azure's edges from
  vaults whose own list call failed, name resources that are not in the inventory.

## 4. What is proved

TLC's instances bound the number of entries, events, invocations, items, runs and
threads. The theorems do not, and assume of the constants only what the named
`ASSUME` of each module says.

* **InventoryWriterProofs** — `WriterTypeCorrect`, `TotalsCorrect`,
  `WriteCorrect`, `TruncationShows`. The totals need no strengthening beyond the
  types: appending one record adds one index to the set of those with its type
  and none to any other, and cardinality follows. The two about the file are
  not inductive: `WriteInv` adds that whatever this run wrote is a prefix of
  `AllLines` under a manifest that counts all of them. `TruncationShows` then
  counts the kinds of line in a prefix: it has as many of each as the whole only
  when it is the whole. `SuppressionsTold`: the suppressions that the manifest
  tells of are those its records carry, in the same order: there is a one-to-one
  map that keeps the order between the positions of the two that matter
  (`SameInOrder`), and each call of `add_resource` adds one position to both or to
  neither. All is stated of `AnyCall`, any use of the interface,
  so that the modules that extend the writer inherit it.
* **TaggedWriterProofs** — `ShapesNormalized`: the shape in which tags arrive, and
  the order of a list, make no difference, for any tags. Hence
  `TaggedImplementsWriter`, by which the theorems above hold of the
  specification that run `writer` checks. `WishesKept`: what is recorded and told
  is what the owners wished, in the order it came, for any number of resources.
  Its hypothesis `WrittenAsWished` is that `parse_tag_suppression` reads each way
  of writing a wish as that wish, which is a finite matter and which TLC evaluates
  for all the ways of writing of run `writer`; of `tag_blanks` it does not hold.
* **GatherProofs** — of *every* gather function that is well formed from the
  statements, not only of the 99: `GatherTypeCorrect`, `SuppressionEffective`,
  `GatherTotals`. `SuppressedUnlessUnread` says nothing of the items still to be
  worked on, so `GatherInv` does: what is left to run ends with the mark of
  `run()`'s `try` and is about listed resources; these are numbered without a
  gap, which makes a newly listed one new; two listed items with one number have
  the same tags; and every recorded id has an item whose tags do not suppress it
  or could not be read. The lemma behind exceptions, `MarkFound`, is that control
  that leaves always finds a mark. `GathersAsRunExpects` and `RaisedOnce` join this
  machine to `ProviderRun`, which has a gather function make any calls of the writer
  and then return or raise: each step is one of those, in the region of the call, and
  the entry of `run()` is the last. `CallInv` says why: the mark of `run()`'s `try` is
  the last frame as long as there is one, and no other mark has its name. The other
  theorems are of the functions of a form; they are the next section.
* **ProviderRunProofs** — `RunTypeCorrect`, `ZeroIsComplete`, `EarlierFileStays`,
  `FailuresAreReported`, `ContractKept`. `ControlInv` relates where `main()`
  stands to the phase of the write and to the number of modules tried; the count of
  error entries grows with that of failures, entry by entry. `ContractKept` is
  the safety half of the refinement, one step of `RunContract` or a stutter for
  each action.
* **UploadJobProofs** — `JobTypeCorrect`, `StoredWhole`, `ZeroRefreshed`,
  `RefreshIsNewer`, `GathersByContract`, `ContractSuffices`. `JobInv` adds that no
  stored inventory is of a later run than the current one, that from the moment the exit
  code was looked at the file at the path is this run's and whole, and that a response
  of 2xx means that the server holds it. The other two join the job to `RunContract`:
  `GathersByContract` says that what the script sees of the program is what the contract
  allows, `ContractSuffices` that the job assumes no more, every step that the contract
  allows being one of the job. Together with `ContractKept` the results about the server
  are thus results about the program that `ProviderRun` models.
* **ParallelMapProofs** — `MapTypeCorrect`, `NoThreadOutlives` and
  `MapIsOrdered`, the refinement. `MapInv` adds what a future's state says about
  its call, that a caller that cancels does so because the next item in order
  raised, and that after the end no future is queued or running. The bound on
  busy threads is a second invariant, about cardinalities.
* **CredentialReportProofs** — `CredentialTypeCorrect`, `BusyFailsNobody`, for any
  number of runs and fetches.
* **RunnerProofs** — `RunnerTypeCorrect`, `DependenciesThere`. `MarkerInv` is that
  a marker stands only for packages that are installed, which no run takes away.

### Gather functions of a form

Most gather properties hold of some functions and not of others. For each, a form
in `GatherForms` says *why* it holds where it does, the theorem says that the form
suffices, for any program that has it, any account, any calls that fail and any
number of events, and `FormsAssumption` that the functions in `MCClaims` have it.
The hypotheses of the theorems are those assumptions, so that they are evaluated for
every program on every run of `MCGather`.

| Theorem | Form | The invariant it needs |
|---|---|---|
| `OwnersRecorded`, `FromRecorded` | `EdgesUnderAdd`: edges are derived only inside `if writer.add_resource(...)`, and not in a loop in there; `EdgesFromSelf` | frames from in there stand in `todo` only for an item that is recorded |
| `NetworksLand` | `NetworksResolved`: an edge to a network goes to one found among the recorded | records only grow |
| `ParentsLand` | `Fits`, `ParentsFound`, `Inherits`: the parent is looked up among the recorded, or its tags are those that decide over the child | the statement and the item of every frame fit; an heir is listed only after its parent was handed over, and has its tags |
| `LossTold` | `ListsTold`: no list call fails silently or reads one page | entries grow with the list calls that failed |
| `SectionsApart` | `RaisesInTry` | a frame that may raise has a mark of a `try` below it |
| `LossConfined` | `Careful`: every list is handed over in its loop or in a second one; `return` stands where nothing was listed yet; inside a `try` nothing raises ahead of what is still to be handed over; what may be listed twice has no tags, or comes with them | every listed resource is accounted for: recorded, suppressed, or pending, that is, some frame left will hand it over, and nothing in front of that frame can drop it without leaving a fault in its section |
| `LossExplained` | `Careful` and `TellsOfItems`: no failure that costs a resource is silent | the same, with an entry in place of the fault |
| `RecordsUnique` | `HandsOnce`: each resource passes one statement that may hand it over; second loops and lists made again are about a type of their own, stand in no loop and know their resources apart | no two frames hand over the same resource, none hands over one that is recorded, and the items of a loop differ |
| `DanglingTold` | `LooksUp`: edges lead to networks that were listed or recorded; a list whose loop does not record networks is made before the one whose loop does; that one stands in a `try` of its own, in a call that is made whatever failed before | every network that was met is pending, recorded, or has an entry; of each type of networks, the list that is to record them is still to be made, or made and the networks met, or told of as failed |

The four last ones are about what is left to run, and their proofs have one shape:
`OnceWays` and its like say that a step either leaves frames (by the end of a
statement, `continue`, `return` or an exception) or opens a body in front of the
others; `LeftPair` and `OpenedPair` then say of any two frames afterwards that they
stood in that order before, or that one or both were just opened. An invariant about
pairs of frames needs to look only at what a body opens. `LossExplained` proves a
little more than `LossIsExplained` says: an entry that names the `try` of a section
is never the only one, unless the function was abandoned.

`DanglingTold` is about two gather functions in a row: the edge is derived in one, and
the list that would have recorded its network is made in the other, perhaps after the
first was abandoned. What leads to that list (`Way`: the call, the `try` in it, the
list) is shown to stay in `todo` until the list is made, past every exception
(`WayKept`); and as the other lists of networks come before it (`Precedes`), a network
that somebody listed is met again by it, or was recorded, or the `try` has told of it
(`MetOrComing`).

Only model-checked: liveness (`RunEnds`, `MapEnds`, `FetchesEnd`, `RunsRecover`, and the
fairness half of `KeepsContract`, whose safety half is `ContractKept`), which the prover
does not do. Every invariant and action property of the passing runs is stated by a
theorem. That a function has a form is computed by TLC, as the 99 programs are finite
data; so is what each text of a tag is read as.

## 5. What is not modelled

* The content of `raw`, except suppressed check ids; formatting, names, scope
  ids, redaction, secret scanning (pure functions on text, with unit tests), the
  text of the summary and of errors. `add_resource`'s branch for a payload that is
  no dict: every caller passes one.
* In the gather functions: lookups that fail into a default inside `raw` and tell
  nobody (they have no effect on control); the twenty-one sources of
  `sg.get_attached_sg_ids`; the two role caches of `lambda_.py`, whose lookups
  are made once per function; `discovery.build()` of gcp, which makes a client
  without a call to the cloud (it precedes the first list call but for one at
  `gke.py:51` and one at `sql.py:48`, outside any `try` like the others);
  `gather_global`'s `regions` argument, which `run()` never
  passes; the region in which a global module's resource is recorded.
* Pages of a listing are one call, except where the code looks at one page only,
  keeps the pages it has when one fails, or starts again after a page.
* Two `pip`s at work in one environment are taken to add whole packages.
* The server, the clouds, the thread pool, `venv` and `pip` are external: they do
  what the code in this repository relies on.

## 6. Plan

Every component whose behaviour is more than a function on text has its module.
What could still be added:

* The composition of `Runner` and `ProviderRun`, so that what a missing package does
  to a gather is a consequence and not an assumption.
