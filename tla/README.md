# FreshUp in TLA+

FreshUp is the kitchen manager of one household: recipes, an inventory, a
shared grocery list, a weekly meal plan, and receipts that a local LLM turns
into inventory items. This directory holds TLA+ models of its backend
(`src/src/`), the TLC instances that check them and TLAPS proofs about them.
Paths below are relative to the directory that holds `src/`.

`PROJECT.json` is the index: `components`, `runs`, `theorems`, `findings`,
`hazards`, and under `map` the source lines every definition stands for.

    tlc -config TaskWorkerSafety.cfg MCTaskWorker.tla     # a run
    tlapm TaskWorkerProofs.tla                            # a proof

## 1. The system

One Python process (uvicorn, one worker) serves everything. Its request
handlers are plain functions, so FastAPI runs them in a pool of threads; next
to them one asyncio task, started by `lifespan` in `src/src/main.py`, parses
receipts. All of them share one SQLite database and nothing else. The outside
world is Ollama (the LLM), MinIO (images), recipe sites and the React frontend.

How the database behaves decides most of what can go wrong
(`src/src/db/database.py`):

- every request has a session of its own (`get_db`), with `autoflush=False` and
  objects expiring at each commit;
- a `SELECT` opens no transaction in the sqlite3 driver, so what a handler has
  read protects nothing: between its reading and its commit other handlers
  commit. There is no version column and no `SELECT ... FOR UPDATE`;
- the ORM's `UPDATE` writes only the columns that differ from what *this*
  session loaded; an `UPDATE` of a row that is gone raises `StaleDataError` and
  rolls the transaction back, a `DELETE` of one is only a warning;
- foreign keys are enforced.

### Components

| component | state | operations | what is hard | what makes it correct |
|---|---|---|---|---|
| **receipt task worker** `services/task_worker.py`, `services/llm/client.py` | rows of `processing_tasks` (durable); list, current task and attempt (lost with the process) | poll, recover stale tasks, ask Ollama, list, take, parse, put back, fail | stops and failed commits between two commits, timeouts, retries, outages, order | the snapshot never goes stale, oldest first, retries counted exactly, verdicts final, orphans recovered, every receipt settles |
| **receipt intake** `routers/receipts.py`, `services/receipt_service.py` | the task row, `task_metadata`, the image in MinIO, inventory items | upload, submit text, confirm | two stores and two commits without a transaction around them, with the worker running in between | what was accepted is kept, no unexplained orphan images, only parsed receipts stock the inventory |
| **grocery list** `services/grocery_service.py` | `grocery_list_items`; inventory items | create, update, delete, purchase, unpurchase, bulk purchase | overlapping handlers of two members, column-wise writes, deleted rows in a batch | purchase columns agree but for overlapping opposites, batches are atomic, nothing is stocked twice but by overlap, or with an unknown unit |
| **meal plan** `services/meal_plan_service.py` | `meal_plan_entries`, opt-ins; grocery items | generate a week, create an entry, confirm, opt out | a confirmation is a chain of commits made by a callee, which may refuse an item; ingredients change meanwhile; check-then-insert | drafts have no effect, an answered confirmation has listed what it could, duplicates are bounded |
| **browse cache and engagement** `routers/recipes.py`, `services/recipe_service.py`, `services/cleanup_service.py` | `recipes.is_persisted`, `user_recipe_relations`, cook events, `times_cooked` | create, update, delete, bookmark, like, rate, cook, prune at start | an engagement and the persistence it causes are two commits; upserts; the prune is one transaction under foreign keys | an engaged recipe is kept, marks outlive what others do, cooks are counted |
| **import** `services/import_service.py` (scraping and crawling: not modelled) | `recipes.source_url` | import one, import a batch | check-then-insert around a slow scrape, in threads and in the CLI | (nothing in the code guarantees one recipe per URL) |
| **inventory** `routers/inventory.py` | `inventory_items`, their stores | CRUD, bulk create, consume, freeze, thaw, share, stores; ad-hoc recipes that use items up | read-modify-write of a float quantity, delete at zero, two columns that belong together | quantities add up, place and date of freezing agree |
| **prepared foods** `services/prepared_foods_service.py` | `prepared_foods` | create, consume, transfer, freeze, thaw, share, delete | the same, on rows that several members use | the same; guests use only what is shared |
| **accounts** `routers/auth.py`, `utils/security.py` | `users` (role, failed attempts, lockout), the audit log | register, login, switch, profile, password | a slow hash between reading and committing: counters and schedule under overlap | lockouts follow the schedule, tokens are logged |
| **menus** `services/menu_service.py` | `menus`, `menu_recipes` and their flags, recipe tags, members' relations | create, update, delete, add, remove, restore, generate | generation is a series of commits; rules and tags change between adding and removing; recipes are deleted meanwhile | a request fails only when another was in its way; menus and recipes leave no entries behind; what was taken out stays out |
| feed, substitutions, users, schemas, utils, rate limit | nothing, or a user's own rows | queries, single-row CRUD | - | - |
| frontend server state `frontend/src/api/hooks` | React Query cache | optimistic toggles | rollback to an old snapshot | cache agrees with the server when quiet |
| deployment `deploy/` | lock file, backups, containers | deploy, check, back up | concurrent deployments | one at a time (flock) |

Interactions: the **intake** creates the rows the **worker** consumes and polls
their status; its confirmations create **inventory** items. The **meal plan**
calls the **grocery list**'s `create_item` once per ingredient, and
`bulk_purchase` of the grocery list creates **inventory** items. Menus, plans,
the grocery list and prepared foods refer to recipes of the **browse cache**,
and so decide whether a recipe can be deleted or pruned. **Menus** are generated
from the engagements and tags of recipes. The prune runs before the worker at
every start. Every request passes through **accounts** (`get_current_user`).

## 2. The modules

| module | models | extends / instantiates |
|---|---|---|
| `ReceiptJob` | the life of one row of `processing_tasks` as its poller sees it (abstract) | - |
| `TaskWorker` | the worker, the clock, Ollama, stops and restarts | instantiates `ReceiptJob` per task |
| `ReceiptIntake` | uploads, text submissions and confirmations; the worker is anything `ReceiptJob` allows | instantiates `ReceiptJob` per receipt |
| `GroceryList` | the grocery list under overlapping sessions | - |
| `MealPlan` | the plan of one week and its confirmations | - |
| `Stock` | inventory items and prepared foods, two tables with one life | - |
| `Accounts` | users, lockout, the clock, tokens and the audit log | - |
| `Cookbook` | recipes, engagements, imports, stops and the prune at start | - |
| `Menus` | menus under overlapping sessions, generation among them | - |
| `MC*` | the model values and symmetries of the runs | the module after `MC` |
| `*Proofs` | theorems and proofs | the module before `Proofs`, `TLAPS` |

Operators whose comment begins with "Mutant:" are not part of the models. Each
stands before the definition it is a faulty variant of, and each property is
known to fail when one of them takes that definition's place (`mutants` in
`PROJECT.json`): so none of the properties holds by the shape of its model.

### TaskWorker and ReceiptJob

`rows` is the table, `locals` the coroutine: `pc` says where it is (`idle`
asleep between two polls, `recovered` after `recover_stale_tasks`, `listing`
before the query, `next` at the head of the `for` loop, `calling` inside
`OllamaClient.complete`, `down` when the process does not run), `batch` what the
loop has still to visit, `cur` and `attempt` the task and its validation
failures so far. `created` keeps the resolution of `created_at`, so two receipts
may be equally old. `age` counts ticks since `processing_started_at` and stops
at the first value that is stale.

A commit is atomic or raises. `recover_stale_tasks` commits once for all rows,
and so does the model (`RecoverStale`). After a failed commit nothing rolls back
the session, so the except branch's own commit raises too and the iteration ends
with the row as the database has it (`CommitFails`). `Stop` covers shutdown and
crash alike: a cancelled task leaves its row `processing`. `Unavailable` is
`LLMUnavailableError` (including a read timeout of 120s): put back, leave the
loop. `ConnectionLost` is the httpx errors the client does not translate.

`ReceiptJob` says what a poller may rely on: pending, processing, back to
pending either free of charge or for one retry, and then a verdict that is never
changed; `retry_limit` only after `MaxRetries` retries. `ImplementsJobs` is the
refinement, task by task, under the identity mapping.

### ReceiptIntake

`pc` follows `upload_receipt_image` between its externally visible steps: image
stored, task inserted (first commit), image linked (second commit), answered.
`CleanUp` is `_cleanup_minio_object`, which may itself fail and then only logs.
A put that reports an error may have stored the image all the same
(`PutFails`). `WorkOn` is whatever `ReceiptJob` lets the worker do to the row, at
any moment; `TaskWorker` is shown to do nothing else, so the two modules
together cover the interleaving of both without multiplying their states.
`excused` is a history variable: the uploads hit by a fault the code does not
compensate.

### GroceryList

A handler is two actions: `Load...` reads its rows, decides, and records in
`req[r]` which columns its session will write; a `Commit...` writes exactly
those, however the rows have changed since. Purchase dates are represented by
the user whose purchase wrote them; `stock[i]` counts the inventory items
made from row `i` since it was last unpurchased; units are either among the
inventory's `UnitType` or free text (recipes are not validated against it). Any
member buys and unpurchases any row. An update or a deletion is the owner's only,
but as one request of the owner's looks like another, the owner is left out.

Histories: `crossed[r]` are the rows of handler `r` whose purchase columns a
handler of the other direction has written since `r` loaded them, `torn` the rows
whose last buyer or returner was crossed. A row leaves `torn` with the next
purchase, batch or unpurchase of it that nobody crosses.

### MealPlan

`StartConfirm` is `confirm_entry` up to its loop; each `ListIngredient` is one
`create_item` with its commit. The first commit also writes the pending
`approved` (`dirty`). After a commit or a rollback the session's objects are
expired: the next ingredient is read anew, and if its row has been deleted the
loop dies with `ObjectDeletedError` (`IngredientGone`). The owner of the recipe
may add ingredients, make them optional or required, and delete them at any
moment; what is added after a confirmation has loaded the list is not in it.
The recipe itself cannot be deleted while an entry refers to it.

`RefuseIngredient` is the `except ValidationError` of the loop: it logs and goes on
with the next ingredient. `create_item` raises that error after a rollback, which
also takes back the pending `approved`, so that an entry whose first item is
refused stays a draft although the answer is 200, with the later items on the
list. The history variable `undone` holds such entries. The comment there expects
a unit that the inventory does not know; `create_item` does not look at units and
only translates an integrity error, which needs a user or store that does not
exist, so that the branch is hardly ever taken: the model may take it whenever
there are faults left. `Fail` is any other commit or read that raises, or the end
of the process. `kept` is, of each confirmation, what it must have listed in the
end: what was required when it loaded it and until its loop came to it, and was
not refused.

### Stock

Both tables are rows with a quantity (`quantity`, `servings_remaining`), a place,
a date of freezing and a shareability; `table` says which one a row is in.
As in `GroceryList` a handler is a `Load...` and a `Commit...`: `req[r].cols` are
the columns that will be written, `req[r].stale` those of them or others that
somebody has written in between. Consumption reads the quantity and writes the
difference (`"use"`) or deletes the row (`"empty"`), depending on whether the rest
is within `FLOAT_COMPARISON_TOLERANCE`.

Quantities are naturals, counted in a unit in which `Tolerance` of them are the
rounding error that the code forgives. `StockAssumption` says that nobody consumes
so little that it is itself a rounding error: a consumption below the tolerance
from an emptied row would be forgiven again and again. `create_ad_hoc_recipe` with
`decrement_inventory` compares every entry of its list with the quantity before
any is subtracted; `Again` is what a second entry for the same item asks for.
Where it may be positive the quantity is an integer (`Quantities`), else a
natural.

Histories: `given` (what a client last set), `taken` (what was consumed since),
`lost` (rows with a consumption that overlooked another write), `torn` (rows whose
place and date were set by a client, or written past one another). The two last
are not licences: a row leaves `lost` with the next quantity a client sets, and
`torn` with the next freezing or thawing that nothing disturbs.

### Accounts

The program seeds two users before it serves its first request (`Seeded`: Sarah,
who coordinates, and Alex), and deletes none. So the branch that makes a first user
coordinator (`NextRole`) is never taken, and whoever registers is a member.

`LoadLogin` reads the row, before the hash of the password; `Decide` comes after it
and takes the time: a lock that has ended is lifted, a locked account refused, and
the columns change in the session. `CommitFail` and `CommitLogin` write those that
differ from what was read (`Written`). The token is made after that commit
(`Answer`). Answers that change no user's row are left out, and so are the expiry
of a token (30 days) and everything JWT. `wrong` and `locks` count what happened;
`overlooked` holds the users whose row was written by a login that had not seen
another's, until a right password comes with nothing in its way.

### Cookbook

`CommitMark`, `CommitUnrate` and `CommitCook` are the member's commit; `Persist` is
`trigger_persistence` with its own, after which nothing is owed. In between the
process may stop (`Crash`) or the second commit raise, which the code only logs
(`Abort`): the history variable `missed` holds those recipes until an engagement
succeeds. `Prune` is `prune_unpersisted_recipes` as one transaction. `held` says
which tables have rows that refer to a recipe and are not removed with it, which
decides whether a deletion or the prune passes the foreign keys. The ORM deletes
by taking the recipe out of what refers to it, the prune by a bulk `DELETE`: so
their conditions differ (`Deletable`, `Prune`). An import searches, scrapes and
inserts (`LoadImport`, `CommitImport`), in a thread or in the CLI.

### Menus

What the rules look at (a tag, the source, the cooking time) is a tag. Each
commit goes through `Committable`, the constraints of the two tables: no entry
twice, none without its menu or its recipe, no update of a row that is gone, no
menu deleted that has entries the session did not load, no recipe deleted that a
member has a relation to. `stale` says whether, since the handler read, another
request has written to its menu or deleted one of its recipes (or, for the deletion
of a recipe, written a relation to it). `CommitMake`, `LoadFill` and
`CommitFill` are the generation, menu by menu, each visible to others before it is
filled.

`stored` are the rows of `recipes`. `delete_recipe` is `LoadRemove`, the moment when the
session looks for what it would have to let go of (it fails if it finds any), and
`CommitRemove`, with which the database deletes the menu entries that have come in
between. It may commit between the look-up of a recipe in `add_recipe_to_menu`, or
in the middle of a generation's fill, and the insert, which then violates
`menu_recipes.recipe_id`. The other tables that can hold a recipe, and the prune,
which runs before any request, are in `Cookbook`.

## 3. The runs

| run | instance | shows |
|---|---|---|
| `worker_safety` | 3 tasks (one slow), 3 faults, 2 attempts, 1 retry, 822,462 states | `TypeOK`, `SnapshotHolds`, `OldestFirst`, `RetryAccounting`, `VerdictsAreFinal`, `ImplementsJobs` |
| `worker_liveness` | 2 tasks (one slow), 2 faults, `FairSpec`, 19,421 states | `OrphansAreRecovered`, even if Ollama never comes back; `EveryTaskSettles`, unless it never does or a slow task that is no younger waits for ever |
| `intake_safety` | 1 photo, 1 text, 3 faults, 1 retry, 2 confirmations of each, 26,808 states | `TypeOK`, `AcceptedIsKept`, `OrphansAreExcused`, `StockIsParsed`, `RowsAreJobs` |
| `grocery_races` | 2 rows, 2 users, 2 handlers, every operation, 751,262 states | `TypeOK`, `InventoryUnits`, `StockedPerOverlap`, `StampsExplained`, `NothingForDeleted`, `BulkIsAtomic` |
| `grocery_stamps` | the same with 1 row | *violates* `StampComplete` |
| `plan_races` | 2 plans of one slot, 1 manual entry, 2 ingredients, 2 handlers, 1 fault, 472,713 states | `TypeOK`, `DraftsListNothing`, `OkMeansListed`, `ListedPerOverlap`, `DraftsPerOverlap` |
| `stock_races` | 1 row of either table, 2 users, 2 handlers, every operation, 321,077 states | `TypeOK`, `Balanced`, `FrozenIsExplained`, `GuestsSeeShared` |
| `stock_twice` | the same, and recipes that name an item twice | *violates* `NeverNegative` |
| `account_races` | 3 users (2 seeded, 1 registers), 2 handlers, 2 attempts, locks of 1 and 2 ticks, 4 ticks, 1,258,934 states | `TypeOK`, `FailuresCounted`, `LocksEnd`, `TokensAreLogged` |
| `cookbook_races` | 1 recipe, 2 members, 2 handlers (one may import), 2 cooks, stops and starts, 553,988 states | `TypeOK`, `EngagedIsKept`, `CooksAreCounted`, `MarksOutlive` |
| `cookbook_prune` | the same | *violates* `PruneClears` |
| `menu_races` | 2 menus, 1 recipe (deletable), 2 tags, 2 handlers of 1 member, 529,540 states | `TypeOK`, `UndisturbedCommits`, `FlagsStand` |

`StockedPerOverlap`, `ListedPerOverlap` and `DraftsPerOverlap` bound duplicates by the number of handlers that can be at
work at once. For one handler they say that there are no duplicates; for two they
say how bad the check-then-write of the code can get, and that it cannot get worse
over time. Section 4 has them for any number of handlers.

Why the bounds are enough. Three tasks are the fewest with one being parsed,
one waiting in the batch and one arriving or recovered meanwhile; three faults
let a task with one retry be lost, retried, lost and given up while another
fault hits a second task. One retry reaches the retry limit, two attempts
reach both a repeated and a last invalid reply. Three faults make an upload fail
and its clean-up fail too, or crash after another fault. Two handlers are an
overlap; a third could only repeat what the second does to the rows, since a
handler is disturbed by commits, not by handlers. Two rows make a batch that
can be half done. In `plan_races` two plans are what two handlers that generate at
once can leave (`PlansTheorem` is for any number of plans and handlers); the manual
entry is one whose recipe has no ingredients, so that its confirmation goes straight
to the commit after the loop; two ingredients make a confirmation that is half done
when one is changed or refused. One slow task is enough for the starvation, since a
second waits behind the first. `MaxStock`, `MaxConfirms` and `MaxFaults` are the only
counters capped by a guard; the first is set to one more than
`StockedPerOverlap` allows.

For the newer modules: in `stock_races` 3 units of which 2 are consumed with a
tolerance of 1 reach every branch of a consumption (it leaves something, leaves
only a rounding error, takes more than there is within the tolerance, is refused);
`Edits` lets a `PUT` change one column at a time, since a `PUT` of several is the
union of what they do. In `account_races` 2 attempts and 2 entries of the schedule
reach a second lock, the end of the schedule and a lock that ends while a login
is being hashed; `Active` lets the two seeded users log in and `Careless` one of them
mistype the password, since counters of different users never meet; the third user
registers and is switched to. `MaxTime` stops the clock, `MaxCooks` the
cook events. In `cookbook_races` every table that can hold a recipe in its own
way is a referrer: `ingredient` (holds against both deletions), `menu` (goes with
the prune), `prepared` (is let go by the ORM). In `menu_races` two menus and two
tags make a generation that still has a menu to make while others write to its
first; `Filters` are the rules that generation does not make itself.

Deadlock is checked for the worker, which never stops. The other modules model
finitely many receipts, rows, entries, users, recipes and ticks, which do all
come to an end: `CHECK_DEADLOCK FALSE`.

Symmetry is used in safety runs only, over users, handlers, rows, ingredients,
menus, tags and tasks that are not `Slow`; in `Accounts` not over users, each of
whom has a part of its own, and in `Cookbook` not over handlers, one of which imports.

### Fairness

`FairSpec` asks weak fairness of the worker as a whole (`Worker`: whenever it can
take a step it does; the coroutine awaits only sleeps and calls with
timeouts, and its loop catches every exception), of `Restart` (containers run with
`restart: unless-stopped`) and of the clock. It asks nothing of Ollama, of the
API's clients or of any particular outcome of a call; the number of attempts and
of faults is what bounds them. That an outage ends is not assumed but a premise
of `EveryTaskSettles`; so is that no slow task which the worker tries first waits
for ever, which the code does not guarantee (section 5). The run has such a task,
so the starvation is among its behaviours; a slow task that is younger, or that gets
a verdict after all, is no excuse.

## 4. What is proved

TLAPS checks the following for every value of the constants (any tasks, users,
rows, handlers, recipes, menus, limits and faults), from the named assumptions of
each module, which TLC evaluates in its runs. A theorem that assumes more says so.

The theorems are of three kinds. An *invariant* or *step property* of `Spec` is what
a run checks, for every size. A *bound per overlap* (`...PerOverlap`) says how many
duplicates a check-then-write can leave when everybody overlaps with everybody. A
theorem about handlers *apart*, `Spec /\ []Apart => []P`, is the complement: in every
behaviour in which the handlers concerned do not overlap on the same row (other
handlers, and the same ones on other rows, may overlap as they like), the promise
holds with no exception for overlap left. Together the two say that overlap, and nothing else
in the code, is what breaks it. The hypothesis restricts behaviours, not constants:
every behaviour of a household whose members do not act at the same moment satisfies
it.

- `TaskWorkerProofs`: `TypeCorrect`, `SnapshotTheorem`, `OldestFirstTheorem`,
  `RetryAccountingTheorem`, `CrashLoopTheorem`, `VerdictTheorem` and
  `RefinementTheorem` (the worker implements `ReceiptJob` for every task).
  None of the properties is inductive alone. `IInv` adds that the batch is empty
  outside the loop, that nothing pending outside the batch is older than what is
  in it (so taking the oldest of the batch is taking the oldest of all), and that
  a task given up is at its limit. The proof that a stale task is never the one
  being parsed rests on the recovery running only between two batches: three
  timeouts of 120s do exceed the 300s of `task_processing_timeout_seconds`.
  `CrashLoopsEnd` (a task takes the worker down at most `task_max_retry_count + 1`
  times) is a consequence of `RetryAccounting` and the type of `retries`, so no run
  checks it again; refinement and finality of verdicts are step facts under `IInv`.
- `ReceiptIntakeProofs`: `TypeCorrect`, `AcceptedTheorem`, `OrphanTheorem`,
  `StockTheorem`, `RowsTheorem`. `IInv` ties the position of each handler to its
  row and image (`StepsAgree`) and bounds confirmations. The worker enters the
  proof only through `ReceiptJob`: its steps never make a row absent and never
  leave `completed`.
- `GroceryListProofs`:
  - `TypeCorrect` and `UnitsTheorem` (via `UnitsInv`: what a batch will stock was
    checked when it was loaded, and is made from that copy);
  - `StockedTheorem`, by counting: how often a row is stocked plus how many handlers
    are about to stock it never exceeds the number of handlers
    (`StockedOrRestocking`). It needs to know that what a handler is going to stock
    it will mark as bought in the same commit (`RestockMarks`) and that what is
    stocked is marked (`StockedIsMarked`), so that a handler that loads the row after
    a commit does not count;
  - `DeletedTheorem` and `BulkTheorem`, step properties: every commit of a purchase
    passes `PurchaseRows` for all rows or none, and `StaleData` is exactly that some
    row is gone;
  - `StampTheorem`: the three columns of a row disagree only after a purchase and an
    unpurchase of it have overlapped, until the next that nobody crosses
    (`StampsExplained`). On a row that was not crossed, a column that a purchase will
    not write already holds what it would write (`WritesComplete`), and one that an
    unpurchase will not clear is clear (`UnwritesComplete`);
  - `BuyersApartTheorem`: as long as no two handlers buy or unpurchase one row at the
    same time, nobody is crossed, so the three columns agree without exception
    (`StampComplete`), and a row is stocked at most once (`ApartInv`, which adds that
    what a batch will stock is still not bought).
- `MealPlanProofs`:
  - `TypeCorrect`, `DraftsTheorem`, and `OkTheorem`, a step property of the answer. `IInv`
    adds that a handler with nothing of the status left to write finds it written,
    or has had it rolled back (`CleanIsApproved`), that what it must have listed in
    the end and has still to do is required to this day, and its copy agrees
    (`KeptIsRequired`), and that the rest of it is on the list (`ListedOrTodo`);
  - `ListedTheorem` and `PlansTheorem`, by counting: what is on the list (in draft)
    plus the handlers that have it still to do never exceeds the number of handlers
    (`ListedOrPending`, `DraftedOrGenerating`). The step that needs an argument is
    a handler's start: it finds a draft, so nothing of the entry is listed, or no
    draft at all. An entry whose approval a refused item has rolled back (`undone`)
    is exempt: it can be confirmed, and listed, again;
  - `ConfirmsApartTheorem` and `GenerationsApartTheorem`: at most once on the list, at
    most one plan in draft (`ListedOnce`, `DraftedOnce`).
- `StockProofs`:
  - `TypeCorrect`, `BalanceTheorem`, `FrozenTheorem`, `GuestTheorem`.
    None of the three properties is inductive: what a handler is about to write must
    be known to be right for the row as it is, as long as nothing of it is stale.
    `StockInv` says so for every kind of handler (`Sound`), and more of a row than
    the properties do: its account is exact as long as there is anything left, so
    that the rounding error, which only emptying it may bring, can come once
    (`Accounted`); and a prepared food never has a date of freezing (`Placed`);
  - `NeverNegativeTheorem`: with `Again \subseteq {0}`, that is where no recipe names an
    item twice, the property that `stock_twice` violates does hold;
  - `OneAtATimeTheorem`: as long as no two handlers work on one row at a time nothing is
    ever overlooked (`NothingOverlooked`), so that `Balanced` and `GuestsSeeShared`
    hold without their exceptions.
- `AccountsProofs`:
  - `TypeCorrect`, `CountTheorem`, `LocksTheorem`, `TokensTheorem`. A login under way
    holds for its user, if not overlooked, the columns that the count asks for; a
    lock under way reaches no further than the clock plus its duration, and the
    clock does not go back (`Right`);
  - `ApartTheorem`: as long as no two logins of one user overlap, the columns are
    exactly what happened, and the account is locked after `MaxAttempts` wrong
    passwords and not before. Every login then sees the row it read (`LoginsSee`):
    registrations and the other requests do not write those columns.
- `CookbookProofs`:
  - `TypeCorrect`, `EngagedTheorem`, `CountTheorem`, `MarksTheorem`.
    The invariant adds that a handler that is not going to persist the recipe adds no
    mark to those it has read, that a cook has read no more than there are events
    (`HandlersRight`), and that a recipe that is gone has left nothing behind
    (`NothingLeft`). `MarksTheorem` is a step fact under it: what the prune takes is not
    persisted, so its marks were missed;
  - `ImportsTheorem`: of one URL there are never more imported recipes than imports
    can overlap (`ImportedOrImporting`), which only this theorem states, no run;
  - `CooksApartTheorem`: as long as no two members cook one recipe at the same time
    `times_cooked` is the number of its cook events (`NoCookLost`).
- `MenusProofs`: `TypeCorrect`, which includes that a menu or a recipe that is gone
  has left no entries, `UndisturbedTheorem` and `FlagsTheorem`. The invariant says of
  every handler that is not stale what it has looked up: the menu and the recipes
  are there, the entries it will add are absent, those it will change are present, a
  recipe it will delete has no relations. `UndisturbedTheorem` is the *apart*
  statement of this module: only a request that another has written in between of
  can fail. `FlagsTheorem` is a step fact: an insert must find no entry, and of the
  updates only a restoring one shows a recipe.

Only model-checked: the two liveness properties, `OrphansAreRecovered` and
`EveryTaskSettles`, since fairness is beyond the prover. Every invariant and every
step property that a passing run checks is a theorem. `PruneClears`, which the code
violates, is of course none. Theorems without a run of their own (the *apart* ones,
`CrashLoopTheorem`, `ImportsTheorem`) are proved only.

## 5. What the code does not do

In each of these three runs TLC finds a shortest behaviour in which the code departs
from its own text.

| run | source | the text says | the code |
|---|---|---|---|
| `grocery_stamps` | `services/grocery_service.py:333` | "Sets purchased=True, purchased_by=current_user, purchased_date=now." and, of `mark_unpurchased`, "Sets purchased=False, purchased_by=None, purchased_date=None." | a purchase that has read the row as bought, and commits after an unpurchase, writes the date (and the buyer, if another) but not `purchased`: not bought, with the date of a purchase |
| `stock_twice` | `routers/recipes.py:209` | "Check if decrement would result in negative quantity" | two entries for one item are each compared with the full quantity, then both subtracted |
| `cookbook_prune` | `services/cleanup_service.py:98` | "Delete non-persisted recipes older than TTL" | one expired recipe that has an ingredient makes the `DELETE` fail, at every start, for all expired recipes |

Others were met while modelling; the passing runs state what is left of the
promise, and the models have the behaviour:

- a receipt that always exceeds the read timeout is put back for ever, uncharged,
  and every younger one waits behind it (`services/task_worker.py:343`): this is the
  second excuse of `EveryTaskSettles`;
- a connection that breaks during the reply fails the task for good
  (`services/llm/client.py:244`, "task stays pending");
- a failure after an upload's second commit deletes the image and leaves the link
  (`routers/receipts.py:318`);
- two overlapping confirmations both succeed and list everything twice
  (`services/meal_plan_service.py:256`), a failure after the first ingredient
  leaves an approved entry that can never be completed (line 285), and the rollback
  of a refused first item leaves a draft that was answered with 200 and can be
  listed again (line 294): `ListedPerOverlap` and `OkMeansListed` are what remains,
  and `ConfirmsApartTheorem` says that only the overlap, or such a rollback,
  duplicates;
- two overlapping batches each stock the same row
  (`services/grocery_service.py:459`), two overlapping generations each insert a
  week of drafts (`services/meal_plan_service.py:71`); `BuyersApartTheorem` and
  `GenerationsApartTheorem` exclude any other cause;
- overlapping consumptions, cooks and logins lose one of the two updates: `lost`,
  `overlooked` and the first half of `CooksAreCounted` say when and how far, and the
  theorems about handlers apart that there is no other way to lose one;
- one URL can be imported twice at once (`services/import_service.py:252`), but
  not more often than imports overlap (`ImportsTheorem`), and a member's recipe
  that has ingredients cannot be deleted: the ORM sets `recipe_id` of the
  ingredients to NULL, which the column does not allow.

## 6. Abstractions and what is left out

- Texts, images, replies and quantities are left out; a reply is valid, invalid
  or missing. Requests refused with 4xx change nothing and are no actions.
- Names, notes, prices, expiry dates, ratings as numbers, cover images and sort
  orders are left out of `Stock`, `Cookbook` and `Menus`: nothing the properties
  relate depends on them. The writes that change only those are still handlers
  (`LoadPreferredStore`, `LoadOwn`), since they end like any other.
- `opt_out_entry` is left out: only the creator of an entry is ever in its
  opt-in list, so there is nothing for two handlers to disagree about. Recipe
  selection by the feed is left out.
- Several uvicorn processes are not modelled; the deployment runs one.
- Not modelled, since no state is kept that two actors could disagree about: the
  feed and other queries, the ingredient parser, schemas and sanitising,
  substitutions and users (rows of one member, one commit each), prompts and OCR.
- Not modelled, since the behaviour is a library's or the shell's: rate limiting
  (slowapi), the React Query cache of the frontend (an error rolls it back to a
  snapshot that may be older than another toggle of the same item, and the
  refetch that follows every mutation repairs it), scraping and the crawler's
  delays, migrations, deployment under `flock`.

## 7. Plan

What could follow, the most consequential first:

1. **Kitchen**: `MealPlan` composed with `GroceryList` and `Stock` (every listed
   ingredient is a row that can be bought, and through `bulk_purchase` stocked).
2. **OptimisticToggle** (`frontend/src/api/hooks`): cache, server and in-flight
   mutations; the cache agrees with the server when nothing is in flight.
3. **Crawler delay**, a small timed module.
4. Proofs: the composition with `Kitchen` (item 1) would let the bounds of
   `MealPlan` and `GroceryList` be multiplied to one about the inventory.
