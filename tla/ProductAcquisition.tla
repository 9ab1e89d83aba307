------------------------- MODULE ProductAcquisition -------------------------
(***************************************************************************)
(* How a job gets its products: ProductAcquisitionEngine                   *)
(* (services/api/app/services/product_acquisition.py) reads the pages of   *)
(* the chosen categories one at a time, keeps cursors and products in      *)
(* acquisition_checkpoint.json and hands batches of products to the worker *)
(* (workers/production_pipeline.py), which puts them into the candidate    *)
(* pool, counts the target when the job wants ALL, locks the order policy  *)
(* and asks for more while candidates fail.                                *)
(*                                                                         *)
(* The site is what the collector can see of it.  A request that fails,    *)
(* whatever the reason (status, robots, network, the budget of requests of *)
(* one process), costs a product when it was for a product's page and ends *)
(* the process when it was for a page of the category.  The worker runs    *)
(* with a provider; its stages and its bill are in ProductionEngine and    *)
(* ProviderLedger.                                                         *)
(***************************************************************************)
EXTENDS Naturals, FiniteSets, SequencesExt

CONSTANTS
    Products,              \* identity keys of products
    Pages, NoPage,         \* pages of categories
    MaxScopes,             \* scope cursors, tried in this order
    Sites,                 \* sites tried
    AgentAnswers,          \* answers of the pagination agent tried
    Modes,                 \* target modes tried
    Target,                \* target_value
    MAX_ACQUISITION_PAGES, \* pages read per cursor, 100
    DISCOVERY_FACTOR, DISCOVERY_FLOOR, \* products looked for beyond those known: max(3 * needed, 12)
    REFILL_FACTOR,         \* products asked for per candidate needed, 3
    ALL_PRODUCTS,          \* products asked for to count ALL, 5000
    MAX_REFILL_ROUNDS,     \* refills of one process, 100
    MaxStarts              \* bound: processes of the job

Scopes == 1..MaxScopes

MaybePages == Pages \cup {NoPage}

(* A page of a category.  found is what products.json, the links of the     *)
(* page, those it shows in the browser, the page as a product's own and its  *)
(* sub-categories give; more is the page that truly follows; control is the  *)
(* page that a next control or a higher page number names, ended whether a   *)
(* disabled control or page numbers say that there is none.  The products of *)
(* a graphql page come from Magento, which always knows its last page.       *)
PageContents ==
    [found : Seq(Seq(Products)), more : MaybePages, control : MaybePages, ended : BOOLEAN,
     graphql : BOOLEAN]

(* The first of the ways that gives anything.                                *)
Links(page) ==
    LET full == {i \in DOMAIN page.found : page.found[i] # <<>>} IN
    IF full = {} THEN <<>> ELSE page.found[Min(full)]

(* A control that leads somewhere outweighs every sign of the end.           *)
_pagination_cursor(page) ==
    [next |-> page.control, end |-> page.control = NoPage /\ page.ended]

(* What the pagination agent answers: products it read, a page, an end.      *)
Recoveries == [products : Seq(Products), next : MaybePages, end : BOOLEAN]

(* A set of pages that no page of it leads out of.                           *)
GoesOn(contents, S) == \A q \in S : contents[q].more \in S \cup {NoPage}

(* The pages of a category that truly follow p, p included: they are in every *)
(* set of pages that holds p and, with a page, the one that follows.         *)
Following(contents, p) ==
    {q \in Pages : \A S \in SUBSET Pages : p \in S /\ GoesOn(contents, S) => q \in S}

(* What is supposed of sites: a category has a first page, an end told is an *)
(* end, a page without products is the last one, and a control that does not *)
(* lead on leads back.                                                       *)
ASSUME SiteAssumption ==
    \A s \in Sites :
     /\ s.entry \in [Scopes -> Pages]
     /\ \A p \in Pages :
       LET page == s.contents[p] IN
       /\ page \in PageContents
       /\ _pagination_cursor(page).end \/ Links(page) = <<>> => page.more = NoPage
       /\ page.control \notin {NoPage, page.more} => p \in Following(s.contents, page.control)
       /\ page.graphql => page.control = page.more
       /\ page.more # NoPage => p \notin Following(s.contents, page.more)

ASSUME CountAssumption ==
    /\ MaxScopes \in Nat \ {0} /\ Target \in Nat \ {0} /\ MaxStarts \in Nat \ {0}
    /\ MAX_ACQUISITION_PAGES \in Nat \ {0} /\ MAX_REFILL_ROUNDS \in Nat \ {0}
    /\ DISCOVERY_FACTOR \in Nat \ {0} /\ DISCOVERY_FLOOR \in Nat \ {0}
    /\ REFILL_FACTOR \in Nat \ {0} /\ ALL_PRODUCTS \in Nat \ {0}
    /\ AgentAnswers \subseteq Recoveries /\ Modes \subseteq {"EXACT_N", "UP_TO_N", "ALL"} /\ NoPage \notin Pages

VARIABLES
    site,       \* the public site, which does not change
    mode,       \* target_mode of the contract
    job,        \* how the job stands after the worker's last event
    checkpoint, \* acquisition_checkpoint.json
    memory,     \* the payload discover works on
    worker,     \* the worker process
    pool,       \* candidate_pool.json and whether the job has a provider ledger row
    skipped     \* history: products linked by a page that was read and yet not stored

vars == <<site, mode, job, checkpoint, memory, worker, pool, skipped>>

Larger(a, b) == IF a >= b THEN a ELSE b

Smaller(a, b) == IF a <= b THEN a ELSE b

Statuses == {"NONE", "PAGINATION_UNVERIFIED", "EXHAUSTED", "AGENT_RECOVERED"}

(* pages_fetched is the number of seen_page_urls, visited that there is one; *)
(* next stands for next_url and next_page alike.                             *)
Cursor == [next : MaybePages, seen : SUBSET Pages, exhausted : BOOLEAN]

(* agent is agent_recovery_attempted with what the agent answered.           *)
Payload ==
    [cursors : [Scopes -> Cursor], products : Seq(Products), emitted : SUBSET Products,
     status : Statuses, agent : {"NOT_ASKED", "NOTHING", "NEXT", "END"}]

Idle == [at |-> "off", purpose |-> "none", needed |-> 0, limit |-> 0, batch |-> {},
         rounds |-> 0, starts |-> 0, reason |-> "none"]

TypeOK ==
    /\ site \in Sites /\ mode \in Modes
    /\ job \in {"QUEUED", "RUNNING", "BLOCKED", "HUMAN_REQUIRED", "FAILED", "TARGET_SHORTAGE", "COMPLETED"}
    /\ checkpoint \in Payload /\ memory \in Payload
    /\ worker \in [at : {"off", "target", "lock", "pages", "select", "add", "running"},
                   purpose : {"none", "target", "initial", "refill"},
                   needed : Nat, limit : Nat, batch : SUBSET Products, rounds : Nat,
                   starts : 0..MaxStarts, reason : {"none", "supply", "rounds"}]
    /\ pool \in [items : SUBSET Products, passed : SUBSET Products, failed : SUBSET Products,
                 target : Nat, paid : BOOLEAN]
    /\ skipped \subseteq Products

(* What _read and _ensure_scope_cursors make of a missing file.              *)
FirstPayload(s) ==
    [cursors |-> [c \in Scopes |-> [next |-> s.entry[c], seen |-> {}, exhausted |-> FALSE]],
     products |-> <<>>, emitted |-> {}, status |-> "NONE", agent |-> "NOT_ASKED"]

Init ==
    /\ site \in Sites /\ mode \in Modes
    /\ job = "QUEUED"
    /\ checkpoint = FirstPayload(site) /\ memory = FirstPayload(site)
    /\ worker = Idle
    /\ pool = [items |-> {}, passed |-> {}, failed |-> {}, target |-> 0, paid |-> FALSE]
    /\ skipped = {}

-----------------------------------------------------------------------------
(* The worker's process.                                                     *)

(* The process ends with the job in this state; what it had in memory since  *)
(* the last write is gone.                                                   *)
Ends(j, reason) ==
    /\ job' = j
    /\ worker' = [Idle EXCEPT !.starts = worker.starts, !.reason = reason]
    /\ memory' = checkpoint

EndsAs(j) == Ends(j, "none")

(* A start or a resume of the job, whose runs ControlPlane keeps apart.      *)
Start ==
    /\ worker.at = "off" /\ worker.starts < MaxStarts /\ job # "COMPLETED"
    /\ job' = "RUNNING"
    /\ worker' = [Idle EXCEPT !.at = "target", !.starts = worker.starts + 1]
    /\ UNCHANGED <<site, mode, checkpoint, memory, pool, skipped>>

Crash ==
    /\ worker.at # "off"
    /\ EndsAs("FAILED")
    /\ UNCHANGED <<site, mode, checkpoint, pool, skipped>>

(* Places of the products that were not handed out.                          *)
Available(payload) == {i \in DOMAIN payload.products : payload.products[i] \notin payload.emitted}

(* The beginning of discover: the checkpoint is read, and pages are only if  *)
(* it does not hold enough products that were not handed out.                *)
Discover(w, purpose, needed) ==
    /\ memory' = checkpoint
    /\ worker' = [w EXCEPT
         !.purpose = purpose, !.needed = needed,
         !.limit = Len(checkpoint.products) + Larger(DISCOVERY_FACTOR * needed, DISCOVERY_FLOOR),
         !.at = IF Cardinality(Available(checkpoint)) < needed THEN "pages" ELSE "select"]

refill(w, purpose, needed) == Discover(w, purpose, Larger(REFILL_FACTOR * needed, needed))

_target_and_quotas ==
    /\ worker.at = "target"
    /\ \/ mode = "ALL" /\ Discover(worker, "target", ALL_PRODUCTS)
       \/ mode # "ALL" /\ worker' = [worker EXCEPT !.at = "lock"] /\ UNCHANGED memory
    /\ UNCHANGED <<site, mode, job, checkpoint, pool, skipped>>

NewTarget == IF mode = "ALL" THEN Larger(1, Cardinality(pool.items)) ELSE Target

(* Mutant: a resume migrates the pool to the new policy at all times.        *)
MayLockAlways(target) == TRUE

(* Another target is another policy: it takes the place of the locked one    *)
(* only while the job has no provider ledger row.                            *)
MayLock(target) == pool.target \in {0, target} \/ ~pool.paid

(* set_order_policy_hash, or migrate_order_policy_hash on a resume.          *)
Locked(target) == [pool EXCEPT !.target = target]

LockPolicy ==
    /\ worker.at = "lock"
    /\ UNCHANGED <<site, mode, checkpoint, skipped>>
    /\ \/ /\ ~MayLock(NewTarget)
          /\ EndsAs("BLOCKED") /\ UNCHANGED pool
       \/ /\ MayLock(NewTarget)
          /\ pool' = Locked(NewTarget)
          /\ IF pool.items = {} THEN refill(worker, "initial", NewTarget)
             ELSE worker' = [worker EXCEPT !.at = "running", !.purpose = "none", !.needed = 0, !.limit = 0] /\ UNCHANGED memory
          /\ UNCHANGED job

-----------------------------------------------------------------------------
(* _discover_more.                                                           *)

Visited(cursor) == cursor.seen # {}

Open(payload) ==
    {c \in Scopes :
       LET cursor == payload.cursors[c] IN
       /\ ~cursor.exhausted /\ cursor.next # NoPage
       /\ Cardinality(cursor.seen) < MAX_ACQUISITION_PAGES}

MayRead(c) ==
    /\ worker.at = "pages" /\ Len(memory.products) < worker.limit
    /\ c \in Open(memory) /\ \A d \in Open(memory) : c <= d

IsNewPage(c) == memory.cursors[c].next \notin memory.cursors[c].seen

(* setdefault: a product keeps its first place, however many links lead to   *)
(* it; the links at the places unanswered are passed over.                   *)
Stored(products, found, unanswered) ==
    LET answered == DOMAIN found \ unanswered
        new == {i \in answered : /\ found[i] \notin ToSet(products)
                                 /\ \A j \in answered : j < i => found[j] # found[i]}
        place(n) == CHOOSE i \in new : Cardinality({j \in new : j <= i}) = n
    IN products \o [n \in 1..Cardinality(new) |-> found[place(n)]]

(* Mutant: the category ends wherever the collector finds no next page.      *)
IsExhaustedWithoutNext(page) == Links(page) = <<>> \/ page.control = NoPage

(* A page without products, or one whose end is told, ends its category.  A  *)
(* page with products and without a next only cannot be followed.            *)
IsExhausted(page) == Links(page) = <<>> \/ _pagination_cursor(page).end

CursorAfter(cursor, page) ==
    [next |-> _pagination_cursor(page).next, seen |-> cursor.seen \cup {cursor.next},
     exhausted |-> IF page.graphql THEN page.more = NoPage ELSE IsExhausted(page)]

PageRead(c, stored) ==
    LET cursor == memory.cursors[c]
        page   == site.contents[cursor.next]
    IN /\ memory' = [memory EXCEPT !.products = stored, !.cursors[c] = CursorAfter(cursor, page)]
       /\ checkpoint' = memory'
       /\ skipped' = skipped \cup (ToSet(Links(page)) \ ToSet(stored))
       /\ UNCHANGED <<site, mode, job, worker, pool>>

(* The products of the first links are read.  Any of their own pages may fail;*)
(* the others are stored, and the page counts as read.                       *)
ReadHtmlPage(c) ==
    /\ MayRead(c) /\ IsNewPage(c)
    /\ LET page  == site.contents[memory.cursors[c].next]
           first == SubSeq(Links(page), 1, Smaller(Len(Links(page)), Larger(worker.limit, 1)))
       IN /\ ~page.graphql
          /\ \E unanswered \in SUBSET DOMAIN first :
                PageRead(c, Stored(memory.products, first, unanswered))

ReadGraphqlPage(c) ==
    LET page == site.contents[memory.cursors[c].next] IN
    /\ MayRead(c) /\ page.graphql /\ IsNewPage(c)
    /\ PageRead(c, Stored(memory.products, Links(page), {}))

(* Mutant: the faulty next stays for the agent to see.                       *)
AfterRepeatKept(cursor) == cursor

(* A next that leads back is a fault, no end, and is given up; nothing is    *)
(* written yet.                                                              *)
AfterRepeat(cursor) == [cursor EXCEPT !.next = NoPage]

RepeatedCursor(c) ==
    /\ MayRead(c) /\ ~IsNewPage(c)
    /\ memory' = [memory EXCEPT !.cursors[c] = AfterRepeat(memory.cursors[c])]
    /\ UNCHANGED <<site, mode, job, checkpoint, worker, pool, skipped>>

(* How a page that is refused ends the process: a challenge nobody solved is *)
(* a person's, a missing or refused browser a blocker, a status a failure.   *)
Refusals == {"HUMAN_REQUIRED", "BLOCKED", "FAILED"}

(* A page of the category, or the browser for one of its products, fails.    *)
PageFails ==
    /\ \E c \in Scopes : MayRead(c) /\ IsNewPage(c)
    /\ \E j \in Refusals : EndsAs(j)
    /\ UNCHANGED <<site, mode, checkpoint, pool, skipped>>

Unproven(payload) == {c \in Scopes : Visited(payload.cursors[c]) /\ ~payload.cursors[c].exhausted}

discovery_status(payload, limit) ==
    IF Len(payload.products) < limit /\ Unproven(payload) # {} THEN "PAGINATION_UNVERIFIED"
    ELSE IF \A c \in Scopes : payload.cursors[c].exhausted THEN "EXHAUSTED"
    ELSE payload.status

(* The agent's products are stored; its next page, else its end, is given to *)
(* the first unproven cursor.                                                *)
Recovered(payload, answer) ==
    LET fixed == [payload EXCEPT !.products = Stored(payload.products, answer.products, {})]
        given(c) == c \in Unproven(payload) /\ \A d \in Unproven(payload) : c <= d
    IN CASE answer.next # NoPage ->
              [fixed EXCEPT !.agent = "NEXT", !.status = "AGENT_RECOVERED",
                !.cursors = [c \in Scopes |-> IF given(c) THEN [@[c] EXCEPT !.next = answer.next] ELSE @[c]]]
         [] answer.next = NoPage /\ answer.end ->
              [fixed EXCEPT !.agent = "END", !.status = "EXHAUSTED",
                !.cursors = [c \in Scopes |-> IF given(c) THEN [@[c] EXCEPT !.exhausted = TRUE] ELSE @[c]]]
         [] OTHER -> [fixed EXCEPT !.agent = "NOTHING"]

(* No page is left or enough products are known.  The agent is asked once in *)
(* the life of the checkpoint, and answers nothing when it is not configured.*)
Conclude ==
    /\ worker.at = "pages"
    /\ Open(memory) = {} \/ Len(memory.products) >= worker.limit
    /\ LET told == [memory EXCEPT !.status = discovery_status(memory, worker.limit)] IN
       \/ told.status = "PAGINATION_UNVERIFIED" /\ told.agent = "NOT_ASKED"
          /\ \E answer \in AgentAnswers : memory' = Recovered(told, answer)
       \/ ~(told.status = "PAGINATION_UNVERIFIED" /\ told.agent = "NOT_ASKED")
          /\ memory' = told
    /\ checkpoint' = memory'
    /\ worker' = [worker EXCEPT !.at = "select"]
    /\ UNCHANGED <<site, mode, job, pool, skipped>>

-----------------------------------------------------------------------------
(* The end of discover, and what the worker makes of it.                     *)

(* The first of them, as many as are needed.                                 *)
Selected ==
    LET available == Available(memory) IN
    {memory.products[i] : i \in {i \in available :
        Cardinality({j \in available : j < i}) < worker.needed}}

IsUnverified == Cardinality(Selected) < worker.needed /\ memory.status = "PAGINATION_UNVERIFIED"

(* Mutant: the checkpoint is written by the next discovery only.             *)
EmittedLater == memory.emitted

EmittedAfter == memory.emitted \cup Selected

SelectBatch ==
    /\ worker.at = "select" /\ ~IsUnverified /\ Selected # {}
    /\ memory' = [memory EXCEPT !.emitted = EmittedAfter]
    /\ checkpoint' = memory'
    /\ worker' = [worker EXCEPT !.at = "add", !.batch = Selected]
    /\ UNCHANGED <<site, mode, job, pool, skipped>>

SelectUnverified ==
    /\ worker.at = "select" /\ IsUnverified
    /\ EndsAs("BLOCKED")
    /\ UNCHANGED <<site, mode, checkpoint, pool, skipped>>

(* The supply is exhausted: what passed is delivered when the job wanted no  *)
(* exact number.                                                             *)
SupplyEnds(reason) ==
    Ends(IF mode # "EXACT_N" /\ pool.passed # {} THEN "COMPLETED" ELSE "TARGET_SHORTAGE", reason)

SelectNothing ==
    /\ worker.at = "select" /\ ~IsUnverified /\ Selected = {}
    /\ \/ /\ worker.purpose = "target"
          /\ worker' = [worker EXCEPT !.at = "lock"] /\ UNCHANGED <<job, memory>>
       \/ worker.purpose # "target" /\ SupplyEnds("supply")
    /\ UNCHANGED <<site, mode, checkpoint, pool, skipped>>

(* A refill that adds nothing is the end of the supply, too.                 *)
add_candidates ==
    /\ worker.at = "add"
    /\ pool' = [pool EXCEPT !.items = @ \cup worker.batch]
    /\ IF worker.purpose = "refill" /\ worker.batch \subseteq pool.items
       THEN SupplyEnds("supply")
       ELSE /\ worker' = [worker EXCEPT !.at = IF worker.purpose = "target" THEN "lock" ELSE "running",
                                        !.batch = {}, !.purpose = "none", !.needed = 0, !.limit = 0]
            /\ UNCHANGED <<job, memory>>
    /\ UNCHANGED <<site, mode, checkpoint, skipped>>

(* A candidate is delivered or rejected; a delivered one was paid for, a     *)
(* rejected one may have been.                                               *)
Settle(p) ==
    /\ worker.at = "running" /\ Cardinality(pool.passed) < pool.target
    /\ p \in pool.items \ (pool.passed \cup pool.failed)
    /\ \/ pool' = [pool EXCEPT !.passed = @ \cup {p}, !.paid = TRUE]
       \/ \E paid \in {pool.paid, TRUE} : pool' = [pool EXCEPT !.failed = @ \cup {p}, !.paid = paid]
    /\ UNCHANGED <<site, mode, job, checkpoint, memory, worker, skipped>>

(* The engine's tick when no candidate can go on.                            *)
Tick ==
    /\ worker.at = "running"
    /\ UNCHANGED <<site, mode, checkpoint, pool, skipped>>
    /\ \/ Cardinality(pool.passed) >= pool.target /\ EndsAs("COMPLETED")
       \/ /\ Cardinality(pool.passed) < pool.target
          /\ pool.items \subseteq pool.passed \cup pool.failed
          /\ \/ worker.rounds = MAX_REFILL_ROUNDS /\ SupplyEnds("rounds")
             \/ /\ worker.rounds < MAX_REFILL_ROUNDS
                /\ refill([worker EXCEPT !.rounds = @ + 1], "refill",
                          pool.target - Cardinality(pool.passed))
                /\ UNCHANGED job

DiscoveryStep ==
    \/ \E c \in Scopes : ReadHtmlPage(c) \/ ReadGraphqlPage(c) \/ RepeatedCursor(c)
    \/ PageFails \/ Conclude \/ SelectBatch \/ SelectUnverified \/ SelectNothing

Next ==
    \/ Start \/ Crash
    \/ _target_and_quotas \/ LockPolicy \/ DiscoveryStep \/ add_candidates
    \/ \E p \in Products : Settle(p)
    \/ Tick

(* discover runs to its end in one call of the worker, and every request it  *)
(* makes has a timeout.                                                      *)
Spec == Init /\ [][Next]_vars /\ WF_vars(DiscoveryStep)

(***************************************************************************)
(* Properties.                                                             *)
(***************************************************************************)

Offered ==
    UNION {ToSet(Links(site.contents[p])) :
             p \in UNION {Following(site.contents, site.entry[c]) : c \in Scopes}}

(* The job says that its categories have no more: it is told so, it delivers *)
(* fewer than its target, or its target is ALL and is delivered.  It may say *)
(* so too when it has used up its refills or counted the most it counts.     *)
ClaimsAll ==
    /\ \/ job = "TARGET_SHORTAGE"
       \/ job = "COMPLETED" /\ (mode = "ALL" \/ Cardinality(pool.passed) < pool.target)
    /\ worker.reason # "rounds" /\ Cardinality(checkpoint.emitted) < ALL_PRODUCTS

(* No false shortage: however pages fail, cursors repeat and processes die,  *)
(* a job that claims to have had everything was handed every product of its  *)
(* categories that was not passed over for its own failing page or for the   *)
(* limit, as long as the agent told neither a next page nor an end.          *)
NoFalseShortage ==
    ClaimsAll /\ checkpoint.agent \notin {"NEXT", "END"}
      => Offered \subseteq checkpoint.emitted \cup skipped

(* A batch is new: across deaths between the two files, the checkpoint never *)
(* hands out a product that is in the pool, or the engine, adding none, would*)
(* take its own candidates for the end of the supply.                        *)
BatchIsNew ==
    worker.at = "add" => worker.batch # {} /\ worker.batch \cap pool.items = {}

(* The policy under which something was paid for is not changed by a later   *)
(* count of the supply.                                                      *)
PaidPolicyIsKept ==
    [][pool.paid => pool'.target = pool.target]_vars

(* A discovery ends, though the site's pages may lead back to one another:   *)
(* with a batch, an end, a blocker or the process.                           *)
EveryDiscoveryEnds ==
    worker.at \in {"pages", "select"} ~> worker.at \notin {"pages", "select"}

=============================================================================
