-------------------------------- MODULE Notices --------------------------------
(***************************************************************************)
(* How a payment is told of: to the open pages of the merchant             *)
(* (SseService, SseController), to the merchant's webhook                  *)
(* (WebhookDispatcherService) and to the page of the customer              *)
(* (PaymentStatusController).  A page's stream is named by the request     *)
(* that opened it; it stays open when the handler has returned.            *)
(***************************************************************************)
EXTENDS Business, Sequences

CONSTANTS
    MaxRetries,     \* MAX_RETRIES
    MaxTicks,       \* SSE_MAX_DURATION_MS in polls
    MaxReads,       \* bound: reads of one status stream that overlap
    MaxTabs,        \* bound: pages of merchants
    MaxWatches      \* bound: pages of customers

ASSUME NoticeBoundsAssumption ==
    /\ MaxRetries \in Nat \ {0} /\ MaxTicks \in Nat \ {0}
    /\ MaxReads \in Nat \ {0} /\ MaxTabs \in Nat /\ MaxWatches \in Nat

VARIABLES
    status,     \* the payment's status
    tab,        \* merchants' pages: who each belongs to, and its connection
    clients,    \* the registry of SseService: the pages of each business
    watch,      \* customers' pages that wait for the payment
    delivery,   \* history: the outcome of each call of the webhook
    log         \* rows of webhook_logs: the outcomes that were logged

noticeVars == <<status, tab, clients, watch, delivery, log>>

Statuses == {"payment_created", "incomplete_payment", "payment_completed"}

(* reads are the polls under way, each with what it will find; first and   *)
(* last what the page was told first and last; end how the stream ended,   *)
(* and late whether anything was written to it afterwards.                 *)
WatchRow == [ticks : 0..MaxTicks, reads : SUBSET ((0..MaxTicks) \X Statuses),
             first : Statuses \union {Empty}, last : Statuses \union {Empty},
             end : {"no", "complete", "timeout", "error", "gone"}, late : BOOLEAN]

TabRow == [business : Businesses, connected : BOOLEAN]

ASSUME NullPageAssumption ==
    Empty \notin WatchRow /\ Empty \notin TabRow /\ Empty \notin Statuses

NoticeInit ==
    /\ status = "payment_created"
    /\ tab = [r \in Requests |-> Empty]
    /\ clients = [b \in Businesses |-> {}]
    /\ watch = [r \in Requests |-> Empty]
    /\ delivery = [r \in Requests |-> <<>>]
    /\ log = [r \in Requests |-> <<>>]

-----------------------------------------------------------------------------
(* The pages of a merchant disconnect together. *)
Without_Bug(pages, r) == {}

Without(pages, r) == pages \ {r}

(* The last attempt is not made. *)
Retries_Bug(outcomes) == Len(outcomes) < MaxRetries - 1

(* After a failure there is another attempt, up to MAX_RETRIES. *)
Retries(outcomes) == Len(outcomes) < MaxRetries

(* An incomplete payment is waited for as if it could still go on. *)
Terminal_Bug(s) == s = "payment_completed"

Terminal(s) == s \in {"payment_completed", "incomplete_payment"}

-----------------------------------------------------------------------------
(* Merchants' pages. *)

(* SseController.stream registers the response. *)
OpenTab(r, b) ==
    /\ user[b] # Empty
    /\ Cardinality({q \in Requests : tab[q] # Empty}) < MaxTabs
    /\ Begin(r, Done)
    /\ tab' = [tab EXCEPT ![r] = [business |-> b, connected |-> TRUE]]
    /\ clients' = [clients EXCEPT ![b] = @ \union {r}]
    /\ UNCHANGED <<businessVars, status, watch, delivery, log>>

(* The connection is gone, and the server is not told yet. *)
LoseTab(r) ==
    /\ tab[r] # Empty /\ tab[r].connected
    /\ tab' = [tab EXCEPT ![r].connected = FALSE]
    /\ UNCHANGED <<requestVars, businessVars, status, clients, watch, delivery, log>>

(* The cleanup that register returned. *)
CloseTab(r) ==
    /\ tab[r] # Empty
    /\ tab' = [tab EXCEPT ![r] = Empty]
    /\ clients' = [clients EXCEPT ![tab[r].business] = Without(@, r)]
    /\ UNCHANGED <<requestVars, businessVars, status, watch, delivery, log>>

(* A write to a page that is gone may throw: the page is dropped. *)
Emit(b, failed) ==
    /\ failed \subseteq {r \in clients[b] : tab[r] # Empty /\ ~tab[r].connected}
    /\ clients' = [clients EXCEPT ![b] = @ \ failed]

Heartbeat(b, failed) ==
    /\ Emit(b, failed)
    /\ UNCHANGED <<requestVars, businessVars, status, tab, watch, delivery, log>>

-----------------------------------------------------------------------------
(* The payment is confirmed: its business is told by the webhook before    *)
(* the transaction commits, and by its pages afterwards.                   *)

ConfirmPayment(r, b) ==
    /\ user[b] # Empty /\ status # "payment_completed"
    /\ Begin(r, [op |-> "webhook", at |-> "dispatch", business |-> b])
    /\ UNCHANGED <<businessVars, noticeVars>>

(* The address is read once, before the first attempt. *)
Dispatch(r) ==
    /\ At(r, "webhook", "dispatch")
    /\ LET row == setting[job[r].business] IN
       Continue(r, [job[r] EXCEPT !.at = IF row # Empty /\ row.url THEN "post" ELSE "commit"])
    /\ UNCHANGED <<businessVars, noticeVars>>

(* The merchant answers with success, or with something else, or not in    *)
(* time.                                                                   *)
Post(r, success) ==
    /\ At(r, "webhook", "post")
    /\ delivery' = [delivery EXCEPT ![r] = Append(@, success)]
    /\ Continue(r, [job[r] EXCEPT !.at = "log"])
    /\ UNCHANGED <<businessVars, status, tab, clients, watch, log>>

AfterLog(r) ==
    [job[r] EXCEPT !.at = IF ~delivery[r][Len(delivery[r])] /\ Retries(delivery[r])
                          THEN "post" ELSE "commit"]

LogAttempt(r) ==
    /\ At(r, "webhook", "log")
    /\ log' = [log EXCEPT ![r] = Append(@, delivery[r][Len(delivery[r])])]
    /\ Continue(r, AfterLog(r))
    /\ UNCHANGED <<businessVars, status, tab, clients, watch, delivery>>

(* A log that cannot be written does not stop the attempts. *)
LogFails(r) ==
    /\ At(r, "webhook", "log")
    /\ faults < MaxFaults
    /\ faults' = faults + 1
    /\ job' = [job EXCEPT ![r] = AfterLog(r)]
    /\ UNCHANGED <<inSeries, businessVars, noticeVars>>

(* transaction.confirmed *)
Commit(r, failed) ==
    /\ At(r, "webhook", "commit")
    /\ status' = "payment_completed"
    /\ Emit(job[r].business, failed)
    /\ Continue(r, [job[r] EXCEPT !.at = "balance"])
    /\ UNCHANGED <<businessVars, tab, watch, delivery, log>>

(* wallet.balance_updated, once the wallets have been read, and            *)
(* order.payment_received                                                  *)
EmitBalance(r, failed) ==
    /\ At(r, "webhook", "balance")
    /\ Emit(job[r].business, failed)
    /\ Finish(r)
    /\ UNCHANGED <<businessVars, status, tab, watch, delivery, log>>

-----------------------------------------------------------------------------
(* The page of the customer. *)

IncompletePayment ==
    /\ status = "payment_created"
    /\ status' = "incomplete_payment"
    /\ UNCHANGED <<requestVars, businessVars, tab, clients, watch, delivery, log>>

(* The timer is started and the first snapshot read. *)
OpenWatch(r) ==
    /\ Cardinality({q \in Requests : watch[q] # Empty}) < MaxWatches
    /\ Begin(r, Done)
    /\ watch' = [watch EXCEPT ![r] = [ticks |-> 0, reads |-> {<<0, status>>}, first |-> Empty,
                                      last |-> Empty, end |-> "no", late |-> FALSE]]
    /\ UNCHANGED <<businessVars, status, tab, clients, delivery, log>>

Watching(r) == watch[r] # Empty /\ watch[r].end = "no"

SetWatch(r, w) ==
    /\ watch' = [watch EXCEPT ![r] = w]
    /\ UNCHANGED <<requestVars, businessVars, status, tab, clients, delivery, log>>

(* The timer does not wait for the poll before; the last tick ends the     *)
(* stream.  In series a poll is answered before the next.                  *)
Tick(r) ==
    /\ Watching(r)
    /\ LET w == watch[r] IN
       /\ Cardinality(w.reads) < IF inSeries THEN 1 ELSE MaxReads
       /\ SetWatch(r, IF w.ticks + 1 = MaxTicks
                      THEN [w EXCEPT !.ticks = MaxTicks, !.end = "timeout"]
                      ELSE [w EXCEPT !.ticks = @ + 1,
                                     !.reads = @ \union {<<w.ticks + 1, status>>}])

(* What w becomes when it is told s, unless that is what it was told last. *)
Told(w, s) ==
    IF w.last = s THEN [w EXCEPT !.late = @ \/ w.end # "no"]
    ELSE [w EXCEPT !.last = s, !.late = @ \/ w.end # "no",
                   !.end = IF @ = "no" /\ Terminal(s) THEN "complete" ELSE @]

(* The first snapshot is told whatever it says, and ends nothing. *)
Answer(r, n, s) ==
    /\ watch[r] # Empty /\ <<n, s>> \in watch[r].reads
    /\ LET w == [watch[r] EXCEPT !.reads = @ \ {<<n, s>>}] IN
       SetWatch(r, IF n = 0 THEN [w EXCEPT !.first = s, !.last = s, !.late = @ \/ w.end # "no"]
                   ELSE Told(w, s))

(* A poll that fails is reported to the page; a first snapshot that fails  *)
(* ends the stream.                                                        *)
FailRead(r, n, s) ==
    /\ watch[r] # Empty /\ <<n, s>> \in watch[r].reads
    /\ faults < MaxFaults
    /\ faults' = faults + 1
    /\ watch' = [watch EXCEPT ![r].reads = @ \ {<<n, s>>},
                              ![r].late = @ \/ watch[r].end # "no",
                              ![r].end = IF @ = "no" /\ n = 0 THEN "error" ELSE @]
    /\ UNCHANGED <<job, inSeries, businessVars, status, tab, clients, delivery, log>>

CloseWatch(r) == Watching(r) /\ SetWatch(r, [watch[r] EXCEPT !.end = "gone"])

NoticeNext ==
    \/ \E r \in Requests :
        \/ \E b \in Businesses : OpenTab(r, b) \/ ConfirmPayment(r, b)
        \/ \E failed \in SUBSET Requests : Commit(r, failed) \/ EmitBalance(r, failed)
        \/ LoseTab(r) \/ CloseTab(r) \/ Dispatch(r)
        \/ \E success \in BOOLEAN : Post(r, success)
        \/ LogAttempt(r) \/ LogFails(r)
        \/ OpenWatch(r) \/ Tick(r) \/ CloseWatch(r)
        \/ \E n \in 0..MaxTicks, s \in Statuses : Answer(r, n, s) \/ FailRead(r, n, s)
    \/ \E b \in Businesses : \E failed \in SUBSET clients[b] : Heartbeat(b, failed)
    \/ IncompletePayment

-----------------------------------------------------------------------------
(* Properties. *)

NoticeTypes ==
    /\ status \in Statuses
    /\ tab \in [Requests -> TabRow \union {Empty}]
    /\ clients \in [Businesses -> SUBSET Requests]
    /\ watch \in [Requests -> WatchRow \union {Empty}]
    /\ delivery \in [Requests -> Seq(BOOLEAN)]
    /\ log \in [Requests -> Seq(BOOLEAN)]

(* Whatever other pages were closed or dropped, a page that is connected   *)
(* is among those that the events of its business's payments are written   *)
(* to; one that was closed is not, and none is among another business's.   *)
(* (Events of withdrawals are emitted to the number of the user's row,     *)
(* under which no page is registered: they are told to nobody, which       *)
(* SseController promises they are.)                                       *)
ConnectedAreTold ==
    \A b \in Businesses :
        /\ \A r \in clients[b] : tab[r] # Empty /\ tab[r].business = b
        /\ \A r \in Requests : tab[r] # Empty /\ tab[r].business = b /\ tab[r].connected =>
                r \in clients[b]

(* A webhook is called until it answers with success, MAX_RETRIES times at *)
(* most; unless something ends early, every call is logged by then.        *)
CalledUntilDelivered ==
    \A r \in Requests :
        LET n == Len(delivery[r]) IN
        /\ n <= MaxRetries
        /\ \A i \in 1..n : delivery[r][i] => i = n
        /\ At(r, "webhook", "commit") /\ faults = 0 /\ n > 0 =>
            log[r] = delivery[r] /\ (delivery[r][n] \/ n = MaxRetries)

(* However polls overlap, no page is told that the payment is over, or     *)
(* that its stream is complete, before it is over; and it stays over.  And *)
(* while each poll is answered before the next, a stream ends once a poll  *)
(* has told that the payment is over, and nothing is written to it then.   *)
(* (Neither holds when polls overlap.  A page that is opened when the      *)
(* payment is over is told so, and is sent no "complete", which            *)
(* PaymentStatusController promises it is: its stream is held until it     *)
(* times out.)                                                             *)
StreamEndsWhenPaid ==
    \A r \in Requests : watch[r] # Empty =>
        LET w == watch[r]
            Over(s) == s \in {"payment_completed", "incomplete_payment"}
        IN
        /\ Over(w.first) \/ Over(w.last) \/ w.end = "complete" => Over(status)
        /\ inSeries =>
            /\ Over(w.last) => w.end # "no" \/ w.first = w.last
            /\ w.end \in {"complete", "timeout", "error"} => ~w.late
=============================================================================
