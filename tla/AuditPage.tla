---------------------------- MODULE AuditPage -----------------------------
(***************************************************************************)
(* The audit page of the web UI (components/AuditTrail.tsx): a filter kept *)
(* in the URL, the list of entries in a store that outlives the page       *)
(* (stores/auditStore.ts), filled by calls to the server and by the live   *)
(* events of the stream (hooks/useAuditLog.ts).                            *)
(*                                                                         *)
(* An event or a continuation is one step with the React effects it sets   *)
(* off.  The filter is by user; the other six criteria go the same way.    *)
(* An entry is the millisecond its request began at, the time the page     *)
(* sorts by; it is recorded and announced when the request ends.           *)
(***************************************************************************)
EXTENDS Naturals, Sequences, FiniteSets

CONSTANTS
    Entries,    \* audit entries, numbered by the time of their requests
    Old,        \* those announced before the page is loaded
    Senders,
    SenderOf,   \* SenderOf[e]: the user of entry e
    Whole,      \* entries whose time has no digits below a microsecond
    Limit,      \* rows the server answers at most
    None,
    MaxClicks,  \* page changes and filter changes
    MaxFaults   \* failed calls and INSERTs, events lost while the stream was down

\* A row of the list.  The stream sends times in nanoseconds; the database, and
\* so an answer, keeps microseconds.
Row == [entry: Entries, precise: BOOLEAN]

ASSUME AuditPageAssumption ==
    /\ Entries \subseteq Nat /\ Old \subseteq Entries /\ IsFiniteSet(Old)
    /\ SenderOf \in [Entries -> Senders]
    /\ None \notin Senders /\ None \notin Row \X Nat
    /\ Whole \subseteq Entries
    /\ Limit \in Nat \ {0} /\ MaxClicks \in Nat /\ MaxFaults \in Nat

VARIABLES
    phase,     \* phase[e]: is the entry recorded, and announced?  An entry whose
               \* INSERT has failed is "unstored" once it is announced
    wire,      \* announced entries on their way to this browser
    mounted,   \* is the audit page shown?
    url,       \* the filter in the URL's parameters
    filters,   \* auditStore.filters
    rows,      \* auditStore.entries
    total,     \* auditStore.total; None: not a number
    loading, error,
    fetches,   \* calls of GET /admin/audit in flight
    expanded,  \* the row key that is expanded
    reason,    \* what the LLMResponseBlock of the expanded row shows
    asked,     \* its calls of GET /admin/llm-responses in flight
    clicks, faults

vars == <<phase, wire, mounted, url, filters, rows, total, loading, error,
          fetches, expanded, reason, asked, clicks, faults>>

serverVars == <<phase, wire>>
store == <<filters, rows, total>>
block == <<expanded, reason, asked>>

Filter == Senders \cup {None}

Live(e) == [entry |-> e, precise |-> TRUE]
Stored(e) == [entry |-> e, precise |-> FALSE]

SameStamp(r, s) == r.precise = s.precise \/ r.entry \in Whole

\* A call of the effect that fetches; `rows` is None until the server answers.
Fetch(f, current) == [filter |-> f, current |-> current, rows |-> None]

Matches(e, f) == f = None \/ SenderOf[e] = f

-----------------------------------------------------------------------------
\* The server: an entry is recorded, then announced; requests interleave.

Recorded == {e \in Entries : phase[e] \in {"recorded", "announced"}}

\* getAuditLog: the newest entries that match.  The answer has no total.
AuditLog(f) ==
    LET found == {e \in Recorded : Matches(e, f)}
        Newer(e) == {d \in found : d > e}
        count == IF Cardinality(found) < Limit THEN Cardinality(found) ELSE Limit
    IN  [k \in 1..count |->
            Stored(CHOOSE e \in found : Cardinality(Newer(e)) = k - 1)]

\* An INSERT that fails is only logged.
Record(e) ==
    /\ phase[e] = "none"
    /\ \/ phase' = [phase EXCEPT ![e] = "recorded"] /\ UNCHANGED faults
       \/ /\ faults < MaxFaults /\ faults' = faults + 1
          /\ phase' = [phase EXCEPT ![e] = "failed"]
    /\ UNCHANGED <<wire, mounted, url, store, loading, error, fetches, block,
                   clicks>>

Announce(e) ==
    /\ \/ phase[e] = "recorded" /\ phase' = [phase EXCEPT ![e] = "announced"]
       \/ phase[e] = "failed" /\ phase' = [phase EXCEPT ![e] = "unstored"]
    /\ \/ wire' = Append(wire, e) /\ UNCHANGED faults
       \/ faults < MaxFaults /\ faults' = faults + 1 /\ UNCHANGED wire
    /\ UNCHANGED <<mounted, url, store, loading, error, fetches, block, clicks>>

Query(c) ==
    /\ c.rows = None
    /\ fetches' = (fetches \ {c}) \cup {[c EXCEPT !.rows = AuditLog(c.filter)]}
    /\ UNCHANGED <<serverVars, mounted, url, store, loading, error, block, clicks,
                   faults>>

-----------------------------------------------------------------------------
\* stores/auditStore.ts

\* A mutation: the list is taken in the order it comes.
SortedAsItComes(s) == s

\* The places in s of the rows that come before s[i] when it is sorted; the sort
\* is stable, rows of the same millisecond keep their order.
Ahead(s, i) == {j \in DOMAIN s : \/ s[j].entry > s[i].entry
                                 \/ s[j].entry = s[i].entry /\ j < i}

Sorted(s) ==
    [k \in DOMAIN s |->
        s[CHOOSE i \in DOMAIN s : Cardinality(Ahead(s, i)) = k - 1]]

AddEntry(e) ==
    IF \E i \in DOMAIN rows : rows[i].entry = e /\ SameStamp(rows[i], Live(e))
    THEN UNCHANGED <<rows, total>>
    ELSE /\ rows' = Sorted(<<Live(e)>> \o rows)
         /\ total' = IF total = None THEN None ELSE total + 1

SetEntries(answer) ==
    /\ rows' = Sorted(answer)
    /\ total' = None

HasMore == total # None /\ Len(rows) < total

-----------------------------------------------------------------------------
\* The expanded row.  Its LLMResponseBlock lives as long as the key of its row;
\* a new one, or one given another entry, asks for the entry's judgement.

\* A mutation: rows are known by their place in the list only.
RowKeyIndex(s, i) == i

RowKey(s, i) == <<s[i], i>>

ExpandedIn(s) == {i \in DOMAIN s : expanded # None /\ RowKey(s, i) = expanded}

Rerender ==
    IF ExpandedIn(rows') = {}
    THEN /\ reason' = None /\ asked' = {}
         /\ UNCHANGED expanded
    ELSE LET was == ExpandedIn(rows)
             now == ExpandedIn(rows')
         IN  /\ UNCHANGED <<expanded, reason>>
             /\ asked' = IF \E i \in was, j \in now :
                                rows[i].entry = rows'[j].entry
                         THEN asked
                         ELSE asked \cup {rows'[j].entry : j \in now}

Toggle(i) ==
    /\ mounted
    /\ clicks < MaxClicks
    /\ clicks' = clicks + 1
    /\ IF expanded = RowKey(rows, i)
       THEN expanded' = None /\ asked' = {}
       ELSE expanded' = RowKey(rows, i) /\ asked' = {rows[i].entry}
    /\ reason' = None
    /\ UNCHANGED <<serverVars, mounted, url, store, loading, error, fetches,
                   faults>>

\* getLLMResponse answers; a failure leaves the block as it is.
Judgement(e) ==
    /\ e \in asked
    /\ asked' = asked \ {e}
    /\ \/ reason' = e /\ UNCHANGED faults
       \/ faults < MaxFaults /\ faults' = faults + 1 /\ UNCHANGED reason
    /\ UNCHANGED <<serverVars, mounted, url, store, loading, error, fetches,
                   expanded, clicks>>

-----------------------------------------------------------------------------
\* hooks/useAuditLog.ts and AuditTrail.tsx

Cancelled == {[c EXCEPT !.current = FALSE] : c \in fetches}

\* setFilters, and the effect that fetches whenever the filters are set anew.
SetFilters(f) ==
    /\ filters' = f
    /\ loading' = TRUE

\* The hook's effect fetches with the filters the store still has; then the
\* page's effect copies the URL's to the store, and the hook fetches again.
Mount(f) ==
    /\ ~mounted
    /\ clicks < MaxClicks
    /\ clicks' = clicks + 1
    /\ mounted' = TRUE /\ url' = f /\ error' = FALSE
    /\ SetFilters(f)
    /\ fetches' = Cancelled \cup {Fetch(filters, FALSE), Fetch(f, TRUE)}
    /\ UNCHANGED <<serverVars, rows, total, block, faults>>

Unmount ==
    /\ mounted
    /\ clicks < MaxClicks
    /\ clicks' = clicks + 1
    /\ mounted' = FALSE
    /\ fetches' = Cancelled
    /\ expanded' = None /\ reason' = None /\ asked' = {}
    /\ UNCHANGED <<serverVars, url, store, loading, error, faults>>

\* Any control of the filter bar: the URL is replaced, and the effects follow.
SetParam(f) ==
    /\ mounted /\ f # url
    /\ clicks < MaxClicks
    /\ clicks' = clicks + 1
    /\ url' = f
    /\ SetFilters(f)
    /\ fetches' = Cancelled \cup {Fetch(f, TRUE)}
    /\ UNCHANGED <<serverVars, mounted, rows, total, error, block, faults>>

\* A mutation: an answer is used whether or not its effect was cancelled.
ArriveAnyway(c) ==
    /\ c.rows # None
    /\ fetches' = fetches \ {c}
    /\ SetEntries(c.rows) /\ Rerender
    /\ error' = FALSE /\ loading' = FALSE
    /\ UNCHANGED <<serverVars, mounted, url, filters, clicks, faults>>

Arrive(c) ==
    /\ c.rows # None
    /\ fetches' = fetches \ {c}
    /\ IF c.current
       THEN /\ SetEntries(c.rows) /\ Rerender
            /\ error' = FALSE /\ loading' = FALSE
       ELSE UNCHANGED <<rows, total, loading, error, block>>
    /\ UNCHANGED <<serverVars, mounted, url, filters, clicks, faults>>

\* A mutation: the spinner is taken away by answers only.
FailStillLoading(c) ==
    /\ faults < MaxFaults
    /\ faults' = faults + 1
    /\ fetches' = fetches \ {c}
    /\ error' = (c.current \/ error)
    /\ UNCHANGED <<serverVars, mounted, url, store, loading, block, clicks>>

Fail(c) ==
    /\ faults < MaxFaults
    /\ faults' = faults + 1
    /\ fetches' = fetches \ {c}
    /\ IF c.current
       THEN error' = TRUE /\ loading' = FALSE
       ELSE UNCHANGED <<loading, error>>
    /\ UNCHANGED <<serverVars, mounted, url, store, block, clicks>>

\* The callback that the hook registers with the stream's client.
Deliver ==
    /\ wire # <<>>
    /\ wire' = Tail(wire)
    /\ IF mounted /\ Matches(Head(wire), filters)
       THEN AddEntry(Head(wire)) /\ Rerender
       ELSE UNCHANGED <<rows, total, block>>
    /\ UNCHANGED <<phase, mounted, url, filters, loading, error, fetches, clicks,
                   faults>>

Init ==
    /\ phase = [e \in Entries |-> IF e \in Old THEN "announced" ELSE "none"]
    /\ wire = <<>>
    /\ mounted = FALSE /\ url = None /\ filters = None
    /\ rows = <<>> /\ total = 0
    /\ loading = TRUE /\ error = FALSE /\ fetches = {}
    /\ expanded = None /\ reason = None /\ asked = {}
    /\ clicks = 0 /\ faults = 0

Next ==
    \/ \E e \in Entries : Record(e) \/ Announce(e)
    \/ Deliver
    \/ \E f \in Filter : Mount(f) \/ SetParam(f)
    \/ Unmount
    \/ \E i \in DOMAIN rows : Toggle(i)
    \/ \E c \in fetches : Query(c) \/ Arrive(c) \/ Fail(c)
    \/ \E e \in asked : Judgement(e)

Spec == Init /\ [][Next]_vars

\* The server answers every call, and the browser brings every answer.
FairSpec == Spec /\ WF_vars(\E c \in fetches : Query(c) \/ Arrive(c) \/ Fail(c))

-----------------------------------------------------------------------------
TypeOK ==
    /\ phase \in [Entries -> {"none", "recorded", "failed", "announced", "unstored"}]
    /\ wire \in Seq(Entries) /\ rows \in Seq(Row)
    /\ url \in Filter /\ filters \in Filter
    /\ total \in Nat \cup {None}
    /\ {mounted, loading, error} \subseteq BOOLEAN
    /\ \A c \in fetches :
           c.filter \in Filter /\ c.current \in BOOLEAN
           /\ c.rows \in Seq(Row) \cup {None}
    /\ asked \subseteq Entries /\ reason \in Entries \cup {None}

\* Once the page has loaded, every row satisfies the filter in the URL, however
\* answers overtake each other, live entries mix with them and the page is left
\* and shown again with the store of an earlier visit (useAuditLog.ts:15-65).
RowsMatchFilter ==
    mounted /\ ~loading /\ ~error =>
        \A i \in DOMAIN rows : Matches(rows[i].entry, url)

\* The list is newest first although entries are announced in the order their
\* requests end (auditStore.ts:56-61).
NewestFirst ==
    \A i, j \in DOMAIN rows : i < j => rows[i].entry >= rows[j].entry

\* The judgement shown in an expanded row is that of its entry, though rows move
\* under it while the call is on its way (AuditTrail.tsx:8-13, 379-385).
ReasonBelongs ==
    reason # None =>
        /\ expanded # None
        /\ \A i \in ExpandedIn(rows) : rows[i].entry = reason

\* The spinner goes away, also when calls fail and answers are overtaken.
LoadingEnds == mounted ~> (~loading \/ ~mounted)

\* What the page says of itself: "Complete history of all requests"
\* (AuditTrail.tsx:213).  Once it has loaded without a failure, an entry that
\* was recorded before the page was opened is in the list, or more can be loaded.
CompleteHistory ==
    mounted /\ ~loading /\ ~error /\ wire = <<>> /\ faults = 0
        => \/ HasMore
           \/ \A e \in Entries :
                  phase[e] = "announced" /\ Matches(e, url)
                      => \E i \in DOMAIN rows : rows[i].entry = e
=============================================================================
