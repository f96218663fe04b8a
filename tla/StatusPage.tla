----------------------------- MODULE StatusPage -----------------------------
(***************************************************************************)
(* The answer to /status?format=json, which the controller polls: the page *)
(* is written in two passes over the peers' records, one that counts what  *)
(* will be shown and one that shows it, while other workers go on changing *)
(* the records (ngx_upstream_check_status_json_format).                    *)
(*                                                                         *)
(* The history variables ever and always hold the peers that passed the    *)
(* filter at some moment and at every moment of the request.               *)
(***************************************************************************)
EXTENDS Naturals, Sequences, FiniteSets

CONSTANTS Http, Stream,  \* the number of peers of either module
          Filter,        \* the argument status: "down", "up" or "none"
          MaxFlips       \* bound: changes of a record during a request

ASSUME PageAssumption ==
    /\ Http \in Nat /\ Stream \in Nat /\ MaxFlips \in Nat
    /\ Filter \in {"down", "up", "none"}

Kinds == {"http", "stream"}
PeersOf(kind, n) == [i \in 1..n |-> [kind |-> kind, index |-> i]]
HttpPeers == PeersOf("http", Http)
StreamPeers == PeersOf("stream", Stream)
Peers == {HttpPeers[i] : i \in 1..Http} \cup {StreamPeers[i] : i \in 1..Stream}

VARIABLES down,    \* shm->down of every peer
          pass,    \* "count" or "list": the pass under way, "done"
          todo,    \* the peers the pass has not visited yet
          total,   \* http_count and stream_count
          page,    \* the entries written so far in either list, with their separators
          flips, ever, always

record == <<down, flips>>
history == <<ever, always>>
pvars == <<down, pass, todo, total, page, flips, ever, always>>

\* The filter both passes apply to a record.
Shown(p) ==
    CASE Filter = "down" -> down[p]
      [] Filter = "up" -> ~down[p]
      [] OTHER -> TRUE

ListedOf(kind) == {page[kind][i].peer : i \in 1..Len(page[kind])}
Listed == UNION {ListedOf(kind) : kind \in Kinds}

-----------------------------------------------------------------------------
Begun ==
    /\ pass' = "count" /\ todo' = StreamPeers \o HttpPeers
    /\ total' = [kind \in Kinds |-> 0] /\ page' = [kind \in Kinds |-> <<>>]

PageInit ==
    /\ down \in [Peers -> BOOLEAN] /\ flips = 0
    /\ pass = "count" /\ todo = StreamPeers \o HttpPeers
    /\ total = [kind \in Kinds |-> 0] /\ page = [kind \in Kinds |-> <<>>]
    /\ ever = {p \in Peers : Shown(p)} /\ always = ever

\* The next request to the page.
request ==
    /\ pass = "done" /\ Begun
    /\ flips' = 0 /\ UNCHANGED down
    /\ ever' = {p \in Peers : Shown(p)} /\ always' = ever'

\* First pass: the peers that will be shown are counted, stream before http.
count_peer ==
    /\ pass = "count" /\ todo # <<>>
    /\ todo' = Tail(todo)
    /\ total' = IF Shown(Head(todo)) THEN [total EXCEPT ![Head(todo).kind] = @ + 1]
                ELSE total
    /\ UNCHANGED <<pass, page, record, history>>

\* The total is printed, and the lists begin with http.
write_total ==
    /\ pass = "count" /\ todo = <<>>
    /\ pass' = "list" /\ todo' = HttpPeers \o StreamPeers
    /\ UNCHANGED <<total, page, record, history>>

\* The entry of peer p with the given number in its list: it is followed by a
\* comma unless its number is the one counted.
Entry(p, number) == [peer |-> p, comma |-> number # total[p.kind]]

Written(p, number) == [page EXCEPT ![p.kind] = Append(@, Entry(p, number))]

\* Variant: the second pass relies on the filter of the first.
list_peer_unfiltered ==
    /\ pass = "list" /\ todo # <<>>
    /\ todo' = Tail(todo)
    /\ LET p == Head(todo) IN page' = Written(p, Len(page[p.kind]) + 1)
    /\ UNCHANGED <<pass, total, record, history>>

\* Variant: the list stops at the number that was counted.
list_peer_limited ==
    /\ pass = "list" /\ todo # <<>>
    /\ todo' = Tail(todo)
    /\ LET p == Head(todo)
           count == Len(page[p.kind]) + 1
       IN page' = IF Shown(p) /\ count <= total[p.kind] THEN Written(p, count) ELSE page
    /\ UNCHANGED <<pass, total, record, history>>

\* Variant: the entries of both modules are numbered together.
list_peer_one_count ==
    /\ pass = "list" /\ todo # <<>>
    /\ todo' = Tail(todo)
    /\ LET p == Head(todo)
           count == Len(page["http"]) + Len(page["stream"]) + 1
       IN page' = IF Shown(p) THEN Written(p, count) ELSE page
    /\ UNCHANGED <<pass, total, record, history>>

\* Second pass: the record is read again, and a peer that is shown is written
\* to its list.
list_peer ==
    /\ pass = "list" /\ todo # <<>>
    /\ todo' = Tail(todo)
    /\ LET p == Head(todo)
       IN page' = IF Shown(p) THEN Written(p, Len(page[p.kind]) + 1) ELSE page
    /\ UNCHANGED <<pass, total, record, history>>

send_page ==
    /\ pass = "list" /\ todo = <<>>
    /\ pass' = "done"
    /\ UNCHANGED <<todo, total, page, record, history>>

\* status_update in another worker enables or disables a peer.
status_changes(p) ==
    /\ pass # "done" /\ flips < MaxFlips /\ flips' = flips + 1
    /\ down' = [down EXCEPT ![p] = ~@]
    /\ ever' = ever \cup {q \in Peers : Shown(q)'}
    /\ always' = {q \in always : Shown(q)'}
    /\ UNCHANGED <<pass, todo, total, page>>

PageNext ==
    \/ request \/ count_peer \/ write_total \/ list_peer \/ send_page
    \/ \E p \in Peers : status_changes(p)

PageSpec == PageInit /\ [][PageNext]_pvars

-----------------------------------------------------------------------------
\* The page shows no peer that did not pass the filter at some moment of the
\* request: the controller withdraws no backend that was up throughout.
PageSound == pass = "done" => Listed \subseteq ever

\* The page shows every peer that passed the filter throughout the request:
\* the controller restores no backend that was down throughout.
PageComplete == pass = "done" => always \subseteq Listed

\* The page is JSON (content type application/json, "RFC 4627") if no record
\* passed or left the filter during the request: in either list the entries but
\* the last are followed by a comma, so that the two passes agree on the last.
PageWellFormed ==
    pass = "done" /\ ever = always =>
        \A kind \in Kinds : \A i \in 1..Len(page[kind]) :
            page[kind][i].comma <=> i < Len(page[kind])
=============================================================================
