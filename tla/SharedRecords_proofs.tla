------------------------ MODULE SharedRecords_proofs ------------------------
(***************************************************************************)
(* Proofs about the records of the peers in shared memory: what a reload   *)
(* hands on of them, and what the status page shows of them.               *)
(***************************************************************************)
EXTENDS MCShmReload, StatusPage, FiniteSetTheorems, SequenceTheorems,
        WellFoundedInduction, TLAPS
-----------------------------------------------------------------------------
(***************************************************************************)
(* ShmReload, for any set of configurations.                               *)
(***************************************************************************)
Record == [rise : 0..RiseCount, fall : 0..FallCount, down : BOOLEAN]

\* A configuration is a sequence, and names no peer twice.
LEMMA ConfFacts ==
  ASSUME NEW c \in Confs
  PROVE  /\ c \in Seq([upstream : STRING, addr : STRING])
         /\ Len(c) \in Nat
         /\ \A i \in 1..Len(c) : c[i] \in [upstream : STRING, addr : STRING]
         /\ \A i, j \in 1..Len(c) : c[i] = c[j] => i = j
<1>1. c \in Seq([upstream : STRING, addr : STRING])
  BY ConfsAssumption, Zenon
<1>2. \A i, j \in 1..Len(c) : c[i] = c[j] => i = j
  BY ConfsAssumption, Zenon
<1>3. \A i \in 1..Len(c) : c[i] \in [upstream : STRING, addr : STRING]
  BY <1>1, ElementOfSeq, Zenon
<1> QED BY <1>1, <1>2, <1>3

\* What is looked up in a zone is one of its records.
LEMMA FoundFirst ==
  ASSUME NEW old \in Confs, NEW peer, Found(old, peer) # {}
  PROVE  FirstFound(old, peer) \in 1..Len(old)
<1>1. Found(old, peer) \subseteq Nat
  BY ConfFacts DEF Found
<1>2. \E i \in Found(old, peer) : \A j \in Found(old, peer) : i <= j
  <2>1. PICK i \in Found(old, peer) :
          \A j \in Found(old, peer) : ~(<<j, i>> \in OpToRel(<, Nat))
    BY <1>1, WFMin, NatLessThanWellFounded
  <2>2. \A j \in Found(old, peer) : j < i => <<j, i>> \in OpToRel(<, Nat)
    BY <1>1 DEF OpToRel
  <2>3. \A j \in Found(old, peer) : ~(j < i)
    BY <2>1, <2>2, Zenon
  <2> QED BY <1>1, <2>3
<1>3. FirstFound(old, peer) \in Found(old, peer)
  BY <1>2 DEF FirstFound
<1> QED BY <1>3 DEF Found

\* A record that is the only one that fits is found.
LEMMA FoundAlone ==
  ASSUME NEW old \in Confs, NEW i \in 1..Len(old), \A k \in Found(old, old[i]) : k = i
  PROVE  Found(old, old[i]) # {} /\ FirstFound(old, old[i]) = i
<1>1. i \in Found(old, old[i])
  BY DEF Found, Matches
<1>2. i \in Nat
  BY ConfFacts
<1>3. \A k \in Found(old, old[i]) : i <= k
  BY <1>2
<1> QED BY <1>1, <1>3 DEF FirstFound

\* What find_shm_peer compares names a peer: always in the stream module, in the
\* http module when no server is in two upstreams of a configuration.
FindsItself ==
  \/ ByUpstream
  \/ \A c \in Confs : \A i, j \in 1..Len(c) : c[i].addr = c[j].addr => i = j

\* Then the record of the peer itself is found, and no other.
LEMMA FoundItself ==
  ASSUME NEW old \in Confs, NEW i \in 1..Len(old), FindsItself
  PROVE  Found(old, old[i]) # {} /\ FirstFound(old, old[i]) = i
<1>1. CASE ByUpstream
  <2>1. \A k \in 1..Len(old) : Matches(old[k], old[i]) => old[k] = old[i]
    BY <1>1, ConfFacts DEF Matches
  <2>2. \A k \in Found(old, old[i]) : k = i
    BY <2>1, ConfFacts DEF Found
  <2> QED BY <2>2, FoundAlone
<1>2. CASE \A c \in Confs : \A k, j \in 1..Len(c) : c[k].addr = c[j].addr => k = j
  <2>1. \A k \in Found(old, old[i]) : k = i
    BY <1>2 DEF Found, Matches
  <2> QED BY <2>1, FoundAlone
<1> QED BY <1>1, <1>2 DEF FindsItself

\* status_update leaves a record.
LEMMA CountedType ==
  ASSUME NEW r \in Record, NEW result \in BOOLEAN
  PROVE  Counted(r, result) \in Record
<1>1. CASE result
  BY <1>1, ReloadAssumption DEF Record, Counted
<1>2. CASE ~result
  BY <1>2, ReloadAssumption DEF Record, Counted
<1> QED BY <1>1, <1>2

\* An inherited record is a record of the old zone or a fresh one.
LEMMA InheritedType ==
  ASSUME ReloadTypeOK, NEW g, NEW peer
  PROVE  InheritedRecord(g, peer) \in Record
BY FoundFirst, ReloadAssumption
DEF ReloadTypeOK, RecordsOf, InheritedRecord, FreshRecord, Record

\* The records a reload builds.
LEMMA BuiltFacts ==
  ASSUME ReloadTypeOK, NEW new \in Confs, reload(new)
  PROVE  /\ built' # NotBuilt
         /\ built'.conf = new
         /\ built'.zone = generation + 1
         /\ built'.records \in RecordsOf(new)
         /\ \A j \in 1..Len(new) :
              built'.records[j] = InheritedRecord(generation + 1, new[j])
<1> DEFINE inherited == [i \in 1..Len(new) |-> InheritedRecord(generation + 1, new[i])]
<1>1. built' = [conf |-> new, zone |-> generation + 1, records |-> inherited]
  BY DEF reload
<1>2. inherited \in RecordsOf(new)
  BY InheritedType DEF RecordsOf, Record
<1>3. \A j \in 1..Len(new) : inherited[j] = InheritedRecord(generation + 1, new[j])
  OBVIOUS
<1> HIDE DEF inherited
<1>4. generation + 1 # 0
  BY DEF ReloadTypeOK
<1>5. built'.conf = new /\ built'.zone = generation + 1 /\ built'.records = inherited
  BY <1>1
<1>6. built' # NotBuilt
  BY <1>4, <1>5 DEF NotBuilt
<1> QED BY <1>2, <1>3, <1>5, <1>6

\* No step of ShmReload leaves a record out.
LEMMA ReloadTypeStep ==
  ASSUME ReloadTypeOK, [ReloadNext]_rvars
  PROVE  ReloadTypeOK'
<1>1. ASSUME NEW new \in Confs, reload(new) PROVE ReloadTypeOK'
  <2>1. UNCHANGED <<conf, zone, records>> /\ generation' = generation + 1
    BY <1>1 DEF reload
  <2>2. /\ built'.conf = new
        /\ built'.zone = generation + 1
        /\ built'.records \in RecordsOf(new)
    BY <1>1, BuiltFacts
  <2> QED BY <2>1, <2>2 DEF ReloadTypeOK, RecordsOf
<1>2. CASE start_worker_processes
  BY <1>2 DEF ReloadTypeOK, start_worker_processes, RecordsOf
<1>3. CASE reload_rejected
  BY <1>3 DEF ReloadTypeOK, reload_rejected, RecordsOf
<1>4. ASSUME NEW i \in 1..Len(conf), NEW result \in BOOLEAN,
             check_peer(i, result)
      PROVE  ReloadTypeOK'
  <2>1. Counted(records[i], result) \in Record
    BY CountedType DEF ReloadTypeOK, RecordsOf, Record
  <2> QED BY <1>4, <2>1 DEF ReloadTypeOK, check_peer, RecordsOf, Record
<1>5. CASE UNCHANGED rvars
  BY <1>5 DEF ReloadTypeOK, rvars, RecordsOf
<1> QED BY <1>1, <1>2, <1>3, <1>4, <1>5 DEF ReloadNext

\* Every peer of the running configuration and of one that is about to run has
\* a record of its own, after any sequence of reloads, accepted and rejected.
THEOREM ReloadTypeCorrect == ReloadSpec => []ReloadTypeOK
<1>1. ReloadInit => ReloadTypeOK
  BY ReloadAssumption DEF ReloadInit, ReloadTypeOK, FreshRecord, RecordsOf
<1>2. ReloadTypeOK /\ [ReloadNext]_rvars => ReloadTypeOK'
  BY ReloadTypeStep
<1> QED BY <1>1, <1>2, PTL DEF ReloadSpec

(***************************************************************************)
(* A configuration that is about to run holds the records of the running   *)
(* one as they are, but for those in late; after a rejected one it holds   *)
(* fresh records.                                                          *)
(***************************************************************************)
CopyInv ==
  built # NotBuilt =>
    /\ built.zone > zone
    /\ built.zone = zone + 1 =>
         \A i \in 1..Len(conf), j \in 1..Len(built.conf) :
           conf[i] = built.conf[j] /\ conf[i] \notin late
             => built.records[j] = records[i]
    /\ built.zone # zone + 1 =>
         \A j \in 1..Len(built.conf) : built.records[j] = FreshRecord

ReloadInv ==
  /\ ReloadTypeOK
  /\ zone <= generation
  /\ built # NotBuilt => built.zone <= generation
  /\ CopyInv

\* Building a zone establishes the copy.
LEMMA ReloadCopies ==
  ASSUME FindsItself, ReloadInv, NEW new \in Confs, reload(new)
  PROVE  CopyInv'
<1>1. UNCHANGED <<conf, zone, records>>
  BY DEF reload
<1>2. /\ built'.conf = new
      /\ built'.zone = generation + 1
      /\ \A j \in 1..Len(new) :
           built'.records[j] = InheritedRecord(generation + 1, new[j])
  BY BuiltFacts DEF ReloadInv
<1>3. built'.zone > zone
  BY <1>2 DEF ReloadInv, ReloadTypeOK
<1>4. ASSUME built'.zone = zone + 1, NEW i \in 1..Len(conf), NEW j \in 1..Len(new),
             conf[i] = new[j]
      PROVE  built'.records[j] = records[i]
  <2>1. zone = (generation + 1) - 1
    BY <1>2, <1>4 DEF ReloadInv, ReloadTypeOK
  <2>2. Found(conf, conf[i]) # {} /\ FirstFound(conf, conf[i]) = i
    BY FoundItself DEF ReloadInv, ReloadTypeOK
  <2> QED BY <1>2, <1>4, <2>1, <2>2 DEF InheritedRecord
<1>5. ASSUME built'.zone # zone + 1, NEW j \in 1..Len(new)
      PROVE  built'.records[j] = FreshRecord
  <2>1. zone # (generation + 1) - 1
    BY <1>2, <1>5 DEF ReloadInv, ReloadTypeOK
  <2> QED BY <1>2, <2>1 DEF InheritedRecord
<1> QED BY <1>1, <1>2, <1>3, <1>4, <1>5 DEF CopyInv

\* A check after the copy puts its peer in late.
LEMMA CheckKeepsCopy ==
  ASSUME ReloadInv, LateNext, built # NotBuilt,
         NEW k \in 1..Len(conf), NEW result \in BOOLEAN, check_peer(k, result)
  PROVE  CopyInv'
<1>1. UNCHANGED <<conf, zone, built>>
  BY DEF check_peer
<1>2. late' = late \cup {conf[i] : i \in {i \in 1..Len(conf) : records'[i] # records[i]}}
  BY <1>1 DEF LateNext
<1>3. ASSUME NEW i \in 1..Len(conf), conf[i] \notin late'
      PROVE  conf[i] \notin late /\ records'[i] = records[i]
  BY <1>2, <1>3
<1>4. ASSUME built.zone = zone + 1, NEW i \in 1..Len(conf), NEW j \in 1..Len(built.conf),
             conf[i] = built.conf[j], conf[i] \notin late'
      PROVE  built.records[j] = records'[i]
  BY <1>3, <1>4 DEF ReloadInv, CopyInv
<1> QED BY <1>1, <1>4 DEF ReloadInv, CopyInv

\* The copy is sound in every state.
LEMMA CopySound ==
  ASSUME FindsItself PROVE MCSpec => []ReloadInv
<1>1. MCInit => ReloadInv
  BY ReloadAssumption
  DEF MCInit, ReloadInit, ReloadInv, ReloadTypeOK, FreshRecord, RecordsOf, CopyInv
<1>2. ReloadInv /\ [MCNext]_mcVars => ReloadInv'
  <2> SUFFICES ASSUME ReloadInv, [MCNext]_mcVars PROVE ReloadInv'
    OBVIOUS
  <2>1. ReloadTypeOK'
    BY ReloadTypeStep DEF ReloadInv, MCNext, mcVars
  <2>2. ASSUME NEW new \in Confs, reload(new) PROVE ReloadInv'
    <3>1. CopyInv'
      BY <2>2, ReloadCopies
    <3>2. generation' = generation + 1 /\ zone' = zone /\ built'.zone = generation + 1
      BY <2>2, BuiltFacts DEF ReloadInv, reload
    <3> QED BY <2>1, <3>1, <3>2 DEF ReloadInv, ReloadTypeOK
  <2>3. CASE start_worker_processes
    BY <2>1, <2>3 DEF ReloadInv, CopyInv, start_worker_processes
  <2>4. CASE reload_rejected
    BY <2>1, <2>4 DEF ReloadInv, ReloadTypeOK, CopyInv, reload_rejected
  <2>5. ASSUME NEW k \in 1..Len(conf), NEW result \in BOOLEAN,
               check_peer(k, result), LateNext
        PROVE  ReloadInv'
    <3>1. CASE built = NotBuilt
      BY <2>1, <2>5, <3>1 DEF ReloadInv, CopyInv, check_peer
    <3>2. CASE built # NotBuilt
      <4>1. CopyInv'
        BY <2>5, <3>2, CheckKeepsCopy
      <4> QED BY <2>1, <2>5, <4>1 DEF ReloadInv, check_peer
    <3> QED BY <3>1, <3>2
  <2>6. CASE UNCHANGED mcVars
    BY <2>1, <2>6 DEF ReloadInv, CopyInv, mcVars, rvars
  <2> QED BY <2>2, <2>3, <2>4, <2>5, <2>6 DEF MCNext, ReloadNext
<1> QED BY <1>1, <1>2, PTL DEF MCSpec

\* In the stream module for any configurations, and in the http module for those
\* in which no two upstreams share a server, a peer that stays in the
\* configuration keeps its record through a reload that follows an accepted one,
\* unless the old workers change the record after the copy.
THEOREM StatusSurvives ==
  ASSUME FindsItself PROVE MCSpec => StatusSurvivesReload
<1>1. ReloadInv /\ [MCNext]_mcVars =>
        [zone' = zone + 1 =>
           \A i \in 1..Len(conf), j \in 1..Len(conf') :
             conf[i] = conf'[j] /\ conf[i] \notin late
               => records'[j] = records[i]]_mcVars
  <2> SUFFICES ASSUME ReloadInv, MCNext, zone' = zone + 1,
                      NEW i \in 1..Len(conf), NEW j \in 1..Len(conf'),
                      conf[i] = conf'[j], conf[i] \notin late
               PROVE  records'[j] = records[i]
    OBVIOUS
  <2>1. zone' # zone
    BY DEF ReloadInv, ReloadTypeOK
  <2>2. start_worker_processes
    BY <2>1 DEF MCNext, ReloadNext, reload, reload_rejected, check_peer
  <2> QED BY <2>2 DEF ReloadInv, CopyInv, start_worker_processes
<1> QED BY <1>1, CopySound, PTL DEF MCSpec, StatusSurvivesReload

\* A check that takes a peer out of service is its fall_count-th failure.
LEMMA CountedDown ==
  ASSUME NEW r \in Record, NEW result \in BOOLEAN, ~r.down, Counted(r, result).down
  PROVE  Counted(r, result).fall = FallCount
<1>1. CASE result
  BY <1>1 DEF Counted
<1>2. CASE ~result
  BY <1>2, ReloadAssumption DEF Record, Counted
<1> QED BY <1>1, <1>2

\* Under the same condition and whatever default_down is, a peer that stays is
\* taken out of service by fall_count failures in a row, or by a reload that
\* copied its record before an old worker found it up again, or by default_down
\* after a rejected configuration, and by nothing else.
THEOREM OnlyFailuresTakeDown ==
  ASSUME FindsItself PROVE MCSpec => DownOnlyByFailures
<1>1. ReloadInv /\ [MCNext]_mcVars =>
        [\A i \in 1..Len(conf), j \in 1..Len(conf') :
           conf[i] = conf'[j] /\ ~records[i].down /\ records'[j].down =>
             IF zone' = zone
             THEN i = j /\ records'[j].fall = FallCount
             ELSE conf[i] \in late \/ (DefaultDown /\ zone' > zone + 1)]_mcVars
  <2> SUFFICES ASSUME ReloadInv, MCNext,
                      NEW i \in 1..Len(conf), NEW j \in 1..Len(conf'),
                      conf[i] = conf'[j], ~records[i].down, records'[j].down
               PROVE  IF zone' = zone
                      THEN i = j /\ records'[j].fall = FallCount
                      ELSE conf[i] \in late \/ (DefaultDown /\ zone' > zone + 1)
    OBVIOUS
  <2>1. UNCHANGED conf => i = j
    BY ConfFacts DEF ReloadInv, ReloadTypeOK
  <2>2. ASSUME UNCHANGED <<conf, records>> PROVE FALSE
    BY <2>1, <2>2
  <2>3. CASE start_worker_processes
    <3>1. /\ built # NotBuilt
          /\ zone' = built.zone /\ conf' = built.conf /\ records' = built.records
      BY <2>3 DEF start_worker_processes
    <3>2. zone' > zone /\ zone' \in Nat /\ zone \in Nat
      BY <3>1 DEF ReloadInv, ReloadTypeOK, CopyInv
    <3>3. CASE zone' = zone + 1
      BY <3>1, <3>2, <3>3 DEF ReloadInv, CopyInv
    <3>4. CASE zone' # zone + 1
      <4>1. records'[j] = FreshRecord
        BY <3>1, <3>4 DEF ReloadInv, CopyInv
      <4>2. DefaultDown
        BY <4>1 DEF FreshRecord
      <4> QED BY <3>2, <3>4, <4>2
    <3> QED BY <3>3, <3>4
  <2>4. ASSUME NEW k \in 1..Len(conf), NEW result \in BOOLEAN, check_peer(k, result)
        PROVE  zone' = zone /\ i = j /\ records'[j].fall = FallCount
    <3>1. i = j /\ zone' = zone
      BY <2>1, <2>4 DEF check_peer
    <3>2. records \in [1..Len(conf) -> Record]
      BY DEF ReloadInv, ReloadTypeOK, RecordsOf, Record
    <3>3. records' = [records EXCEPT ![k] = Counted(records[k], result)]
      BY <2>4 DEF check_peer
    <3>4. i = k
      BY <3>1, <3>2, <3>3
    <3>5. records'[i] = Counted(records[i], result)
      BY <3>2, <3>3, <3>4
    <3> QED
      BY <3>1, <3>2, <3>5, CountedDown
  <2> QED
    BY <2>2, <2>3, <2>4 DEF MCNext, ReloadNext, reload, reload_rejected
<1> QED BY <1>1, CopySound, PTL DEF MCSpec, DownOnlyByFailures
-----------------------------------------------------------------------------
(***************************************************************************)
(* StatusPage: whatever the records do during a request, the page lists    *)
(* only peers that passed the filter at some moment and all that passed it *)
(* throughout, for any number of peers and of changes.                     *)
(***************************************************************************)
\* The peers in a sequence of them.
In(s) == {s[i] : i \in 1..Len(s)}

Entries == [peer : Peers, comma : BOOLEAN]

PageTypeOK ==
  /\ down \in [Peers -> BOOLEAN]
  /\ pass \in {"count", "list", "done"}
  /\ todo \in Seq(Peers)
  /\ total \in [Kinds -> Nat]
  /\ page \in [Kinds -> Seq(Entries)]

(***************************************************************************)
(* What passes the filter now is in ever, and only that is in always.  The *)
(* second pass reads a record once: when it does, a peer of always is      *)
(* shown and a peer shown is in ever.  So the peers of always are listed   *)
(* or still to come, and those listed are in ever.                         *)
(***************************************************************************)
PageInv ==
  /\ PageTypeOK
  /\ \A p \in Peers : Shown(p) => p \in ever
  /\ always \subseteq {p \in Peers : Shown(p)}
  /\ Listed \subseteq ever
  /\ pass = "count" => page = [kind \in Kinds |-> <<>>]
  /\ pass = "list" => always \subseteq Listed \cup In(todo)
  /\ pass = "done" => always \subseteq Listed

\* The lists of the peers of either module.
LEMMA Lists ==
  /\ HttpPeers \in Seq(Peers) /\ Len(HttpPeers) = Http
  /\ StreamPeers \in Seq(Peers) /\ Len(StreamPeers) = Stream
<1>1. \A i \in 1..Http : HttpPeers[i] \in Peers
  BY DEF Peers
<1>2. \A i \in 1..Stream : StreamPeers[i] \in Peers
  BY DEF Peers
<1>3. HttpPeers = [i \in 1..Http |-> HttpPeers[i]]
  BY DEF HttpPeers, PeersOf
<1>4. StreamPeers = [i \in 1..Stream |-> StreamPeers[i]]
  BY DEF StreamPeers, PeersOf
<1>5. HttpPeers \in [1..Http -> Peers] /\ StreamPeers \in [1..Stream -> Peers]
  BY <1>1, <1>2, <1>3, <1>4
<1> QED
  BY <1>5, PageAssumption

\* What is in two lists one after the other.
LEMMA InJoined ==
  ASSUME NEW S, NEW s \in Seq(S), NEW t \in Seq(S)
  PROVE  In(s \o t) = In(s) \cup In(t)
<1> DEFINE both == s \o t
<1>1. /\ Len(s) \in Nat /\ Len(t) \in Nat /\ Len(both) = Len(s) + Len(t)
      /\ \A i \in 1..Len(both) : both[i] = IF i <= Len(s) THEN s[i] ELSE t[i - Len(s)]
  BY ConcatProperties
<1> HIDE DEF both
<1>2. In(both) \subseteq In(s) \cup In(t)
  <2> SUFFICES ASSUME NEW i \in 1..Len(both) PROVE both[i] \in In(s) \cup In(t)
    BY DEF In
  <2>1. CASE i <= Len(s)
    BY <1>1, <2>1 DEF In
  <2>2. CASE ~(i <= Len(s))
    <3>1. i - Len(s) \in 1..Len(t) /\ both[i] = t[i - Len(s)]
      BY <1>1, <2>2
    <3> QED BY <3>1 DEF In
  <2> QED BY <2>1, <2>2
<1>3. ASSUME NEW i \in 1..Len(s) PROVE s[i] \in In(both)
  <2>1. i \in 1..Len(both) /\ both[i] = s[i]
    BY <1>1
  <2> QED BY <2>1 DEF In
<1>4. ASSUME NEW i \in 1..Len(t) PROVE t[i] \in In(both)
  <2>1. i + Len(s) \in 1..Len(both) /\ ~(i + Len(s) <= Len(s)) /\ (i + Len(s)) - Len(s) = i
    BY <1>1
  <2>2. both[i + Len(s)] = t[i]
    BY <1>1, <2>1
  <2> QED BY <2>1, <2>2 DEF In
<1>5. In(s) \cup In(t) \subseteq In(both)
  BY <1>3, <1>4 DEF In
<1> QED BY <1>2, <1>5 DEF both

\* Both passes visit every peer, and nothing else.
LEMMA Visited ==
  /\ StreamPeers \o HttpPeers \in Seq(Peers) /\ In(StreamPeers \o HttpPeers) = Peers
  /\ HttpPeers \o StreamPeers \in Seq(Peers) /\ In(HttpPeers \o StreamPeers) = Peers
<1>1. In(HttpPeers) \cup In(StreamPeers) = Peers
  BY Lists DEF In, Peers
<1>2. /\ In(StreamPeers \o HttpPeers) = In(StreamPeers) \cup In(HttpPeers)
      /\ In(HttpPeers \o StreamPeers) = In(HttpPeers) \cup In(StreamPeers)
  BY Lists, InJoined
<1>3. StreamPeers \o HttpPeers \in Seq(Peers) /\ HttpPeers \o StreamPeers \in Seq(Peers)
  BY Lists, ConcatProperties
<1> QED BY <1>1, <1>2, <1>3

\* A sequence that is not empty is its head and its tail.
LEMMA HeadAndTail ==
  ASSUME NEW S, NEW s \in Seq(S), s # <<>>
  PROVE  Head(s) \in S /\ Tail(s) \in Seq(S) /\ In(s) = {Head(s)} \cup In(Tail(s))
<1>1. /\ Head(s) \in S /\ Tail(s) \in Seq(S) /\ Len(s) \in Nat \ {0}
      /\ Len(Tail(s)) = Len(s) - 1 /\ Head(s) = s[1]
      /\ \A i \in 1..Len(Tail(s)) : Tail(s)[i] = s[i + 1]
  <2>1. Len(s) \in Nat /\ Len(s) # 0
    BY EmptySeq
  <2> QED
    BY <2>1, HeadTailProperties
<1>2. \A i \in 1..Len(s) : i = 1 \/ (i - 1 \in 1..Len(Tail(s)) /\ Tail(s)[i - 1] = s[i])
  BY <1>1
<1>3. \A i \in 1..Len(Tail(s)) : i + 1 \in 1..Len(s)
  BY <1>1
<1>4. In(s) \subseteq {Head(s)} \cup In(Tail(s))
  BY <1>1, <1>2 DEF In
<1>5. In(Tail(s)) \subseteq In(s)
  BY <1>1, <1>3 DEF In
<1>6. Head(s) \in In(s)
  <2>1. 1 \in 1..Len(s)
    BY <1>1
  <2> QED
    BY <1>1, <2>1 DEF In
<1> QED
  BY <1>1, <1>4, <1>5, <1>6

-----------------------------------------------------------------------------
\* A peer belongs to one of the two modules.
LEMMA KindOfPeer == \A p \in Peers : p.kind \in Kinds
BY DEF Peers, HttpPeers, StreamPeers, PeersOf, Kinds

\* At the start of a request the page is empty.
LEMMA Blank ==
  ASSUME page = [kind \in Kinds |-> <<>>]
  PROVE  page \in [Kinds -> Seq(Entries)] /\ Listed = {} /\ \A kind \in Kinds : Len(page[kind]) = 0
<1>1. \A kind \in Kinds : page[kind] = <<>> /\ Len(page[kind]) = 0
  OBVIOUS
<1>2. \A kind \in Kinds : ListedOf(kind) = {}
  BY <1>1 DEF ListedOf
<1> QED
  BY <1>1, <1>2 DEF Listed

\* The same of the page of the next request.
LEMMA BlankNext ==
  ASSUME page' = [kind \in Kinds |-> <<>>]
  PROVE  page' \in [Kinds -> Seq(Entries)] /\ Listed' = {} /\ \A kind \in Kinds : Len(page'[kind]) = 0
<1>1. \A kind \in Kinds : page'[kind] = <<>> /\ Len(page'[kind]) = 0
  OBVIOUS
<1>2. \A kind \in Kinds : ListedOf(kind)' = {}
  BY <1>1 DEF ListedOf
<1> QED
  BY <1>1, <1>2 DEF Listed

\* The invariant holds before the first request.
LEMMA PageInitInv == PageInit => PageInv
<1> SUFFICES ASSUME PageInit PROVE PageInv
  OBVIOUS
<1>1. page \in [Kinds -> Seq(Entries)] /\ Listed = {}
  BY Blank DEF PageInit
<1>2. total \in [Kinds -> Nat]
  BY DEF PageInit
<1> QED
  BY <1>1, <1>2, Visited DEF PageInit, PageInv, PageTypeOK

\* An entry is written at the end of its list and leaves the other list alone.
LEMMA WrittenFacts ==
  ASSUME PageTypeOK, NEW p \in Peers, NEW n \in Nat, page' = Written(p, n)
  PROVE  /\ page' \in [Kinds -> Seq(Entries)] /\ p.kind \in Kinds
         /\ Len(page[p.kind]) \in Nat /\ Len(page'[p.kind]) = Len(page[p.kind]) + 1
         /\ \A i \in 1..Len(page[p.kind]) : page'[p.kind][i] = page[p.kind][i]
         /\ page'[p.kind][Len(page[p.kind]) + 1] = Entry(p, n)
         /\ \A kind \in Kinds : kind # p.kind => page'[kind] = page[kind]
<1>1. p.kind \in Kinds
  BY KindOfPeer
<1>2. Entry(p, n) \in Entries
  BY DEF Entry, Entries
<1>3. page[p.kind] \in Seq(Entries) /\ page'[p.kind] = Append(page[p.kind], Entry(p, n))
  BY <1>1 DEF PageTypeOK, Written
<1>4. /\ page'[p.kind] \in Seq(Entries) /\ Len(page[p.kind]) \in Nat
      /\ Len(page'[p.kind]) = Len(page[p.kind]) + 1
      /\ \A i \in 1..Len(page[p.kind]) : page'[p.kind][i] = page[p.kind][i]
      /\ page'[p.kind][Len(page[p.kind]) + 1] = Entry(p, n)
  BY <1>2, <1>3, AppendProperties
<1>5. \A kind \in Kinds : kind # p.kind => page'[kind] = page[kind]
  BY DEF PageTypeOK, Written
<1>6. page' \in [Kinds -> Seq(Entries)]
  BY <1>2, <1>3, <1>4 DEF PageTypeOK, Written
<1> QED
  BY <1>1, <1>4, <1>5, <1>6

\* An entry more is a peer more that is listed.
LEMMA ListedGrows ==
  ASSUME PageTypeOK, NEW p \in Peers, NEW n \in Nat, page' = Written(p, n)
  PROVE  Listed' = Listed \cup {p}
<1> DEFINE k == p.kind
<1>0. Entry(p, n).peer = p
  BY DEF Entry
<1>1. /\ k \in Kinds /\ Len(page[k]) \in Nat /\ Len(page'[k]) = Len(page[k]) + 1
      /\ \A i \in 1..Len(page[k]) : page'[k][i] = page[k][i]
      /\ page'[k][Len(page[k]) + 1].peer = p
      /\ \A kind \in Kinds : kind # k => page'[kind] = page[kind]
  BY <1>0, WrittenFacts
<1> HIDE DEF k
<1>2. \A kind \in Kinds : kind # k => ListedOf(kind)' = ListedOf(kind)
  BY <1>1 DEF ListedOf
<1>3. ListedOf(k)' = ListedOf(k) \cup {p}
  <2>1. \A i \in 1..Len(page'[k]) : i \in 1..Len(page[k]) \/ i = Len(page[k]) + 1
    BY <1>1
  <2>2. 1..Len(page[k]) \subseteq 1..Len(page'[k]) /\ Len(page[k]) + 1 \in 1..Len(page'[k])
    BY <1>1
  <2>3. ListedOf(k)' \subseteq ListedOf(k) \cup {p}
    BY <1>1, <2>1 DEF ListedOf
  <2>4. ListedOf(k) \subseteq ListedOf(k)'
    BY <1>1, <2>2 DEF ListedOf
  <2>5. p \in ListedOf(k)'
    BY <1>1, <2>2 DEF ListedOf
  <2> QED BY <2>3, <2>4, <2>5
<1> QED
  BY <1>1, <1>2, <1>3 DEF Listed

\* The steps of the first pass and the ends of both keep the invariant.
LEMMA PassInv ==
  PageInv /\ (request \/ count_peer \/ write_total \/ send_page) => PageInv'
<1> SUFFICES ASSUME PageInv, request \/ count_peer \/ write_total \/ send_page PROVE PageInv'
  OBVIOUS
<1>1. UNCHANGED down /\ \A p \in Peers : Shown(p)' = Shown(p)
  BY DEF request, count_peer, write_total, send_page, record, Shown
<1>2. CASE request
  <2>1. page' \in [Kinds -> Seq(Entries)] /\ Listed' = {}
    BY <1>2, BlankNext DEF request, Begun
  <2>2. total' \in [Kinds -> Nat]
    BY <1>2 DEF request, Begun
  <2> QED
    BY <1>1, <1>2, <2>1, <2>2, Visited DEF PageInv, PageTypeOK, request, Begun
<1>3. CASE count_peer
  <2>1. todo' \in Seq(Peers)
    BY <1>3, HeadAndTail DEF count_peer, PageInv, PageTypeOK
  <2>2. total' \in [Kinds -> Nat]
    <3>1. total \in [Kinds -> Nat]
      BY DEF PageInv, PageTypeOK
    <3>2. PICK kind : total' = total \/ total' = [total EXCEPT ![kind] = @ + 1]
      BY <1>3 DEF count_peer
    <3> QED BY <3>1, <3>2
  <2> QED
    BY <1>1, <1>3, <2>1, <2>2
    DEF PageInv, PageTypeOK, count_peer, Listed, ListedOf, history
<1>4. CASE write_total
  <2>1. /\ pass' = "list" /\ UNCHANGED <<total, page, ever, always>>
        /\ todo' \in Seq(Peers) /\ In(todo)' = Peers
    BY <1>4, Visited DEF write_total, history, In
  <2>2. Listed' = Listed
    BY <2>1 DEF Listed, ListedOf
  <2> QED BY <1>1, <2>1, <2>2 DEF PageInv, PageTypeOK
<1>5. CASE send_page
  <2>1. In(todo) = {}
    BY <1>5 DEF send_page, In
  <2> QED
    BY <1>1, <1>5, <2>1 DEF PageInv, PageTypeOK, send_page, Listed, ListedOf, history
<1> QED
  BY <1>2, <1>3, <1>4, <1>5

\* A step of the second pass keeps it: the record is read as it is now.
LEMMA ListInv == PageInv /\ list_peer => PageInv'
<1> SUFFICES ASSUME PageInv, list_peer PROVE PageInv'
  OBVIOUS
<1> DEFINE p == Head(todo)
<1>1. UNCHANGED <<down, ever, always, pass, total>> /\ pass = "list" /\ todo' = Tail(todo)
      /\ \A q \in Peers : Shown(q)' = Shown(q)
  BY DEF list_peer, record, history, Shown
<1>2. p \in Peers /\ todo' \in Seq(Peers) /\ In(todo) = {p} \cup In(todo')
  BY <1>1, HeadAndTail DEF list_peer, PageInv, PageTypeOK
<1>3. CASE Shown(p)
  <2> DEFINE n == Len(page[p.kind]) + 1
  <2>1. page' = Written(p, n) /\ n \in Nat
    <3>1. page[p.kind] \in Seq(Entries)
      BY <1>2, KindOfPeer DEF PageInv, PageTypeOK
    <3> QED BY <1>3, <3>1 DEF list_peer
  <2> HIDE DEF n
  <2>2. page' \in [Kinds -> Seq(Entries)] /\ Listed' = Listed \cup {p}
    BY <1>2, <2>1, WrittenFacts, ListedGrows DEF PageInv
  <2> HIDE DEF p
  <2> QED
    BY <1>1, <1>2, <1>3, <2>2 DEF PageInv, PageTypeOK
<1>4. CASE ~Shown(p)
  <2>1. UNCHANGED page /\ Listed' = Listed
    BY <1>4 DEF list_peer, Listed, ListedOf
  <2> HIDE DEF p
  <2> QED
    BY <1>1, <1>2, <1>4, <2>1 DEF PageInv, PageTypeOK
<1> QED
  BY <1>3, <1>4

\* A record that changes keeps it.
LEMMA ChangeInv == ASSUME PageInv, NEW p \in Peers, status_changes(p) PROVE PageInv'
<1>1. UNCHANGED <<pass, todo, total, page>> /\ Listed' = Listed /\ In(todo)' = In(todo)
  BY DEF status_changes, Listed, ListedOf, In
<1>2. down' \in [Peers -> BOOLEAN]
  BY DEF PageInv, PageTypeOK, status_changes
<1>3. /\ ever \subseteq ever' /\ \A q \in Peers : Shown(q)' => q \in ever'
      /\ always' \subseteq always /\ \A q \in always' : Shown(q)'
  BY DEF status_changes
<1> QED
  BY <1>1, <1>2, <1>3 DEF PageInv, PageTypeOK

\* The invariant holds in every state of every request.
THEOREM PageInvariant == PageSpec => []PageInv
<1>1. PageInv /\ [PageNext]_pvars => PageInv'
  <2> SUFFICES ASSUME PageInv, [PageNext]_pvars PROVE PageInv'
    OBVIOUS
  <2>1. CASE UNCHANGED pvars
    <3>1. Listed' = Listed /\ In(todo)' = In(todo)
      BY <2>1 DEF pvars, Listed, ListedOf, In
    <3>2. \A p \in Peers : Shown(p)' = Shown(p)
      BY <2>1 DEF pvars, Shown
    <3> QED BY <2>1, <3>1, <3>2 DEF PageInv, PageTypeOK, pvars
  <2> QED
    BY <2>1, PassInv, ListInv, ChangeInv DEF PageNext
<1> QED
  BY <1>1, PageInitInv, PTL DEF PageSpec

\* No page lists a peer that did not pass the filter at some moment of the
\* request, however many records change while it is written.
THEOREM PageIsSound == PageSpec => []PageSound
<1>1. PageInv => PageSound
  BY DEF PageInv, PageSound
<1> QED
  BY <1>1, PageInvariant, PTL

\* Every page lists the peers that passed the filter throughout its request.
THEOREM PageIsComplete == PageSpec => []PageComplete
<1>1. PageInv => PageComplete
  BY DEF PageInv, PageComplete
<1> QED
  BY <1>1, PageInvariant, PTL

-----------------------------------------------------------------------------
(***************************************************************************)
(* The commas.  As long as ever = always, no record has passed or left the *)
(* filter since the request began, so that what a pass has shown is what   *)
(* it has visited of ever.  A pass visits no peer twice: the first ends    *)
(* with the number of the peers in ever, and the second with as many       *)
(* entries, the last of which is the one without a comma.                  *)
(***************************************************************************)
Wanted(kind) == {p \in ever : p.kind = kind}
Past(kind) == Wanted(kind) \ In(todo)

Distinct(s) == \A i, j \in 1..Len(s) : s[i] = s[j] => i = j

Commas(kind) == \A i \in 1..Len(page[kind]) : page[kind][i].comma <=> i # total[kind]

Counts(kind) ==
  /\ pass = "count" => total[kind] = Cardinality(Past(kind))
  /\ pass = "list" => /\ total[kind] = Cardinality(Wanted(kind))
                      /\ Len(page[kind]) = Cardinality(Past(kind))
  /\ pass = "done" => Len(page[kind]) = total[kind]

FormInv ==
  /\ PageInv /\ ever \subseteq Peers /\ Distinct(todo)
  /\ \A kind \in Kinds : Commas(kind)
  /\ ever = always => \A kind \in Kinds : Counts(kind)

\* Two lists one after the other repeat nothing if the first is of one module
\* and the second of the other.
LEMMA JoinedOnce ==
  ASSUME NEW one, NEW two, one # two, NEW m \in Nat, NEW n \in Nat
  PROVE  Distinct(PeersOf(one, m) \o PeersOf(two, n))
<1> DEFINE s == PeersOf(one, m)
           t == PeersOf(two, n)
           both == s \o t
<1>1. /\ s \in Seq({s[i] : i \in 1..m}) /\ Len(s) = m
      /\ t \in Seq({t[i] : i \in 1..n}) /\ Len(t) = n
  BY DEF PeersOf
<1>2. Len(both) = m + n /\ \A i \in 1..m + n : both[i] = IF i <= m THEN s[i] ELSE t[i - m]
  BY <1>1, ConcatProperties
<1>3. /\ \A i \in 1..m : s[i].kind = one /\ s[i].index = i
      /\ \A i \in 1..n : t[i].kind = two /\ t[i].index = i
  BY DEF PeersOf
<1> HIDE DEF both, s, t
<1>4. \A i \in 1..m + n : /\ both[i].kind = IF i <= m THEN one ELSE two
                          /\ both[i].index = IF i <= m THEN i ELSE i - m
  BY <1>2, <1>3
<1>5. ASSUME NEW i \in 1..m + n, NEW j \in 1..m + n, both[i] = both[j]
      PROVE  i = j
  <2>1. i <= m <=> j <= m
    BY <1>4, <1>5
  <2> QED BY <1>4, <1>5, <2>1
<1>6. Distinct(both)
  BY <1>2, <1>5 DEF Distinct
<1> QED BY <1>6 DEF both, s, t

\* Neither pass visits a peer twice.
LEMMA VisitedOnce == Distinct(StreamPeers \o HttpPeers) /\ Distinct(HttpPeers \o StreamPeers)
<1>1. "http" # "stream"
  OBVIOUS
<1> QED BY <1>1, JoinedOnce, PageAssumption DEF HttpPeers, StreamPeers

\* The rest of a list without repetitions has none, and not its first element.
LEMMA DistinctTail ==
  ASSUME NEW S, NEW s \in Seq(S), s # <<>>, Distinct(s)
  PROVE  Distinct(Tail(s)) /\ Head(s) \notin In(Tail(s))
<1>1. /\ Len(s) \in Nat \ {0} /\ Len(Tail(s)) = Len(s) - 1 /\ Head(s) = s[1]
      /\ \A i \in 1..Len(Tail(s)) : Tail(s)[i] = s[i + 1] /\ i + 1 \in 1..Len(s) /\ i + 1 # 1
  <2>1. Len(s) \in Nat /\ Len(s) # 0
    BY EmptySeq
  <2> QED BY <2>1, HeadTailProperties
<1>2. \A i, j \in 1..Len(Tail(s)) : i + 1 = j + 1 => i = j
  BY <1>1
<1>3. 1 \in 1..Len(s)
  BY <1>1
<1> QED
  BY <1>1, <1>2, <1>3 DEF Distinct, In

\* There are finitely many peers.
LEMMA FinitePeers ==
  ASSUME NEW S \in SUBSET Peers
  PROVE  IsFiniteSet(S) /\ Cardinality(S) \in Nat
<1> DEFINE both == HttpPeers \o StreamPeers
<1>1. both \in Seq(Peers) /\ \A p \in Peers : \E i \in 1..Len(both) : both[i] = p
  BY Visited DEF In
<1> HIDE DEF both
<1>2. IsFiniteSet(Peers)
  BY <1>1 DEF IsFiniteSet
<1> QED BY <1>2, FS_Subset, FS_CardinalityType

\* A request begins with nothing visited, nothing counted and no entry.
LEMMA Nothing ==
  ASSUME ever \subseteq Peers, In(todo) = Peers
  PROVE  \A kind \in Kinds : Cardinality(Past(kind)) = 0
<1>1. \A kind \in Kinds : Past(kind) = {}
  BY DEF Past, Wanted
<1> QED BY <1>1, FS_EmptySet

\* While no record has passed or left the filter, a visit adds the peer to
\* what is visited of ever exactly if it is shown.
LEMMA Visit ==
  ASSUME FormInv, ever = always, todo # <<>>, todo' = Tail(todo), ever' = ever
  PROVE  \A kind \in Kinds :
           /\ Cardinality(Past(kind)) \in Nat
           /\ Cardinality(Past(kind)') =
                IF Shown(Head(todo)) /\ kind = Head(todo).kind
                THEN Cardinality(Past(kind)) + 1 ELSE Cardinality(Past(kind))
<1> DEFINE p == Head(todo)
<1>1. p \in Peers /\ In(todo) = {p} \cup In(todo)' /\ p \notin In(todo)'
  <2>1. todo \in Seq(Peers) /\ Distinct(todo)
    BY DEF FormInv, PageInv, PageTypeOK
  <2>2. In(todo)' = In(Tail(todo))
    BY DEF In
  <2> QED BY <2>1, <2>2, HeadAndTail, DistinctTail
<1>2. Shown(p) <=> p \in ever
  BY <1>1 DEF FormInv, PageInv
<1> HIDE DEF p
<1> SUFFICES ASSUME NEW kind \in Kinds
             PROVE  /\ Cardinality(Past(kind)) \in Nat
                    /\ Cardinality(Past(kind)') =
                         IF Shown(p) /\ kind = p.kind
                         THEN Cardinality(Past(kind)) + 1 ELSE Cardinality(Past(kind))
  BY DEF p
<1>3. IsFiniteSet(Past(kind)) /\ Cardinality(Past(kind)) \in Nat
  <2>1. Past(kind) \subseteq Peers
    BY DEF FormInv, Past, Wanted
  <2> QED BY <2>1, FinitePeers
<1>4. CASE Shown(p) /\ kind = p.kind
  <2>1. Past(kind)' = Past(kind) \cup {p} /\ p \notin Past(kind)
    BY <1>1, <1>2, <1>4 DEF Past, Wanted
  <2> QED BY <1>3, <1>4, <2>1, FS_AddElement
<1>5. CASE ~(Shown(p) /\ kind = p.kind)
  <2>1. Past(kind)' = Past(kind)
    BY <1>1, <1>2, <1>5 DEF Past, Wanted
  <2> QED BY <1>3, <1>5, <2>1
<1> QED BY <1>4, <1>5

\* At the start of a request the invariant holds.
LEMMA FormInit == PageInit => FormInv
<1> SUFFICES ASSUME PageInit PROVE FormInv
  OBVIOUS
<1>1. PageInv /\ ever \subseteq Peers /\ Distinct(todo) /\ In(todo) = Peers
  BY PageInitInv, Visited, VisitedOnce DEF PageInit
<1>2. \A kind \in Kinds : Commas(kind)
  BY Blank DEF PageInit, Commas
<1>3. \A kind \in Kinds : Counts(kind)
  BY <1>1, Nothing DEF PageInit, Counts
<1> QED BY <1>1, <1>2, <1>3 DEF FormInv

\* The first pass counts what it visits, and ends with all of it visited.
LEMMA CountForm ==
  ASSUME FormInv, PageInv', request \/ count_peer \/ write_total \/ send_page
  PROVE  FormInv'
<1>1. PageTypeOK /\ UNCHANGED down /\ ever \subseteq Peers
  BY DEF FormInv, PageInv, request, count_peer, write_total, send_page, record
<1>2. CASE request
  <2>1. ever' \subseteq Peers /\ Distinct(todo)' /\ In(todo)' = Peers
    <3>1. todo' = StreamPeers \o HttpPeers /\ ever' \subseteq Peers
      BY <1>2 DEF request, Begun
    <3>2. /\ In(todo)' = In(StreamPeers \o HttpPeers)
          /\ Distinct(todo)' = Distinct(StreamPeers \o HttpPeers)
      BY <3>1 DEF In, Distinct
    <3> QED BY <3>1, <3>2, Visited, VisitedOnce
  <2>2. \A kind \in Kinds : Commas(kind)'
    BY <1>2, BlankNext DEF request, Begun, Commas
  <2>3. \A kind \in Kinds : Past(kind)' = {}
    BY <2>1 DEF Past, Wanted
  <2>4. \A kind \in Kinds : Counts(kind)'
    BY <1>2, <2>3, FS_EmptySet DEF request, Begun, Counts
  <2> QED BY <2>1, <2>2, <2>4 DEF FormInv
<1>3. CASE count_peer
  <2>1. /\ UNCHANGED <<ever, always, pass, page>> /\ pass = "count"
        /\ todo # <<>> /\ todo' = Tail(todo)
    BY <1>3 DEF count_peer, history
  <2>2. Distinct(todo)'
    BY <1>1, <2>1, DistinctTail DEF FormInv, PageTypeOK, Distinct
  <2>3. \A kind \in Kinds : Len(page'[kind]) = 0
    BY <2>1, Blank DEF FormInv, PageInv
  <2>4. \A kind \in Kinds : Commas(kind)'
    BY <2>3 DEF Commas
  <2>5. ASSUME ever = always, NEW kind \in Kinds PROVE Counts(kind)'
    <3>1. total'[kind] = IF Shown(Head(todo)) /\ kind = Head(todo).kind
                         THEN total[kind] + 1 ELSE total[kind]
      BY <1>1, <1>3 DEF count_peer, PageTypeOK
    <3>2. total[kind] = Cardinality(Past(kind))
      BY <2>1, <2>5 DEF FormInv, Counts
    <3>3. total'[kind] = Cardinality(Past(kind)')
      BY <2>1, <2>5, <3>1, <3>2, Visit
    <3> QED BY <2>1, <3>3 DEF Counts
  <2> QED BY <1>1, <2>1, <2>2, <2>4, <2>5 DEF FormInv
<1>4. CASE write_total
  <2>1. /\ UNCHANGED <<ever, always, total, page>> /\ pass = "count" /\ pass' = "list"
        /\ todo = <<>> /\ todo' = HttpPeers \o StreamPeers
    BY <1>4 DEF write_total, history
  <2>2. Distinct(todo)' /\ In(todo)' = Peers
    <3>1. /\ In(todo)' = In(HttpPeers \o StreamPeers)
          /\ Distinct(todo)' = Distinct(HttpPeers \o StreamPeers)
      BY <2>1 DEF In, Distinct
    <3> QED BY <3>1, Visited, VisitedOnce
  <2>6. In(todo) = {}
    BY <2>1 DEF In
  <2>3. \A kind \in Kinds : Len(page'[kind]) = 0
    BY <2>1, Blank DEF FormInv, PageInv
  <2>4. \A kind \in Kinds : Commas(kind)'
    BY <2>3 DEF Commas
  <2>5. ASSUME ever = always, NEW kind \in Kinds PROVE Counts(kind)'
    <3>1. Past(kind) = Wanted(kind) /\ Wanted(kind)' = Wanted(kind) /\ Past(kind)' = {}
      BY <1>1, <2>1, <2>2, <2>6 DEF Past, Wanted
    <3>2. total[kind] = Cardinality(Past(kind))
      BY <2>1, <2>5 DEF FormInv, Counts
    <3> QED BY <2>1, <2>3, <3>1, <3>2, FS_EmptySet DEF Counts
  <2> QED BY <1>1, <2>1, <2>2, <2>4, <2>5 DEF FormInv
<1>5. CASE send_page
  <2>1. /\ UNCHANGED <<ever, always, total, page, todo>> /\ pass = "list" /\ pass' = "done"
        /\ todo = <<>>
    BY <1>5 DEF send_page, history
  <2>2. Distinct(todo)' /\ In(todo) = {} /\ \A kind \in Kinds : Commas(kind)'
    BY <2>1 DEF FormInv, Distinct, Commas, In
  <2>3. ASSUME ever = always, NEW kind \in Kinds PROVE Counts(kind)'
    <3>1. Past(kind) = Wanted(kind)
      BY <2>2 DEF Past
    <3> QED BY <2>1, <2>3, <3>1 DEF FormInv, Counts
  <2> QED BY <1>1, <2>1, <2>2, <2>3 DEF FormInv
<1> QED BY <1>2, <1>3, <1>4, <1>5

\* The second pass numbers what it visits, and puts the commas accordingly.
LEMMA ListForm == ASSUME FormInv, PageInv', list_peer PROVE FormInv'
<1>1. /\ PageTypeOK /\ UNCHANGED <<ever, always, pass, total>> /\ ever \subseteq Peers
      /\ pass = "list" /\ todo # <<>> /\ todo' = Tail(todo)
  BY DEF FormInv, PageInv, list_peer, history
<1>2. PICK p \in Peers : p = Head(todo) /\ p.kind \in Kinds
  BY <1>1, HeadAndTail, KindOfPeer DEF PageTypeOK
<1> DEFINE n == Len(page[p.kind]) + 1
<1>3. /\ Len(page[p.kind]) \in Nat /\ n \in Nat
      /\ page' = IF Shown(p) THEN Written(p, n) ELSE page
  BY <1>1, <1>2 DEF PageTypeOK, list_peer
<1>4. Distinct(todo)'
  <2>1. todo \in Seq(Peers) /\ Distinct(todo)
    BY <1>1 DEF FormInv, PageTypeOK
  <2>2. Distinct(Tail(todo))
    BY <1>1, <2>1, DistinctTail, Zenon
  <2> QED BY ONLY <1>1, <2>2, Zenon DEF Distinct
<1>5. \A kind \in Kinds : Cardinality(Past(kind)) \in Nat /\ ever = always =>
         Cardinality(Past(kind)') =
            IF Shown(p) /\ kind = p.kind THEN Cardinality(Past(kind)) + 1 ELSE Cardinality(Past(kind))
  BY <1>1, <1>2, Visit
<1>0. total' = total /\ ever' = ever /\ always' = always /\ ever' \subseteq Peers
  BY <1>1
<1>6. CASE Shown(p)
  <2>1. /\ Len(page'[p.kind]) = n /\ page'[p.kind][n] = Entry(p, n)
        /\ \A i \in 1..Len(page[p.kind]) : page'[p.kind][i] = page[p.kind][i]
        /\ \A kind \in Kinds : kind # p.kind => page'[kind] = page[kind]
    BY <1>1, <1>2, <1>3, <1>6, WrittenFacts
  <2>2. Entry(p, n).comma <=> n # total[p.kind]
    BY DEF Entry
  <2>3. \A kind \in Kinds : Commas(kind)
    BY DEF FormInv
  <2>4. Commas(p.kind)'
    <3>1. \A i \in 1..n : i = n \/ i \in 1..Len(page[p.kind])
      BY <1>3
    <3>2. \A i \in 1..Len(page[p.kind]) : page[p.kind][i].comma <=> i # total[p.kind]
      BY <1>2, <2>3 DEF Commas
    <3> HIDE DEF n
    <3>3. \A i \in 1..Len(page'[p.kind]) : page'[p.kind][i].comma <=> i # total[p.kind]
      BY <2>1, <2>2, <3>1, <3>2
    <3> QED BY <1>0, <3>3 DEF Commas
  <2>5. \A kind \in Kinds : kind # p.kind => Commas(kind)'
    BY <1>1, <2>1, <2>3 DEF Commas
  <2>6. ASSUME ever = always, NEW kind \in Kinds PROVE Counts(kind)'
    <3>1. total[kind] = Cardinality(Wanted(kind)) /\ Len(page[kind]) = Cardinality(Past(kind))
      BY <1>1, <2>6 DEF FormInv, Counts
    <3>2. Wanted(kind)' = Wanted(kind)
      BY <1>1 DEF Wanted
    <3>3. Len(page'[kind]) = Cardinality(Past(kind)')
      BY <1>1, <1>3, <1>5, <1>6, <2>1, <2>6, <3>1
    <3>4. pass' = "list" /\ total'[kind] = Cardinality(Wanted(kind)')
      BY <1>1, <3>1, <3>2
    <3> QED BY <3>3, <3>4 DEF Counts
  <2>7. \A kind \in Kinds : Commas(kind)'
    BY <2>4, <2>5
  <2> QED BY <1>0, <1>4, <2>6, <2>7 DEF FormInv
<1>7. CASE ~Shown(p)
  <2>1. page' = page /\ \A kind \in Kinds : Commas(kind)'
    BY <1>0, <1>3, <1>7 DEF FormInv, Commas
  <2>2. ASSUME ever = always, NEW kind \in Kinds PROVE Counts(kind)'
    <3>1. total[kind] = Cardinality(Wanted(kind)) /\ Len(page[kind]) = Cardinality(Past(kind))
      BY <1>1, <2>2 DEF FormInv, Counts
    <3>2. Wanted(kind)' = Wanted(kind)
      BY <1>1 DEF Wanted
    <3>3. Len(page'[kind]) = Cardinality(Past(kind)')
      BY <1>5, <1>7, <2>1, <2>2, <3>1
    <3> QED BY <1>1, <3>1, <3>2, <3>3 DEF Counts
  <2> QED BY <1>0, <1>4, <2>1, <2>2 DEF FormInv
<1> QED BY <1>6, <1>7

\* A record that changes keeps it: once it has passed or left the filter ever
\* and always differ for the rest of the request.
LEMMA ChangeForm ==
  ASSUME FormInv, PageInv', NEW p \in Peers, status_changes(p)
  PROVE  FormInv'
<1>1. UNCHANGED <<pass, todo, total, page>>
  BY DEF status_changes
<1>2. ever \subseteq ever' /\ ever' \subseteq Peers /\ always' \subseteq always /\ always \subseteq ever
  BY DEF FormInv, PageInv, status_changes
<1>3. Distinct(todo)' /\ \A kind \in Kinds : Commas(kind)'
  BY <1>1 DEF FormInv, Distinct, Commas
<1>4. ASSUME ever' = always', NEW kind \in Kinds PROVE Counts(kind)'
  <2>1. ever' = ever /\ ever = always
    BY <1>2, <1>4
  <2>2. Wanted(kind)' = Wanted(kind) /\ Past(kind)' = Past(kind)
    BY <1>1, <2>1 DEF Wanted, Past, In
  <2> QED BY <1>1, <2>1, <2>2 DEF FormInv, Counts
<1> QED BY <1>2, <1>3, <1>4 DEF FormInv

\* A page is well-formed JSON if no record passed or left the filter during
\* its request, for any number of peers of either module.
THEOREM PageIsWellFormed == PageSpec => []PageWellFormed
<1>1. FormInv /\ PageInv' /\ [PageNext]_pvars => FormInv'
  <2> SUFFICES ASSUME FormInv, PageInv', [PageNext]_pvars PROVE FormInv'
    OBVIOUS
  <2>1. CASE UNCHANGED pvars
    <3>1. Distinct(todo)' /\ \A kind \in Kinds : Commas(kind)' = Commas(kind)
      BY <2>1 DEF FormInv, pvars, Distinct, Commas
    <3>2. \A kind \in Kinds : Counts(kind)' = Counts(kind)
      BY <2>1 DEF pvars, Counts, Past, Wanted, In
    <3> QED BY <2>1, <3>1, <3>2 DEF FormInv, pvars
  <2> QED BY <2>1, CountForm, ListForm, ChangeForm DEF PageNext
<1>2. FormInv => PageWellFormed
  <2> SUFFICES ASSUME FormInv, pass = "done", ever = always, NEW kind \in Kinds,
                      NEW i \in 1..Len(page[kind])
               PROVE  page[kind][i].comma <=> i < Len(page[kind])
    BY DEF PageWellFormed
  <2>1. Len(page[kind]) = total[kind] /\ (page[kind][i].comma <=> i # total[kind])
    BY DEF FormInv, Counts, Commas
  <2>2. Len(page[kind]) \in Nat
    BY DEF FormInv, PageInv, PageTypeOK
  <2> QED BY <2>1, <2>2
<1> QED BY <1>1, <1>2, FormInit, PageInvariant, PTL DEF PageSpec
=============================================================================
