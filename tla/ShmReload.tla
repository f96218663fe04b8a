----------------------------- MODULE ShmReload -----------------------------
(***************************************************************************)
(* The records of the peers of an nginx process across reloads of its      *)
(* configuration: each configuration gets a shared memory zone named after *)
(* a generation number, and its peers inherit the records of the zone of   *)
(* the generation before (init_shm, init_shm_zone).  ByUpstream tells the  *)
(* two check modules apart: stream looks an old record up by upstream and  *)
(* address, http by address alone.                                         *)
(*                                                                         *)
(* The old zone's data is never handed to init_shm_zone, as no two         *)
(* generations have the same name: the branch for an unchanged zone is     *)
(* never taken, and every reload copies records.  The master copies them   *)
(* while the workers of the old configuration check on; those of the new   *)
(* one are started when the copy is complete.                              *)
(***************************************************************************)
EXTENDS Integers, Sequences

CONSTANTS
  Confs,        \* configurations: sequences of peers [upstream, addr]
  ByUpstream,   \* TRUE: stream module; FALSE: http module
  RiseCount,    \* rise_count of the check directives
  FallCount,    \* fall_count of the check directives
  DefaultDown,  \* default_down of the check directives
  MaxReloads,   \* bound: reloads that get as far as init_shm
  LateErrors    \* may a reload fail after init_shm?

ASSUME ReloadAssumption ==
  /\ RiseCount \in Nat \ {0}
  /\ FallCount \in Nat \ {0}
  /\ DefaultDown \in BOOLEAN
  /\ ByUpstream \in BOOLEAN
  /\ LateErrors \in BOOLEAN
  /\ MaxReloads \in Nat

\* A configuration names each server of an upstream once.
ASSUME ConfsAssumption ==
  \A c \in Confs :
    /\ c \in Seq([upstream : STRING, addr : STRING])
    /\ \A i, j \in 1..Len(c) : c[i] = c[j] => i = j

VARIABLES
  generation,   \* the static counter of the master process
  conf,         \* the running configuration
  zone,         \* the generation its zone is named after
  records,      \* the records of its peers, in the order of conf
  built         \* the configuration whose workers are still to be started

rvars == <<generation, conf, zone, records, built>>

-----------------------------------------------------------------------------
\* init_shm_peer without a record to inherit.
FreshRecord == [rise |-> 0, fall |-> 0, down |-> DefaultDown]

Matches(old, new) ==
  /\ old.addr = new.addr
  /\ ByUpstream => old.upstream = new.upstream

\* Variant with a bug: the old record at the same place is taken.
FirstFound_same_place(old, peer) == 1

\* find_shm_peer: the records of the old zone are searched in order.
Found(old, peer) == {i \in 1..Len(old) : Matches(old[i], peer)}
FirstFound(old, peer) ==
  CHOOSE i \in Found(old, peer) : \A j \in Found(old, peer) : i <= j

\* The zone of generation g finds the one before it among the zones of the
\* running configuration, or starts afresh.
InheritedRecord(g, peer) ==
  IF zone = g - 1 /\ Found(conf, peer) # {}
  THEN records[FirstFound(conf, peer)]
  ELSE FreshRecord

\* No configuration is between its zone and its workers.
NotBuilt == [conf |-> <<>>, zone |-> 0, records |-> <<>>]

ReloadInit ==
  /\ generation = 1
  /\ conf \in Confs
  /\ zone = 1
  /\ records = [i \in 1..Len(conf) |-> FreshRecord]
  /\ built = NotBuilt

\* init_shm numbers the zone, init_shm_zone fills it.
reload(new) ==
  /\ built = NotBuilt
  /\ generation < MaxReloads
  /\ generation' = generation + 1
  /\ built' = [conf |-> new, zone |-> generation + 1,
               records |-> [i \in 1..Len(new) |->
                              InheritedRecord(generation + 1, new[i])]]
  /\ UNCHANGED <<conf, zone, records>>

\* The master starts the workers of the new configuration and tells the old
\* ones to quit.
start_worker_processes ==
  /\ built # NotBuilt
  /\ conf' = built.conf
  /\ zone' = built.zone
  /\ records' = built.records
  /\ built' = NotBuilt
  /\ UNCHANGED generation

\* The configuration is rejected after init_shm: by a later block, by
\* init_shm_zone for want of memory, or by a socket that cannot be opened.
\* The old one stays, the counter does not go back.
reload_rejected ==
  /\ LateErrors
  /\ built = NotBuilt
  /\ generation < MaxReloads
  /\ generation' = generation + 1
  /\ UNCHANGED <<conf, zone, records, built>>

\* Variants with a bug: one failure is enough; the counter runs past its
\* threshold.
Counted_one_failure(record, result) ==
  [rise |-> IF result THEN 1 ELSE 0, fall |-> IF result THEN 0 ELSE 1,
   down |-> ~result]

Counted_no_reset(record, result) ==
  [record EXCEPT !.rise = @ + 1]

\* status_update of one peer, by whichever worker checks it.  The counters are
\* only compared with their thresholds, so they stop at them here.
Counted(record, result) ==
  IF result
  THEN LET n == record.rise + 1
       IN [rise |-> IF n < RiseCount THEN n ELSE RiseCount, fall |-> 0,
           down |-> record.down /\ n < RiseCount]
  ELSE LET n == record.fall + 1
       IN [rise |-> 0, fall |-> IF n < FallCount THEN n ELSE FallCount,
           down |-> record.down \/ n >= FallCount]

check_peer(i, result) ==
  /\ i \in 1..Len(conf)
  /\ records' = [records EXCEPT ![i] = Counted(records[i], result)]
  /\ UNCHANGED <<generation, conf, zone, built>>

ReloadNext ==
  \/ \E new \in Confs : reload(new)
  \/ start_worker_processes
  \/ reload_rejected
  \/ \E i \in 1..Len(conf), result \in BOOLEAN : check_peer(i, result)

ReloadSpec == ReloadInit /\ [][ReloadNext]_rvars

-----------------------------------------------------------------------------
RecordsOf(c) ==
  [1..Len(c) -> [rise : 0..RiseCount, fall : 0..FallCount, down : BOOLEAN]]

\* Every peer of the running configuration has a record, and every peer of one
\* that is about to run.
ReloadTypeOK ==
  /\ generation \in Nat
  /\ zone \in Nat
  /\ conf \in Confs
  /\ records \in RecordsOf(conf)
  /\ built # NotBuilt =>
       /\ built.conf \in Confs
       /\ built.zone \in Nat
       /\ built.records \in RecordsOf(built.conf)
=============================================================================
