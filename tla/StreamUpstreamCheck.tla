------------------------ MODULE StreamUpstreamCheck ------------------------
(***************************************************************************)
(* One peer of a stream upstream (ngx_stream_upstream_check_module.c).     *)
(* The module is a copy of the http one that went its own way: handlers    *)
(* that do the same are defined by the action of HttpUpstreamCheck they    *)
(* equal, the others are written out.                                      *)
(***************************************************************************)
EXTENDS HttpUpstreamCheck

\* No connection of a tcp check is kept here, and there are udp checks: a
\* datagram is sent and the socket peeked for an ICMP error.
StreamCheckTypes ==
  [tcp  |-> [send |-> "peek", recv |-> "peek", keepalive |-> FALSE],
   udp  |-> [send |-> "send", recv |-> "peek", keepalive |-> FALSE],
   http |-> Exchange(TRUE)]

stream_begin_handler(w) == begin_read(w) \/ begin_skip(w)
stream_begin_lock(w) == begin_lock(w)
stream_begin_return(w) == begin_return(w)

\* When the connection fails at once the status is updated, but clean_event
\* is not called: the worker stays the owner.
stream_connect_handler(w) ==
  /\ pc[w] = "unlocked"
  /\ owner = w
  /\ connect_reuse(w) \/ connect_new(w) \/ connect_fail(w, FALSE)
  /\ UNCHANGED <<shm, life, lag, due, interval, count>>

stream_peek_handler(w) == peek_handler(w, StreamCheckTypes)
stream_send_handler(w) == send_handler(w, StreamCheckTypes)
stream_recv_handler(w) == recv_handler(w, StreamCheckTypes)
stream_discard_handler(w) == discard_handler(w, StreamCheckTypes)

\* No answer to a datagram within the timeout counts as a success.
stream_timeout_handler(w) == timeout_handler(w, Type = "udp")

stream_status_update(w) ==
  status_load(w) \/ status_store(w) \/ status_publish(w)

stream_clean_event(w) == clean_event(w, StreamCheckTypes)
stream_clear_all_events(w) == clear_all_events(w)
stream_add_timers(w) == add_timers(w)

StreamHandlerStep(w) ==
  \/ stream_begin_lock(w)
  \/ stream_begin_return(w)
  \/ stream_connect_handler(w)
  \/ stream_status_update(w)
  \/ stream_clean_event(w)

StreamWorker(w) ==
  \/ stream_begin_handler(w)
  \/ StreamHandlerStep(w)
  \/ stream_peek_handler(w)
  \/ stream_send_handler(w)
  \/ stream_recv_handler(w)
  \/ stream_discard_handler(w)
  \/ stream_timeout_handler(w)
  \/ time_update(w)
  \/ stream_clear_all_events(w)
  \/ crash(w)
  \/ stream_add_timers(w)

StreamNext == Tick \/ \E w \in Pids : StreamWorker(w)

StreamSpec == Init /\ [][StreamNext]_vars

\* The fairness of HttpUpstreamCheck, for the handlers of this module.
StreamFairness ==
  /\ WF_vars(PromptTick)
  /\ \A w \in Pids :
       /\ WF_vars(stream_begin_handler(w))
       /\ WF_vars(StreamHandlerStep(w))
       /\ WF_vars(stream_timeout_handler(w))
       /\ WF_vars(time_update(w))

StreamFairSpec ==
  /\ Init
  /\ [][PromptTick \/ \E w \in Pids : StreamWorker(w)]_vars
  /\ StreamFairness

-----------------------------------------------------------------------------
\* As long as two workers stay alive, the peer is checked again and again,
\* although a connection that fails at once leaves the worker its owner: no
\* check ends then, access_time grows old and another worker takes over.  A
\* worker does not take over from itself (the test of owner in
\* begin_handler), so a worker that is alone may check the peer no more.
StreamPeerKeepsBeingChecked ==
  (\E v, w \in Pids : v # w /\ <>[](Running(v) /\ Running(w)))
    => []<>(\E w \in Pids : pc[w] = "publish")
=============================================================================
