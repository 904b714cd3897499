------------------------------ MODULE Listener ------------------------------
(***************************************************************************)
(* The shared TLS listener of the serving plane: connection slots, the     *)
(* handshake, HTTP/2 connections that carry ECDS streams and asset         *)
(* fetches, the queue of HTTP/1.1 connections, loading of the certificate, *)
(* and shutdown.                                                           *)
(*                                                                         *)
(* Timeouts end a handshake, an HTTP/1.1 connection and an idle HTTP/2     *)
(* connection.  None ends a request over HTTP/2, and a request restarts    *)
(* the idle timeout: a stalled download or a proxy that asks again and     *)
(* again for a stream keeps its slot.                                      *)
(***************************************************************************)
EXTENDS Naturals, Sequences, FiniteSets

CONSTANTS Proxies,     \* connections of proxies, each for one ECDS stream at a time
          Fetchers,    \* connections for asset fetches over HTTP/1.1
          H2Fetchers,  \* and over HTTP/2
          MaxStreams, QueueCapacity

Conns == Proxies \cup Fetchers \cup H2Fetchers

VARIABLES
  alive,    \* the process context is not canceled
  bound,    \* "no", "yes", and "down" once shutdown has begun
  open,     \* the TLS listener accepts
  backlog,  \* connections the kernel has completed
  conn,     \* conn[c]: where connection c is
  tracked,  \* the map of HTTP/2 connections
  http1,    \* the channel of HTTP/1.1 connections, and whether it is done
  stop,     \* the step of shutdown that comes next
  closing,  \* the connections shutdown took out of the map
  mounted, loaded  \* the certificate is there, and is in use

listening == <<alive, bound, open>>
vars == <<alive, bound, open, backlog, conn, tracked, http1, stop,
          closing, mounted, loaded>>

\* "served" is an HTTP/1.1 connection in http.Server.  An HTTP/2 connection is
\* idle, has an open request, which may be one for a stream, or a registered
\* stream; "ended" is one that is closed and still in the map.
H2 == {"idle", "request", "stream"}
Slots == {c \in Conns : conn[c] \in {"handshake", "agreed", "queued", "served"} \cup H2}
streams == {c \in Proxies : conn[c] = "stream"}

Init == /\ alive = TRUE /\ bound = "no" /\ open = FALSE
        /\ backlog = <<>>
        /\ conn = [c \in Conns |-> "away"]
        /\ tracked = {}
        /\ http1 = [queue |-> <<>>, done |-> FALSE]
        /\ stop = "no"
        /\ closing = {}
        /\ mounted \in BOOLEAN
        /\ loaded = mounted

Move(c, place) == conn' = [conn EXCEPT ![c] = place]

----------------------------------------------------------------------------
(* Start and readiness                                                     *)

Start == /\ bound = "no" /\ alive
         /\ bound' = "yes"
         /\ open' = TRUE
         /\ UNCHANGED <<alive, backlog, conn, tracked, http1, stop, closing, mounted, loaded>>

Mount == /\ ~mounted
         /\ mounted' = TRUE
         /\ UNCHANGED <<listening, backlog, conn, tracked, http1, stop, closing, loaded>>

\* certWatcher.Start creates the watcher once the files exist.
WatchCertificate == /\ bound = "yes" /\ alive
                    /\ mounted /\ ~loaded
                    /\ loaded' = TRUE
                    /\ UNCHANGED <<listening, backlog, conn, tracked, http1, stop, closing, mounted>>

\* Ready tries the certificate again.
Probe == /\ bound = "yes"
         /\ mounted /\ ~loaded
         /\ loaded' = TRUE
         /\ UNCHANGED <<listening, backlog, conn, tracked, http1, stop, closing, mounted>>

----------------------------------------------------------------------------
(* Connections                                                             *)

Connect(c) == /\ open
              /\ conn[c] = "away"
              /\ backlog' = Append(backlog, c)
              /\ Move(c, "backlog")
              /\ UNCHANGED <<listening, tracked, http1, stop, closing, mounted, loaded>>

\* Fault: as many slots as streams.
SlotFreeTight == Cardinality(Slots) < MaxStreams

\* LimitListener.
SlotFree == Cardinality(Slots) < 2 * MaxStreams

Accept == /\ open
          /\ backlog # <<>>
          /\ SlotFree
          /\ backlog' = Tail(backlog)
          /\ Move(Head(backlog), "handshake")
          /\ UNCHANGED <<listening, tracked, http1, stop, closing, mounted, loaded>>

\* It ends within handshakeTimeout, in failure without a certificate or when
\* the context is canceled.
Handshake(c) ==
  /\ conn[c] = "handshake"
  /\ \/ alive /\ loaded /\ Move(c, "agreed")
     \/ Move(c, "away")
  /\ UNCHANGED <<listening, backlog, tracked, http1, stop, closing, mounted, loaded>>

\* dispatch of an HTTP/2 connection: track and ServeConn.
Track(c) == /\ conn[c] = "agreed" /\ c \notin Fetchers
            /\ tracked' = tracked \cup {c}
            /\ Move(c, "idle")
            /\ UNCHANGED <<listening, backlog, http1, stop, closing, mounted, loaded>>

\* dispatch of an HTTP/1.1 connection: push blocks while the channel is full.
Push(c) == /\ conn[c] = "agreed" /\ c \in Fetchers
           /\ \/ /\ Len(http1.queue) < QueueCapacity
                 /\ http1' = [http1 EXCEPT !.queue = Append(@, c)]
                 /\ Move(c, "queued")
              \/ /\ http1.done
                 /\ Move(c, "away")
                 /\ UNCHANGED http1
           /\ UNCHANGED <<listening, backlog, tracked, stop, closing, mounted, loaded>>

\* connListener.Accept, by http.Serve.
AcceptHTTP1 == /\ ~http1.done
               /\ http1.queue # <<>>
               /\ http1' = [http1 EXCEPT !.queue = Tail(@)]
               /\ Move(Head(http1.queue), "served")
               /\ UNCHANGED <<listening, backlog, tracked, stop, closing, mounted, loaded>>

EndHTTP1(c) == /\ conn[c] = "served"
               /\ Move(c, "away")
               /\ UNCHANGED <<listening, backlog, tracked, http1, stop, closing, mounted, loaded>>

\* serveH2 is called for an asset or for a stream.
Request(c) == /\ conn[c] = "idle"
              /\ Move(c, "request")
              /\ UNCHANGED <<listening, backlog, tracked, http1, stop, closing, mounted, loaded>>

\* The stream is registered; the registry refuses those above MaxStreams, and
\* a stopped gRPC server serves none.
OpenStream(c) == /\ conn[c] = "request" /\ c \in Proxies
                 /\ Cardinality(streams) < MaxStreams
                 /\ stop \in {"no", "close", "grpc"}
                 /\ Move(c, "stream")
                 /\ UNCHANGED <<listening, backlog, tracked, http1, stop, closing, mounted, loaded>>

\* The asset is sent, the stream is refused or it ends; the connection stays.
EndRequest(c) == /\ conn[c] \in {"request", "stream"}
                 /\ Move(c, "idle")
                 /\ UNCHANGED <<listening, backlog, tracked, http1, stop, closing, mounted, loaded>>

\* The peer closes the connection.
Leave(c) == /\ conn[c] \in {"request", "stream"}
            /\ Move(c, "ended")
            /\ UNCHANGED <<listening, backlog, tracked, http1, stop, closing, mounted, loaded>>

\* A connection without a request idles out or is closed by its peer.
IdleOut(c) == /\ conn[c] = "idle"
              /\ Move(c, "ended")
              /\ UNCHANGED <<listening, backlog, tracked, http1, stop, closing, mounted, loaded>>

\* ServeConn has returned.
Untrack(c) == /\ conn[c] = "ended"
              /\ tracked' = tracked \ {c}
              /\ Move(c, "away")
              /\ UNCHANGED <<listening, backlog, http1, stop, closing, mounted, loaded>>

----------------------------------------------------------------------------
(* Shutdown                                                                *)

Cancel == /\ alive
          /\ alive' = FALSE
          /\ UNCHANGED <<bound, open, backlog, conn, tracked, http1, stop, closing, mounted, loaded>>

\* The locked part of shutdown, when the context ends or a server fails.
BeginShutdown == /\ bound = "yes"
                 /\ bound' = "down"
                 /\ closing' = tracked
                 /\ tracked' = {}
                 /\ stop' = "close"
                 /\ UNCHANGED <<alive, open, backlog, conn, http1, mounted, loaded>>

\* The listener, its backlog and the connections taken from the map.
CloseConnections ==
  /\ stop = "close"
  /\ open' = FALSE
  /\ backlog' = <<>>
  /\ conn' = [c \in Conns |-> IF conn[c] = "backlog" THEN "away"
                              ELSE IF c \in closing /\ conn[c] \in H2 THEN "ended"
                              ELSE conn[c]]
  /\ stop' = "grpc"
  /\ UNCHANGED <<alive, bound, tracked, http1, closing, mounted, loaded>>

\* GracefulStop, or Stop after the timeout.
StopGRPC == /\ stop = "grpc"
            /\ conn' = [c \in Conns |-> IF c \in streams THEN "idle" ELSE conn[c]]
            /\ stop' = "http"
            /\ UNCHANGED <<listening, backlog, tracked, http1, closing, mounted, loaded>>

\* http.Shutdown closes the channel listener and waits, up to the timeout.
ShutdownHTTP == /\ stop = "http"
                /\ http1' = [http1 EXCEPT !.done = TRUE]
                /\ stop' = "returned"
                /\ UNCHANGED <<listening, backlog, conn, tracked, closing, mounted, loaded>>

Next == \/ Start \/ Mount \/ WatchCertificate \/ Probe
        \/ \E c \in Conns : \/ Connect(c) \/ Handshake(c) \/ Track(c) \/ Push(c)
                            \/ EndHTTP1(c) \/ Request(c) \/ OpenStream(c) \/ EndRequest(c)
                            \/ Leave(c) \/ IdleOut(c) \/ Untrack(c)
        \/ Accept \/ AcceptHTTP1
        \/ Cancel \/ BeginShutdown \/ CloseConnections \/ StopGRPC \/ ShutdownHTTP

\* The goroutines of the listener run, and a handshake, an HTTP/1.1 connection
\* and an HTTP/2 connection that stays idle end by their timeouts.  Nothing is
\* assumed of requests over HTTP/2.
Fairness == /\ WF_vars(Accept) /\ WF_vars(AcceptHTTP1)
            /\ \A c \in Conns : /\ WF_vars(Handshake(c)) /\ WF_vars(Track(c))
                               /\ WF_vars(Push(c)) /\ WF_vars(EndHTTP1(c))
                               /\ WF_vars(IdleOut(c)) /\ WF_vars(Untrack(c))

Spec == Init /\ [][Next]_vars /\ Fairness

----------------------------------------------------------------------------
(* Properties                                                              *)

Waiting(c) == conn[c] \in {"backlog", "handshake", "agreed", "queued"}

\* A connection that is never closed falls silent.
Quiet(c) == <>[](conn[c] \in H2) => <>[](conn[c] = "idle")

\* The headroom of the slots keeps asset fetches from being starved: as long as
\* the peers keep at most MaxStreams connections busy for good, with streams that
\* last or are opened anew, a fetch that has connected is served or turned away
\* unless the listener shuts down.
AssetsServed ==
  (\E kept \in SUBSET Proxies : /\ Cardinality(kept) <= MaxStreams
                               /\ \A c \in (Proxies \cup H2Fetchers) \ kept : Quiet(c))
  => \A c \in Fetchers \cup H2Fetchers : Waiting(c) ~> ~Waiting(c) \/ stop # "no"
=============================================================================
