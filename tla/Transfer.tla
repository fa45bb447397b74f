------------------------------ MODULE Transfer ------------------------------
(***************************************************************************)
(* The transfer of a file between two clients with QXmppTransferManager:   *)
(* the offer (stream initiation), the bytes in the XMPP stream itself      *)
(* ("inband") or over a SOCKS5 connection to the sender or to a proxy      *)
(* (QXmppSocks.cpp), and the end of the two jobs.                          *)
(*                                                                         *)
(* The two XMPP streams are up throughout and keep the order.  A file is a *)
(* number of blocks, which does not grow while it is sent; it may be cut,  *)
(* and a read may fail.  The identifier of a request is its kind and, for  *)
(* data, its number.  The proxy and TCP are external.                      *)
(***************************************************************************)
EXTENDS Naturals, Sequences

CONSTANTS
    Blocks,    \* the size of the file
    Hosts      \* how many addresses of its own the sender offers

ASSUME TransferSizesAssumption == Blocks \in Nat \ {0} /\ Hosts \in Nat

VARIABLES
    supports,     \* setSupportedMethods of each manager
    state, error, method, done,   \* of the job of each side
    iodevice,     \* the file of the job is open
    ending,       \* the single shot to _q_terminated is pending
    requestId,    \* the sender's last request
    sequence,     \* ibbSequence
    answered,     \* the receiver's _q_jobStateChanged has been called
    candidates, candidate,        \* m_streamCandidates, m_candidateClient
    conn,         \* the receiver's socket to each host; "half": the other end is closed
    socks,        \* socksSocket of each side, or NoHost
    relay,        \* the sender's socket to the proxy
    toWrite,      \* blocks in the write buffer of the sender's socket
    underWay,         \* blocks on their way to the receiver's socket
    toReceiver, toSender,         \* stanzas on their way
    mishap        \* history: an abort, a failed write or a broken connection

jobVars == <<state, error, method, done, iodevice, ending, requestId, sequence, answered>>
linkageVars == <<candidates, candidate, conn, socks, relay, toWrite, underWay>>
mailVars == <<toReceiver, toSender>>
transferVars == <<supports, jobVars, linkageVars, mailVars, mishap>>

Side == {"sender", "receiver"}
Proxy == 0
Host == 0..Hosts
NoHost == Hosts + 1

\* The identifier of a request, and that of a packet of data.
IqId(kind) == <<kind, 0>>
DataId(n) == <<"data", n>>

TransferTypeOK ==
    /\ supports \in [Side -> SUBSET {"inband", "socks"}]
    /\ state \in [Side -> {"none", "offer", "start", "transfer", "finished"}]
    /\ error \in [Side -> {"NoError", "Abort", "FileAccess", "FileCorrupt", "Protocol"}]
    /\ method \in [Side -> {"none", "inband", "socks"}]
    /\ done \in [Side -> 0..Blocks]
    /\ iodevice \in [Side -> BOOLEAN] /\ ending \in [Side -> BOOLEAN]
    /\ sequence \in [Side -> 0..Blocks]
    /\ answered \in BOOLEAN /\ mishap \in BOOLEAN
    /\ candidate \in Host \cup {NoHost}
    /\ conn \in [Host -> {"none", "connecting", "greeted", "served", "ready",
                     "half", "closed"}]
    /\ socks \in [Side -> Host \cup {NoHost}]
    /\ relay \in {"none", "connecting", "up", "closed"}
    /\ toWrite \in 0..3 /\ underWay \in 0..Blocks
    /\ \A s \in Side : ending[s] => state[s] # "none"

TransferInit ==
    /\ supports \in [Side -> (SUBSET {"inband", "socks"}) \ {{}}]
    /\ state = [s \in Side |-> "none"] /\ error = [s \in Side |-> "NoError"]
    /\ method = [s \in Side |-> "none"] /\ done = [s \in Side |-> 0]
    /\ iodevice = [s \in Side |-> FALSE] /\ ending = [s \in Side |-> FALSE]
    /\ requestId = IqId("none") /\ sequence = [s \in Side |-> 0] /\ answered = FALSE
    /\ candidates = <<>> /\ candidate = NoHost
    /\ conn = [h \in Host |-> "none"] /\ socks = [s \in Side |-> NoHost]
    /\ relay = "none" /\ toWrite = 0 /\ underWay = 0
    /\ toReceiver = <<>> /\ toSender = <<>> /\ mishap = FALSE

-----------------------------------------------------------------------------
(* A job.                                                                  *)

\* The two ends of the connection that carries the file still talk.
Linked ==
    /\ socks["sender"] # NoHost /\ conn[socks["sender"]] \in {"served", "ready"}
    /\ socks["sender"] = Proxy => relay = "up"

\* terminate: the file and the socket are closed (what is unwritten in the
\* socket is still written), the signals follow later.
Terminate(s, cause) ==
    \/ /\ state[s] = "finished"
       /\ UNCHANGED <<state, error, iodevice, ending, conn, relay, toWrite, underWay>>
    \/ /\ state[s] # "finished"
       /\ state' = [state EXCEPT ![s] = "finished"]
       /\ error' = [error EXCEPT ![s] = cause]
       /\ iodevice' = [iodevice EXCEPT ![s] = FALSE]
       /\ ending' = [ending EXCEPT ![s] = TRUE]
       /\ toWrite' = 0
       /\ underWay' = IF s = "sender" /\ Linked THEN underWay + toWrite ELSE underWay
       /\ relay' = IF s = "sender" /\ socks[s] = Proxy THEN "closed" ELSE relay
       /\ conn' = IF socks[s] = NoHost \/ conn[socks[s]] = "closed" THEN conn
                  ELSE [conn EXCEPT ![socks[s]] =
                          IF s = "receiver" THEN "closed"
                          ELSE IF socks[s] = Proxy THEN @ ELSE "half"]

\* Neither job, or none of the connections.
Jobs == UNCHANGED <<state, error, iodevice, ending>>
Links == UNCHANGED <<conn, relay, toWrite, underWay>>

Tell(m) == toSender' = Append(toSender, m)
Ask(id, m) == requestId' = id /\ toReceiver' = Append(toReceiver, m)

\* Mutant: the size is not looked at.
VerdictLax == "NoError"

\* checkData
Verdict == IF done'["receiver"] = Blocks THEN "NoError" ELSE "FileCorrupt"

\* _q_terminated: the end of a job is announced.  A receiver's job that was
\* never accepted is refused, an aborted inband transfer is closed.
Terminated(s) ==
    /\ ending[s] /\ ending' = [ending EXCEPT ![s] = FALSE]
    /\ \/ /\ s = "sender" /\ method[s] = "inband" /\ error[s] = "Abort"
          /\ Ask(IqId("close"), [is |-> "close"])
          /\ UNCHANGED <<answered, toSender>>
       \/ /\ s = "receiver" /\ ~answered
          /\ answered' = TRUE
          /\ Tell([is |-> "error", re |-> IqId("si")])
          /\ UNCHANGED <<requestId, toReceiver>>
       \/ /\ s = "sender" => method[s] # "inband" \/ error[s] # "Abort"
          /\ s = "receiver" => answered
          /\ UNCHANGED <<answered, requestId, mailVars>>
    /\ UNCHANGED <<supports, state, error, method, done, iodevice, sequence,
                   linkageVars, mishap>>

\* abort, by the user of either side.
Abort(s) ==
    /\ state[s] \in {"offer", "start", "transfer"}
    /\ Terminate(s, "Abort")
    /\ mishap' = TRUE
    /\ UNCHANGED <<supports, method, done, requestId, sequence, answered,
                   candidates, candidate, socks, mailVars>>

-----------------------------------------------------------------------------
(* The offer.                                                              *)

\* sendFile; a file that cannot be read ends the job at once.
SendFile ==
    /\ state["sender"] = "none"
    /\ \/ /\ state' = [state EXCEPT !["sender"] = "offer"]
          /\ iodevice' = [iodevice EXCEPT !["sender"] = TRUE]
          /\ Ask(IqId("si"), [is |-> "si", methods |-> supports["sender"]])
          /\ UNCHANGED <<error, ending, mishap>>
       \/ /\ state' = [state EXCEPT !["sender"] = "finished"]
          /\ error' = [error EXCEPT !["sender"] = "FileAccess"]
          /\ ending' = [ending EXCEPT !["sender"] = TRUE]
          /\ mishap' = TRUE
          /\ UNCHANGED <<iodevice, requestId, toReceiver>>
    /\ UNCHANGED <<supports, method, done, sequence, answered, linkageVars, toSender>>

\* streamInitiationSetReceived
StreamInitiationSet(m) ==
    /\ m.is = "si"
    /\ LET shared == m.methods \cap supports["receiver"] IN
         \/ /\ shared = {}
            /\ Tell([is |-> "error", re |-> IqId("si")])
            /\ UNCHANGED <<state, method>>
         \/ /\ shared # {}
            /\ state' = [state EXCEPT !["receiver"] = "offer"]
            /\ method' = [method EXCEPT !["receiver"] =
                            IF "socks" \in shared THEN "socks" ELSE "inband"]
            /\ UNCHANGED toSender
    /\ UNCHANGED <<error, done, iodevice, ending, requestId, sequence, answered,
                   linkageVars, mishap>>

\* accept; a file that cannot be written aborts the job.
Accept ==
    /\ state["receiver"] = "offer"
    /\ \/ /\ iodevice' = [iodevice EXCEPT !["receiver"] = TRUE]
          /\ state' = [state EXCEPT !["receiver"] = "start"]
          /\ answered' = TRUE
          /\ Tell([is |-> "siResult", re |-> IqId("si"), method |-> method["receiver"]])
          /\ Links /\ UNCHANGED <<error, ending, mishap>>
       \/ /\ Terminate("receiver", "Abort")
          /\ mishap' = TRUE
          /\ UNCHANGED <<answered, toSender>>
    /\ UNCHANGED <<supports, method, done, requestId, sequence, candidates,
                   candidate, socks, toReceiver>>

\* streamInitiationResultReceived: the stream is opened, or the proxy asked
\* for its address.
StreamInitiationResult(m) ==
    /\ m.is = "siResult"
    /\ IF requestId = m.re /\ state["sender"] = "offer"
       THEN /\ method' = [method EXCEPT !["sender"] = m.method]
            /\ state' = [state EXCEPT !["sender"] = "start"]
            /\ \/ m.method = "inband" /\ Ask(IqId("open"), [is |-> "open"])
               \/ m.method = "socks" /\ requestId' = IqId("proxy") /\ UNCHANGED toReceiver
       ELSE UNCHANGED <<method, state, requestId, toReceiver>>
    /\ UNCHANGED <<error, done, iodevice, ending, sequence, answered, linkageVars, mishap>>

-----------------------------------------------------------------------------
(* In-band bytestreams.                                                    *)

\* ibbOpenIqReceived; the block sizes are the same.
IbbOpen(m) ==
    /\ m.is = "open"
    /\ IF method["receiver"] = "inband"
       THEN /\ state' = [state EXCEPT !["receiver"] = "transfer"]
            /\ Tell([is |-> "result", re |-> IqId("open")])
       ELSE Tell([is |-> "error", re |-> IqId("open")]) /\ UNCHANGED state
    /\ UNCHANGED <<error, method, done, iodevice, ending, requestId, sequence,
                   answered, linkageVars, mishap>>

\* ibbDataIqReceived: the packet is acknowledged whether or not it could be
\* written.
IbbData(m) ==
    /\ m.is = "data"
    /\ \/ /\ state["receiver"] = "transfer" /\ sequence["receiver"] = m.n
          /\ \/ iodevice["receiver"] /\ done' = [done EXCEPT !["receiver"] = @ + 1]
                /\ UNCHANGED mishap
             \/ mishap' = TRUE /\ UNCHANGED done
          /\ sequence' = [sequence EXCEPT !["receiver"] = @ + 1]
          /\ Tell([is |-> "result", re |-> DataId(m.n)])
       \/ /\ state["receiver"] # "transfer" \/ sequence["receiver"] # m.n
          /\ Tell([is |-> "error", re |-> DataId(m.n)])
          /\ UNCHANGED <<done, sequence, mishap>>
    /\ Jobs /\ UNCHANGED <<method, requestId, answered, linkageVars>>

\* ibbCloseIqReceived
IbbClose(m) ==
    /\ m.is = "close"
    /\ done' = done
    /\ \/ /\ method["receiver"] = "inband"
          /\ Tell([is |-> "result", re |-> IqId("close")])
          /\ Terminate("receiver", Verdict)
       \/ /\ method["receiver"] # "inband"
          /\ Tell([is |-> "error", re |-> IqId("close")])
          /\ Jobs /\ Links
    /\ UNCHANGED <<method, requestId, sequence, answered, candidates, candidate,
                   socks, mishap>>

\* ibbResponseReceived: the next block; or the end, which is when a read gives
\* nothing: at the end of the file, of one that was cut, or after an error.
IbbResponse(m) ==
    \/ /\ m.is = "result" /\ done["sender"] < Blocks
       /\ state' = [state EXCEPT !["sender"] = "transfer"]
       /\ Ask(DataId(sequence["sender"]), [is |-> "data", n |-> sequence["sender"]])
       /\ sequence' = [sequence EXCEPT !["sender"] = @ + 1]
       /\ done' = [done EXCEPT !["sender"] = @ + 1]
       /\ Links /\ UNCHANGED <<error, iodevice, ending>>
    \/ /\ m.is = "result"
       /\ Ask(IqId("close"), [is |-> "close"])
       /\ Terminate("sender", "NoError")
       /\ UNCHANGED <<sequence, done>>
    \/ /\ m.is = "error"
       /\ Ask(IqId("close"), [is |-> "close"])
       /\ Terminate("sender", "Protocol")
       /\ UNCHANGED <<sequence, done>>

-----------------------------------------------------------------------------
(* SOCKS5: the receiver tries the hosts one by one.                        *)

\* socksServerSendOffer, once the proxy has said what it had to; it does not
\* matter whether the job is still there to be done.
ProxyAnswers ==
    /\ requestId = IqId("proxy")
    /\ Ask(IqId("offer"), [is |-> "offer"])
    /\ UNCHANGED <<supports, state, error, method, done, iodevice, ending, sequence,
                   answered, linkageVars, toSender, mishap>>

\* connectToNextHost, with these candidates left.
NextHost(left) ==
    \/ /\ left = <<>>
       /\ candidate' = NoHost /\ candidates' = left
       /\ Tell([is |-> "error", re |-> IqId("offer")])
       /\ Terminate("receiver", "Protocol")
    \/ /\ left # <<>>
       /\ candidate' = Head(left) /\ candidates' = Tail(left)
       /\ conn' = [h \in Host |-> IF h = Head(left) THEN "connecting"
                                  ELSE IF h = candidate THEN "closed" ELSE conn[h]]
       /\ Jobs /\ UNCHANGED <<relay, toWrite, underWay, toSender>>

\* byteStreamSetReceived
ByteStreamSet(m) ==
    /\ m.is = "offer"
    /\ \/ /\ method["receiver"] = "socks" /\ state["receiver"] = "start"
          /\ NextHost(Append([h \in 1..Hosts |-> h], Proxy))
       \/ /\ method["receiver"] # "socks" \/ state["receiver"] # "start"
          /\ Tell([is |-> "error", re |-> IqId("offer")])
          /\ Jobs /\ Links /\ UNCHANGED <<candidates, candidate>>
    /\ UNCHANGED <<method, done, requestId, sequence, answered, socks, mishap>>

\* What is left as it is by the events of a candidate.
CandidateRest == UNCHANGED <<supports, method, done, requestId, sequence, answered,
                             toReceiver, mishap>>

\* slotConnected and the first answer.
CandidateConnected(h) ==
    /\ candidate = h /\ conn[h] = "connecting"
    /\ conn' = [conn EXCEPT ![h] = "greeted"]
    /\ Jobs /\ CandidateRest
    /\ UNCHANGED <<candidates, candidate, socks, relay, toWrite, underWay, toSender>>

\* The server, or the proxy, takes the command: _q_socksServerConnected.
SocksServerConnected(h) ==
    /\ candidate = h /\ conn[h] = "greeted"
    /\ conn' = [conn EXCEPT ![h] = "served"]
    /\ socks' = IF h = Proxy THEN socks ELSE [socks EXCEPT !["sender"] = h]
    /\ Jobs /\ CandidateRest
    /\ UNCHANGED <<candidates, candidate, relay, toWrite, underWay, toSender>>

\* _q_candidateReady, whatever has become of the job.
CandidateReady(h) ==
    /\ candidate = h /\ conn[h] = "served"
    /\ candidate' = NoHost
    /\ conn' = [conn EXCEPT ![h] = "ready"]
    /\ socks' = [socks EXCEPT !["receiver"] = h]
    /\ state' = [state EXCEPT !["receiver"] = "transfer"]
    /\ Tell([is |-> "used", re |-> IqId("offer"), host |-> h])
    /\ CandidateRest
    /\ UNCHANGED <<error, iodevice, ending, candidates, relay, toWrite, underWay>>

\* _q_candidateDisconnected, when the other end closes.
CandidateDisconnected(h) ==
    /\ candidate = h /\ conn[h] = "half"
    /\ NextHost(candidates) /\ CandidateRest /\ UNCHANGED socks

\* _q_candidateDisconnected, when the timer fires.  The socket is destroyed
\* later; one that was connected says disconnected() once more then, and that
\* is taken for the next candidate, which is dropped in its turn.
CandidateTimeout(h) ==
    /\ candidate = h
    /\ \/ /\ conn[h] \in {"greeted", "served"} /\ candidates # <<>>
          /\ NextHost(Tail(candidates))
       \/ /\ conn[h] \notin {"greeted", "served"} \/ candidates = <<>>
          /\ NextHost(candidates)
    /\ CandidateRest /\ UNCHANGED socks

-----------------------------------------------------------------------------
(* SOCKS5: the sender.                                                     *)

\* _q_sendData, with so many blocks in the buffer of the socket.  What is
\* written to a socket that is closed is lost, and counted.  The read of the
\* file fails when it is closed, and may fail otherwise; where the file was cut
\* it gives nothing, and nothing is written that would lead to the next one.
SendData(unwritten) ==
    \/ /\ done["sender"] = Blocks /\ unwritten = 0
       /\ Terminate("sender", "NoError")
       /\ UNCHANGED done
    \/ /\ done["sender"] < Blocks /\ unwritten <= 2
       /\ Terminate("sender", "FileAccess")
       /\ UNCHANGED done
    \/ /\ done["sender"] < Blocks /\ unwritten <= 2 /\ iodevice["sender"]
       /\ done' = [done EXCEPT !["sender"] = @ + 1]
       /\ toWrite' = IF Linked THEN unwritten + 1 ELSE unwritten
       /\ state' = [state EXCEPT !["sender"] = "transfer"]
       /\ UNCHANGED <<error, iodevice, ending, conn, relay>>
       /\ underWay' = underWay + (toWrite - unwritten)
    \/ /\ \/ unwritten > 0 /\ (done["sender"] = Blocks \/ unwritten > 2)
          \/ done["sender"] < Blocks /\ unwritten <= 2 /\ iodevice["sender"]
       /\ toWrite' = unwritten
       /\ underWay' = underWay + (toWrite - unwritten)
       /\ state' = [state EXCEPT !["sender"] = "transfer"]
       /\ UNCHANGED <<error, iodevice, ending, done, conn, relay>>

\* byteStreamResultReceived: the receiver says which host it uses.
ByteStreamResult(m) ==
    /\ m.is = "used"
    /\ \/ /\ requestId # m.re \/ state["sender"] # "start"
          /\ Jobs /\ Links /\ UNCHANGED <<done, socks>>
       \/ /\ requestId = m.re /\ state["sender"] = "start" /\ m.host = Proxy
          /\ socks' = [socks EXCEPT !["sender"] = Proxy]
          /\ relay' = "connecting"
          /\ Jobs /\ UNCHANGED <<done, conn, toWrite, underWay>>
       \/ /\ requestId = m.re /\ state["sender"] = "start" /\ m.host # Proxy
          /\ UNCHANGED socks
          /\ \/ socks["sender"] = NoHost /\ Terminate("sender", "Protocol") /\ UNCHANGED done
             \/ socks["sender"] # NoHost /\ SendData(0)
    /\ UNCHANGED <<method, requestId, sequence, answered, candidates, candidate,
                   toReceiver, mishap>>

SenderRest == UNCHANGED <<supports, method, sequence, answered, candidates, candidate,
                          socks, mailVars>>

\* _q_proxyReady: the proxy is asked to activate the stream.
ProxyReady ==
    /\ relay = "connecting"
    /\ relay' = "up" /\ requestId' = IqId("activate")
    /\ Jobs /\ SenderRest /\ UNCHANGED <<done, conn, toWrite, underWay, mishap>>

\* _q_iqReceived, of the proxy's answer.  startSending puts a job that has ended
\* under way once more: its file is closed, and the job ends again, of that.
ProxyActivates ==
    /\ requestId = IqId("activate")
    /\ requestId' = IqId("none")
    /\ \/ /\ state["sender"] # "finished"
          /\ SendData(IF relay = "up" THEN toWrite ELSE 0)
       \/ /\ state["sender"] = "finished"
          /\ error' = [error EXCEPT !["sender"] =
                          IF done["sender"] = Blocks THEN "NoError" ELSE "FileAccess"]
          /\ ending' = [ending EXCEPT !["sender"] = TRUE]
          /\ Links /\ UNCHANGED <<state, iodevice, done>>
       \/ Terminate("sender", "Protocol") /\ UNCHANGED done
    /\ SenderRest /\ UNCHANGED mishap

\* bytesWritten
BytesWritten ==
    /\ Linked /\ toWrite > 0 /\ state["sender"] = "transfer"
    /\ SendData(toWrite - 1)
    /\ SenderRest /\ UNCHANGED <<requestId, mishap>>

\* _q_disconnected of the sender: the receiver, or the proxy, has closed.
SenderDisconnected ==
    /\ socks["sender"] # NoHost /\ conn[socks["sender"]] = "closed"
    /\ requestId = IqId("offer") => state["sender"] = "transfer"
    /\ state["sender"] # "finished"
    /\ Terminate("sender", IF done["sender"] # Blocks THEN "Protocol" ELSE "NoError")
    /\ SenderRest /\ UNCHANGED <<done, requestId, mishap>>

-----------------------------------------------------------------------------
(* SOCKS5: the receiver's end of the stream.                               *)

StreamRest == UNCHANGED <<supports, method, requestId, sequence, answered, candidates,
                          candidate, socks, mailVars>>

\* _q_receiveData: everything that is there is read; what cannot be written is
\* lost.
ReceiveData ==
    /\ socks["receiver"] # NoHost /\ underWay > 0 /\ state["receiver"] = "transfer"
    /\ conn[socks["receiver"]] \in {"ready", "half"}
    /\ \E n \in 1..underWay :
          /\ \/ /\ iodevice["receiver"]
                /\ done' = [done EXCEPT !["receiver"] = @ + n] /\ UNCHANGED mishap
             \/ mishap' = TRUE /\ UNCHANGED done
          /\ \/ /\ done'["receiver"] = Blocks
                /\ state' = [state EXCEPT !["receiver"] = "finished"]
                /\ error' = [error EXCEPT !["receiver"] = "NoError"]
                /\ iodevice' = [iodevice EXCEPT !["receiver"] = FALSE]
                /\ ending' = [ending EXCEPT !["receiver"] = TRUE]
                /\ conn' = [conn EXCEPT ![socks["receiver"]] = "closed"]
                /\ UNCHANGED <<relay, toWrite>>
             \/ done'["receiver"] # Blocks /\ Jobs /\ UNCHANGED <<conn, relay, toWrite>>
          /\ underWay' = underWay - n
    /\ StreamRest

\* _q_disconnected of the receiver: checkData.
StreamDisconnected ==
    /\ socks["receiver"] # NoHost /\ conn[socks["receiver"]] = "half" /\ underWay = 0
    /\ done' = done
    /\ Terminate("receiver", Verdict)
    /\ StreamRest /\ UNCHANGED mishap

\* The proxy closes the receiver's connection: the sender is gone, or did not
\* get it activated.
ProxyCloses ==
    /\ conn[Proxy] \in {"greeted", "served", "ready"}
    /\ relay = "closed" \/ state["sender"] = "finished"
    /\ conn' = [conn EXCEPT ![Proxy] = "half"]
    /\ Jobs /\ StreamRest /\ UNCHANGED <<done, relay, toWrite, underWay, mishap>>

\* The connection in use breaks.
StreamBreaks ==
    /\ Linked
    /\ underWay' = 0 /\ toWrite' = 0 /\ mishap' = TRUE
    /\ conn' = [conn EXCEPT ![socks["sender"]] = "half"]
    /\ Jobs /\ StreamRest /\ UNCHANGED <<done, relay>>

-----------------------------------------------------------------------------
\* handleStanza and _q_iqReceived of the receiver.
ReceiverHandles ==
    /\ toReceiver # <<>> /\ toReceiver' = Tail(toReceiver)
    /\ LET m == Head(toReceiver) IN
         \/ StreamInitiationSet(m) \/ ByteStreamSet(m)
         \/ IbbOpen(m) \/ IbbData(m) \/ IbbClose(m)
    /\ UNCHANGED supports

\* An answer to the sender's last request, of a job still under way.
Response(m) ==
    /\ m.is \in {"result", "error"}
    /\ \/ /\ requestId = m.re /\ state["sender"] # "finished"
          /\ \/ method["sender"] = "inband" /\ IbbResponse(m)
             \/ /\ method["sender"] # "inband" /\ m.is = "error"
                /\ Terminate("sender", "Abort")
                /\ UNCHANGED <<done, sequence, requestId, toReceiver>>
       \/ /\ requestId # m.re \/ state["sender"] = "finished"
          /\ Jobs /\ Links /\ UNCHANGED <<done, sequence, requestId, toReceiver>>
    /\ UNCHANGED <<method, answered, candidates, candidate, socks, mishap>>

SenderHandles ==
    /\ toSender # <<>> /\ toSender' = Tail(toSender)
    /\ LET m == Head(toSender) IN
         StreamInitiationResult(m) \/ ByteStreamResult(m) \/ Response(m)
    /\ UNCHANGED supports

TransferNext ==
    \/ SendFile \/ Accept \/ SenderHandles \/ ReceiverHandles
    \/ \E s \in Side : Abort(s) \/ Terminated(s)
    \/ ProxyAnswers \/ ProxyReady \/ ProxyActivates \/ ProxyCloses
    \/ \E h \in Host :
          \/ CandidateConnected(h) \/ SocksServerConnected(h) \/ CandidateReady(h)
          \/ CandidateDisconnected(h) \/ CandidateTimeout(h)
    \/ BytesWritten \/ SenderDisconnected
    \/ ReceiveData \/ StreamDisconnected \/ StreamBreaks

TransferSpec == TransferInit /\ [][TransferNext]_transferVars

-----------------------------------------------------------------------------
(* Properties.                                                             *)

\* Whatever happens, the receiver takes no part of the file for the whole.  Two
\* jobs that have ended without an abort, a write that failed or a broken
\* connection agree on whether the file was transferred, except that a sender
\* in the stream itself (QXmppTransferManager.cpp:1095-1116) takes a file it
\* could not read to its end for one it has sent; the receiver knows better.
OutcomesAgree ==
    /\ state["receiver"] = "finished" /\ error["receiver"] = "NoError"
          => done["receiver"] = Blocks
    /\ ~mishap /\ (\A s \in Side : state[s] = "finished") =>
          LET unread == method["sender"] = "inband" /\ done["sender"] < Blocks
          IN  error["receiver"] = "NoError" <=> error["sender"] = "NoError" /\ ~unread
=============================================================================
