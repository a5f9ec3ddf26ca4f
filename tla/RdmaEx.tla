-------------------------------- MODULE RdmaEx --------------------------------
(***************************************************************************)
(* rdma/rdma_ex.c: a client and a server that connect over TCP, exchange   *)
(* what they need to connect their queue pairs, and then move data: the    *)
(* server SENDs a message, the client RDMA-READs the server's buffer and   *)
(* RDMA-WRITEs it.  In between the two programs synchronise by sending one *)
(* byte each way over the TCP connection (sock_sync_data).                 *)
(*                                                                         *)
(* Each program is its path through main() and the functions it calls, one *)
(* step per call.  Every call that can fail may fail, those that release a *)
(* resource included, and the two seconds of poll_completion may run out.  *)
(*                                                                         *)
(* TCP, and the RDMA device, are outside the repository.  A TCP connection *)
(* is a queue of messages in each direction; a message is read as a whole. *)
(* A reliable-connection work request is carried out at the responder and  *)
(* then completed at the requester; if the responder's queue pair or the   *)
(* registration of a buffer is not there, it is completed with an error.   *)
(* The end of a process ends what the device still does for it.            *)
(***************************************************************************)
EXTENDS Naturals, FiniteSets, Sequences, SequencesExt

CONSTANTS
  NULL,
  MaxRefused  \* bound: the releases that fail

VARIABLES
  pc,         \* per side: its position in Path[s]
  res,        \* per side: the resources that exist
  handle,     \* per side: the members of res that are not NULL (dev_list, sock)
  tried,      \* per side: what the clean-up it is in has tried to release
  refused,    \* per side: the resources whose release failed
  listening,  \* the server's socket accepts connections
  tcp,        \* per side: the messages on their way to it
  closed,     \* per side: its end of the connection is closed
  qp,         \* per side: the state of the queue pair
  rq,         \* per side: posted receive requests
  sq,         \* per side: the posted send request, or NULL
  cq,         \* per side: completions not yet polled
  buf,        \* per side: the contents of the registered buffer
  printed,    \* per side: the buffer contents it has printed
  rc,         \* per side: rc of main
  faulty      \* history: a call has failed or timed out

vars == <<pc, res, handle, tried, refused, listening, tcp, closed, qp, rq, sq, cq, buf,
          printed, rc, faulty>>
owned == <<res, handle, tried, refused>>
conn == <<listening, tcp, closed>>
nic == <<qp, rq, sq, cq>>

Side == {"client", "server"}
Peer(s) == IF s = "client" THEN "server" ELSE "client"

------------------------------------------------------------------------------
(* The two programs. *)

\* resources_create makes these one after the other.
Create == <<"devs", "ctx", "pd", "cq", "buf", "mr", "qp">>

\* MUTANTS: the receive request is posted when the queue pairs are already
\* connected; both sides post one, the client one too many.
connect_qp_PostLate(s) ==
  <<"query_gid", "send_data", "recv_data", "init", "rtr", "rts", "send_Q", "recv_Q">>
    \o (IF s = "client" THEN <<"post_rr">> ELSE <<>>)
connect_qp_PostTwice(s) ==
  <<"query_gid", "send_data", "recv_data", "init", "post_rr">>
    \o (IF s = "client" THEN <<"post_rr">> ELSE <<>>)
    \o <<"rtr", "rts", "send_Q", "recv_Q">>

\* connect_qp; the client posts a receive request before its queue pair can
\* receive.
connect_qp(s) ==
  <<"query_gid", "send_data", "recv_data", "init">>
    \o (IF s = "client" THEN <<"post_rr">> ELSE <<>>)
    \o <<"rtr", "rts", "send_Q", "recv_Q">>

\* MUTANTS: there is no sync before the RDMA read; the completion of the read
\* is not polled; the client leaves without the last sync.
main_NoSync(s) ==
  IF s = "client"
  THEN <<"poll", "print", "RDMA_READ", "poll", "print", "RDMA_WRITE", "poll",
         "send_W", "recv_W">>
  ELSE <<"SEND", "poll", "set_R", "send_W", "recv_W", "print">>
main_NoPoll(s) ==
  IF s = "client"
  THEN <<"poll", "print", "send_R", "recv_R", "RDMA_READ", "RDMA_WRITE", "poll",
         "send_W", "recv_W">>
  ELSE <<"SEND", "poll", "set_R", "send_R", "recv_R", "send_W", "recv_W", "print">>
main_NoLastSync(s) ==
  IF s = "client"
  THEN <<"poll", "print", "send_R", "recv_R", "RDMA_READ", "poll", "print",
         "RDMA_WRITE", "poll">>
  ELSE <<"SEND", "poll", "set_R", "send_R", "recv_R", "send_W", "recv_W", "print">>

\* main, once the queue pairs are connected.
main(s) ==
  IF s = "client"
  THEN <<"poll", "print", "send_R", "recv_R", "RDMA_READ", "poll", "print",
         "RDMA_WRITE", "poll", "send_W", "recv_W">>
  ELSE <<"SEND", "poll", "set_R", "send_R", "recv_R", "send_W", "recv_W", "print">>

Path ==
  [s \in Side |-> Create \o connect_qp(s) \o main(s) \o <<"success", "create_exit", "exit">>]

\* Position 0 is sock_connect, the first call of resources_create; the last
\* one is main_exit, and beyond it the program has ended.  The clean-up at
\* resources_create_exit is reached only when resources_create has failed.
Exit(s) == Len(Path[s])
CreateExit(s) == Exit(s) - 1
Ended(s) == pc[s] > Exit(s)
At(s, steps) == pc[s] \in 1..Exit(s) /\ Path[s][pc[s]] \in steps

Goto(s, position) == pc' = [pc EXCEPT ![s] = position]
Advance(s) == Goto(s, pc[s] + 1)
\* goto main_exit.
LeaveMain(s) == Goto(s, Exit(s))

Init ==
  /\ pc = [s \in Side |-> 0]
  /\ res = [s \in Side |-> {}]
  /\ handle = [s \in Side |-> {}]
  /\ tried = [s \in Side |-> {}]
  /\ refused = [s \in Side |-> {}]
  /\ listening = FALSE
  /\ tcp = [s \in Side |-> <<>>]
  /\ closed = [s \in Side |-> FALSE]
  /\ qp = [s \in Side |-> NULL]
  /\ rq = [s \in Side |-> 0]
  /\ sq = [s \in Side |-> NULL]
  /\ cq = [s \in Side |-> <<>>]
  /\ buf = [s \in Side |-> NULL]
  /\ printed = [s \in Side |-> <<>>]
  /\ rc = [s \in Side |-> 1]
  /\ faulty = FALSE

------------------------------------------------------------------------------
(* Resources. *)

\* sock_connect, server: bind and listen ...
sock_listen ==
  /\ pc["server"] = 0 /\ ~listening
  /\ listening' = TRUE
  /\ UNCHANGED <<pc, owned, tcp, closed, nic, buf, printed, rc, faulty>>

\* ... and accept, once the client has connected.
sock_accept ==
  /\ pc["server"] = 0 /\ listening
  /\ pc["client"] > 0 /\ (closed["client"] \/ "sock" \in res["client"])
  /\ res' = [res EXCEPT !["server"] = {"sock"}]
  /\ handle' = [handle EXCEPT !["server"] = {"sock"}]
  /\ listening' = FALSE
  /\ Advance("server")
  /\ UNCHANGED <<tried, refused, tcp, closed, nic, buf, printed, rc, faulty>>

\* sock_connect, client.
sock_connect ==
  /\ pc["client"] = 0
  /\ listening
  /\ res' = [res EXCEPT !["client"] = {"sock"}]
  /\ handle' = [handle EXCEPT !["client"] = {"sock"}]
  /\ Advance("client")
  /\ UNCHANGED <<tried, refused, conn, nic, buf, printed, rc, faulty>>

\* The client's connect is refused when nobody listens.
sock_refused ==
  /\ pc["client"] = 0 /\ ~listening
  /\ faulty' = TRUE
  /\ Goto("client", CreateExit("client"))
  /\ UNCHANGED <<owned, conn, nic, buf, printed, rc>>

\* sock_connect fails in another way.
sock_connect_fails(s) ==
  /\ pc[s] = 0
  /\ faulty' = TRUE
  /\ closed' = [closed EXCEPT ![s] = TRUE]
  /\ listening' = (listening /\ s # "server")
  /\ Goto(s, CreateExit(s))
  /\ UNCHANGED <<owned, tcp, nic, buf, printed, rc>>

\* resources_create: the next resource; opening the device ends the use of
\* the list of devices.
resources_create(s, r) ==
  LET done == IF r = "ctx" THEN {"devs"} ELSE {}
  IN  /\ At(s, {r})
      /\ res' = [res EXCEPT ![s] = (@ \cup {r}) \ done]
      /\ handle' = [handle EXCEPT ![s] = (@ \cup {r}) \ done]
      /\ buf' = [buf EXCEPT ![s] = IF r # "buf" THEN @
                                   ELSE IF s = "server" THEN "SEND" ELSE "zero"]
      /\ qp' = [qp EXCEPT ![s] = IF r = "qp" THEN "RESET" ELSE @]
      /\ Advance(s)
      /\ UNCHANGED <<tried, refused, conn, rq, sq, cq, printed, rc, faulty>>

\* A call of resources_create fails (ibv_query_port, between "ctx" and "pd",
\* leaves what a failing ibv_alloc_pd leaves; so does a device that is not
\* found, before "ctx").
create_fails(s) ==
  /\ At(s, Range(Create))
  /\ faulty' = TRUE
  /\ Goto(s, CreateExit(s))
  /\ UNCHANGED <<owned, conn, nic, buf, printed, rc>>

\* connect_qp: the address of the port is asked for, when an index was given.
query_gid(s) ==
  /\ At(s, {"query_gid"})
  /\ Advance(s)
  /\ UNCHANGED <<owned, conn, nic, buf, printed, rc, faulty>>

\* A call of connect_qp, or the posting of a send request, fails.
call_fails(s) ==
  /\ At(s, {"query_gid", "init", "post_rr", "rtr", "rts", "SEND", "RDMA_READ",
            "RDMA_WRITE"})
  /\ faulty' = TRUE
  /\ LeaveMain(s)
  /\ UNCHANGED <<owned, conn, nic, buf, printed, rc>>

\* MUTANT: the protection domain goes before what was made in it.
ReleaseOrder_PdFirst == <<"pd", "qp", "mr", "buf", "cq", "ctx", "devs", "sock">>

\* The order of both clean-ups; dev_list is local to resources_create.
ReleaseOrder == <<"qp", "mr", "buf", "cq", "pd", "ctx", "devs", "sock">>

\* The handles that the clean-up has still to try.
Untried(s) == SelectSeq(ReleaseOrder, LAMBDA r : r \in handle[s] \ tried[s])

\* free and ibv_free_device_list have no result.
CanFail == {"qp", "mr", "cq", "pd", "ctx", "sock"}

Refusals == Cardinality(refused["client"]) + Cardinality(refused["server"])

\* One release.  What could not be released stays, except the socket: close
\* closes it even when it reports an error.
Release(s, r, ok) ==
  LET gone == ok \/ r = "sock"
  IN  /\ ok \/ (r \in CanFail /\ Refusals < MaxRefused)
      /\ tried' = [tried EXCEPT ![s] = @ \cup {r}]
      /\ res' = [res EXCEPT ![s] = IF gone THEN @ \ {r} ELSE @]
      /\ refused' = [refused EXCEPT ![s] = IF ok THEN @ ELSE @ \cup {r}]
      /\ closed' = [closed EXCEPT ![s] = @ \/ r = "sock"]
      /\ IF r = "qp" /\ gone
         THEN /\ qp' = [qp EXCEPT ![s] = NULL]
              /\ rq' = [rq EXCEPT ![s] = 0]
              /\ sq' = [sq EXCEPT ![s] = NULL]
         ELSE UNCHANGED <<qp, rq, sq>>
      /\ cq' = [cq EXCEPT ![s] = IF r = "cq" /\ gone THEN <<>> ELSE @]
      /\ buf' = [buf EXCEPT ![s] = IF r = "buf" THEN NULL ELSE @]
      /\ faulty' = (faulty \/ ~ok)
      /\ UNCHANGED <<pc, listening, tcp, printed, rc>>

\* MUTANT: the pointers are not reset.
resources_create_exit_Keeps(s, ok) ==
  /\ At(s, {"create_exit"}) /\ Untried(s) # <<>>
  /\ Release(s, Head(Untried(s)), ok)
  /\ UNCHANGED handle

\* resources_create_exit: the next release; its result is ignored and the
\* pointer reset.
resources_create_exit(s, ok) ==
  /\ At(s, {"create_exit"}) /\ Untried(s) # <<>>
  /\ Release(s, Head(Untried(s)), ok)
  /\ handle' = [handle EXCEPT ![s] = @ \ {Head(Untried(s))}]

\* resources_create returns its error, and main goes to main_exit.
resources_create_returns(s) ==
  /\ At(s, {"create_exit"}) /\ Untried(s) = <<>>
  /\ tried' = [tried EXCEPT ![s] = {}]
  /\ LeaveMain(s)
  /\ UNCHANGED <<res, handle, refused, conn, nic, buf, printed, rc, faulty>>

\* resources_destroy: the next release.  After one that fails the function
\* goes on; the pointers keep their values.
resources_destroy(s, ok) ==
  /\ At(s, {"exit"}) /\ Untried(s) # <<>>
  /\ Release(s, Head(Untried(s)), ok)
  /\ UNCHANGED handle

\* MUTANT: main ignores the result of resources_destroy.
main_exit_Ignores(s) ==
  /\ At(s, {"exit"}) /\ Untried(s) = <<>>
  /\ Advance(s)
  /\ UNCHANGED <<owned, conn, nic, buf, printed, rc, faulty>>

\* main_exit: a failure of resources_destroy turns the result into 1 (after a
\* failure of the other clean-up it is 1 already), and the process ends.
main_exit(s) ==
  /\ At(s, {"exit"}) /\ Untried(s) = <<>>
  /\ rc' = [rc EXCEPT ![s] = IF refused[s] # {} THEN 1 ELSE @]
  /\ qp' = [qp EXCEPT ![s] = NULL]
  /\ rq' = [rq EXCEPT ![s] = 0]
  /\ sq' = [sq EXCEPT ![s] = NULL]
  /\ cq' = [cq EXCEPT ![s] = <<>>]
  /\ Advance(s)
  /\ UNCHANGED <<owned, conn, buf, printed, faulty>>

------------------------------------------------------------------------------
(* sock_sync_data. *)

Sends == {"send_data", "send_Q", "send_R", "send_W"}
Recvs == {"recv_data", "recv_Q", "recv_R", "recv_W"}

\* write().  What is written to a closed connection is never read.  No write
\* follows a reset (which would end the program by a signal): a side that
\* writes has read all that was written before.
sock_sync_write(s) ==
  /\ At(s, Sends)
  /\ tcp' = [tcp EXCEPT ![Peer(s)] = Append(@, Path[s][pc[s]])]
  /\ Advance(s)
  /\ UNCHANGED <<owned, listening, closed, nic, buf, printed, rc, faulty>>

\* The other side has closed the connection with something unread.
Reset(s) == closed[Peer(s)] /\ tcp[Peer(s)] # <<>>

\* read() of a message, whatever it is.  At the end of the stream read()
\* returns 0, which is no error to the loop: it calls read() again, for ever.
sock_sync_read(s) ==
  /\ At(s, Recvs) /\ tcp[s] # <<>>
  /\ tcp' = [tcp EXCEPT ![s] = Tail(@)]
  /\ Advance(s)
  /\ UNCHANGED <<owned, listening, closed, nic, buf, printed, rc, faulty>>

\* read() fails.  connect_qp returns the success of the call before when it
\* is the message Q that does not come.
sock_sync_fails(s) ==
  /\ At(s, Recvs) /\ Reset(s)
  /\ IF At(s, {"recv_Q"}) THEN Advance(s) ELSE LeaveMain(s)
  /\ UNCHANGED <<owned, conn, nic, buf, printed, rc, faulty>>

------------------------------------------------------------------------------
(* The queue pairs and what is done with them. *)

\* modify_qp_to_init, modify_qp_to_rtr, modify_qp_to_rts.
modify_qp(s, step, state) ==
  /\ At(s, {step})
  /\ qp' = [qp EXCEPT ![s] = state]
  /\ Advance(s)
  /\ UNCHANGED <<owned, conn, rq, sq, cq, buf, printed, rc, faulty>>

post_receive(s) ==
  /\ At(s, {"post_rr"})
  /\ rq' = [rq EXCEPT ![s] = @ + 1]
  /\ Advance(s)
  /\ UNCHANGED <<owned, conn, qp, sq, cq, buf, printed, rc, faulty>>

\* post_send; before the RDMA write, main fills the buffer.
post_send(s, opcode) ==
  /\ At(s, {opcode})
  /\ sq' = [sq EXCEPT ![s] = [opcode |-> opcode, done |-> FALSE]]
  /\ buf' = [buf EXCEPT ![s] = IF opcode = "RDMA_WRITE" THEN "WRITE" ELSE @]
  /\ Advance(s)
  /\ UNCHANGED <<owned, conn, qp, rq, cq, printed, rc, faulty>>

\* poll_completion takes a completion ...
poll_completion(s) ==
  /\ At(s, {"poll"}) /\ cq[s] # <<>>
  /\ cq' = [cq EXCEPT ![s] = Tail(@)]
  /\ IF Head(cq[s]) = "success" THEN Advance(s) ELSE LeaveMain(s)
  /\ UNCHANGED <<owned, conn, qp, rq, sq, buf, printed, rc, faulty>>

\* MUTANT: the loop has no time limit.
poll_completion_timeout_Never(s) == FALSE /\ UNCHANGED vars

\* ... or MAX_POLL_CQ_TIMEOUT passes without one, or polling fails.
poll_completion_timeout(s) ==
  /\ At(s, {"poll"}) /\ cq[s] = <<>>
  /\ faulty' = TRUE
  /\ LeaveMain(s)
  /\ UNCHANGED <<owned, conn, nic, buf, printed, rc>>

\* main prints the buffer; or the server sets it up for the RDMA read; or
\* everything went well.
main_print(s) ==
  /\ At(s, {"print"})
  /\ printed' = [printed EXCEPT ![s] = Append(@, buf[s])]
  /\ Advance(s)
  /\ UNCHANGED <<owned, conn, nic, buf, rc, faulty>>

main_set(s) ==
  /\ At(s, {"set_R"})
  /\ buf' = [buf EXCEPT ![s] = "READ"]
  /\ Advance(s)
  /\ UNCHANGED <<owned, conn, nic, printed, rc, faulty>>

main_success(s) ==
  /\ At(s, {"success"})
  /\ rc' = [rc EXCEPT ![s] = 0]
  /\ LeaveMain(s)
  /\ UNCHANGED <<owned, conn, nic, buf, printed, faulty>>

------------------------------------------------------------------------------
(* The device (outside the repository). *)

Ready(s) == qp[s] \in {"RTR", "RTS"}
Pending(s) == sq[s] # NULL /\ ~sq[s].done
NeedsReceive(s) == sq[s].opcode = "SEND"
Registered(s) == "mr" \in res[s] /\ "mr" \in res[Peer(s)]

\* A completion is lost when its queue is gone.
Completed(s, status) ==
  cq' = [cq EXCEPT ![s] = IF "cq" \in res[s] THEN Append(@, status) ELSE @]

\* A work request is carried out in the memory of the responder.
DeviceExecute(s) ==
  LET p == Peer(s)
  IN  /\ Pending(s) /\ Ready(p) /\ Registered(s)
      /\ NeedsReceive(s) => rq[p] > 0
      /\ sq' = [sq EXCEPT ![s].done = TRUE]
      /\ buf' = IF sq[s].opcode = "RDMA_READ" THEN [buf EXCEPT ![s] = buf[p]]
                                             ELSE [buf EXCEPT ![p] = buf[s]]
      /\ IF NeedsReceive(s)
         THEN /\ rq' = [rq EXCEPT ![p] = @ - 1]
              /\ Completed(p, "success")
         ELSE UNCHANGED <<rq, cq>>
      /\ UNCHANGED <<pc, owned, conn, qp, printed, rc, faulty>>

\* The acknowledgement completes it at the requester.
DeviceComplete(s) ==
  /\ sq[s] # NULL /\ sq[s].done
  /\ sq' = [sq EXCEPT ![s] = NULL]
  /\ Completed(s, "success")
  /\ UNCHANGED <<pc, owned, conn, qp, rq, buf, printed, rc, faulty>>

\* The responder does not answer, a buffer is not registered, or there is no
\* receive request for a SEND.
DeviceError(s) ==
  /\ Pending(s)
  /\ ~Ready(Peer(s)) \/ ~Registered(s) \/ (NeedsReceive(s) /\ rq[Peer(s)] = 0)
  /\ sq' = [sq EXCEPT ![s] = NULL]
  /\ Completed(s, "error")
  /\ UNCHANGED <<pc, owned, conn, qp, rq, buf, printed, rc, faulty>>

------------------------------------------------------------------------------
Program(s) ==
  \/ s = "server" /\ (sock_listen \/ sock_accept)
  \/ s = "client" /\ (sock_connect \/ sock_refused)
  \/ \E r \in Range(Create) : resources_create(s, r)
  \/ query_gid(s)
  \/ resources_create_exit(s, TRUE)
  \/ resources_create_returns(s)
  \/ resources_destroy(s, TRUE)
  \/ main_exit(s)
  \/ sock_sync_write(s)
  \/ sock_sync_read(s)
  \/ sock_sync_fails(s)
  \/ modify_qp(s, "init", "INIT")
  \/ modify_qp(s, "rtr", "RTR")
  \/ modify_qp(s, "rts", "RTS")
  \/ post_receive(s)
  \/ \E opcode \in {"SEND", "RDMA_READ", "RDMA_WRITE"} : post_send(s, opcode)
  \/ poll_completion(s)
  \/ poll_completion_timeout(s)
  \/ main_print(s)
  \/ main_set(s)
  \/ main_success(s)

Device(s) == DeviceExecute(s) \/ DeviceComplete(s) \/ DeviceError(s)

Next ==
  \E s \in Side :
    \/ Program(s)
    \/ sock_connect_fails(s)
    \/ create_fails(s)
    \/ call_fails(s)
    \/ resources_create_exit(s, FALSE)
    \/ resources_destroy(s, FALSE)
    \/ Device(s)

\* The two programs are scheduled, and the devices work.  Nothing forces a
\* call to fail.
Spec == Init /\ [][Next]_vars /\ \A s \in Side : WF_vars(Program(s)) /\ WF_vars(Device(s))

------------------------------------------------------------------------------
(* Properties. *)

Contents == {NULL, "zero", "SEND", "READ", "WRITE"}

\* Types; and the limits given when the resources are made: one completion
\* (cq_size) and one work request of each kind (max_send_wr, max_recv_wr).
TypeOK ==
  /\ \A s \in Side :
       /\ pc[s] \in 0..Exit(s) + 1
       /\ UNION {res[s], handle[s], tried[s], refused[s]} \subseteq Range(ReleaseOrder)
       /\ Range(tcp[s]) \subseteq Sends
       /\ qp[s] \in {NULL, "RESET", "INIT", "RTR", "RTS"}
       /\ rq[s] \in 0..1
       /\ sq[s] # NULL => sq[s].opcode \in {"SEND", "RDMA_READ", "RDMA_WRITE"}
       /\ Range(cq[s]) \subseteq {"success", "error"}
       /\ buf[s] \in Contents
       /\ Range(printed[s]) \subseteq Contents
       /\ rc[s] \in {0, 1}
  /\ {listening, faulty, closed["client"], closed["server"]} \subseteq BOOLEAN

\* The queues are long enough.  The completion queue, made with one entry,
\* never gets a second completion, however late one arrives (resources_create:
\* "each side will send only one WR, so Completion Queue with 1 entry is
\* enough"); work requests stay within their limits; a SEND that reaches the
\* client's queue pair finds the receive request posted (post_send: "there is
\* a Receive Request in the responder side, so we won't get any into RNR
\* flow"), whether or not the sync of connect_qp, whose failure is not
\* reported, succeeded.
QueuesSuffice ==
  /\ TypeOK
  /\ \A s \in Side : Len(cq[s]) <= 1
  /\ \A s \in Side : (Pending(s) /\ NeedsReceive(s) /\ Ready(Peer(s))) => rq[Peer(s)] = 1

\* What is printed is what the other side meant to be there: the client
\* prints the message and then the buffer set up for it to read, the server
\* what the client wrote.  The syncs of main order the accesses of two hosts
\* to the same memory.  One thing may spoil it: the other side gave up and
\* neither its queue pair nor the registration of its buffer could be
\* released, so that a request still under way is served from freed memory.
PrintedRight ==
  \A s \in Side :
    \/ IsPrefix(printed[s], IF s = "client" THEN <<"SEND", "READ">> ELSE <<"WRITE">>)
    \/ {"qp", "mr"} \subseteq refused[Peer(s)]

Needs(r) ==
  CASE r \in {"pd", "cq"} -> {"ctx"}
    [] r = "mr" -> {"pd", "buf"}
    [] r = "qp" -> {"pd", "cq"}
    [] OTHER -> {}

\* However far resources_create came, and whichever of the releases fail:
\* what the clean-ups have still to release exists, so nothing is released
\* twice, neither within one of them nor by resources_destroy after the
\* clean-up of resources_create; nothing is released while something made
\* from it is there, unless the release of that has failed; and at the end
\* only that is left whose release has failed, nothing at all when the
\* program reports success.
ReleasedInOrder ==
  \A s \in Side :
    /\ Range(Untried(s)) \subseteq res[s]
    /\ \A r \in res[s] : Needs(r) \subseteq res[s] \/ r \in refused[s]
    /\ Ended(s) => res[s] \subseteq refused[s]
    /\ Ended(s) /\ rc[s] = 0 => res[s] = {}

\* If one side ends with success, the other ends too, and with success unless
\* the release of one of its own resources fails: that is the only thing that
\* can fail after the last sync.
SuccessAgreed ==
  \A s \in Side :
    (Ended(s) /\ rc[s] = 0) ~>
      (Ended(Peer(s)) /\ (rc[Peer(s)] = 0 \/ refused[Peer(s)] # {}))

\* Without a failure both programs come to their end and report success: no
\* order of the steps of the two programs and their devices leaves a side
\* waiting in a sync, or a completion queue empty.
FaultFreeCompletes == <>(faulty \/ \A s \in Side : Ended(s) /\ rc[s] = 0)

\* A side waits for ever in two places only: the server for a client that
\* never comes, and the loop of sock_sync_data at the end of the stream.
Stuck(s) ==
  \/ s = "server" /\ pc[s] = 0
  \/ At(s, Recvs) /\ tcp[s] = <<>> /\ closed[Peer(s)]
EndsOrReadsForever == <>[](\A s \in Side : Ended(s) \/ Stuck(s))
==============================================================================
