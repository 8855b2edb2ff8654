---------------------------- MODULE SyncChannel ----------------------------
(***************************************************************************)
(* The synchronous spill channel of the browser host                       *)
(* (web/tvm-web/src/sync-channel.ts): a client in the guest's worker and a *)
(* server in the OPFS worker share one header and one payload, and hand    *)
(* the turn over with Atomics.wait and Atomics.notify.  Every access to    *)
(* the shared buffer is a step of its own; wait blocks only while SIGNAL   *)
(* has the value given, and returns when notified, whatever SIGNAL holds   *)
(* by then.  The generation of a region never changes here.                *)
(***************************************************************************)
EXTENDS Naturals

CONSTANTS
  Ids,      \* regions
  Contents, \* what a region's bytes may be, none of them empty
  Empty,    \* an array of no bytes
  NoFile    \* the server has no file of the region

VARIABLES
  h,         \* the header: SIGNAL, OP, ID, LEN, STATUS
  payload,   \* the bytes that follow
  store,     \* the server's files
  client,    \* [at, op, id, bytes]: where the client is, and in which call
  server,    \* [at, op, id, len, bytes]: where the server is, and what it has read
  asleep,    \* the threads blocked in Atomics.wait
  kept       \* history: what the store holds if each call has its effect once

vars == <<h, payload, store, client, server, asleep, kept>>

Ops == {"load", "spill", "delete"}

Init ==
  /\ h = [SIGNAL |-> "idle", OP |-> "load", ID |-> CHOOSE i \in Ids : TRUE,
          LEN |-> 0, STATUS |-> "ok"]
  /\ payload = Empty
  /\ store = [i \in Ids |-> NoFile]
  /\ client = [at |-> "ready", op |-> h.OP, id |-> h.ID, bytes |-> Empty]
  /\ server = [at |-> "wait_idle", op |-> h.OP, id |-> h.ID, len |-> 0, bytes |-> Empty]
  /\ asleep = {}
  /\ kept = store

(* Regions are of one size: a length is that or 0.                          *)
Length(bytes) == IF bytes = Empty THEN 0 ELSE 1
Slice(bytes, len) == IF len = 0 THEN Empty ELSE bytes         \* slice(0, len)
Set(bytes) == payload' = IF bytes = Empty THEN payload ELSE bytes

Step(thread) == thread \notin asleep

(* Atomics.wait: go on at once if SIGNAL differs, else sleep until notified. *)
Wait(thread, value) ==
  asleep' = IF h.SIGNAL = value THEN asleep \cup {thread} ELSE asleep

-----------------------------------------------------------------------------
(* The client *)

Client(from, to) == /\ Step("client") /\ client.at = from
                    /\ client' = [client EXCEPT !.at = to]

(* load, spill and delete: a spill puts its bytes in the payload first.     *)
call(op, id, bytes) ==
  /\ client.at = "ready"
  /\ bytes # Empty <=> op = "spill"
  /\ client' = [at |-> "store_op", op |-> op, id |-> id, bytes |-> bytes]
  /\ Set(bytes)
  /\ UNCHANGED <<h, store, server, asleep, kept>>

(* A load and a delete post a length of 0.                                  *)
request ==
  /\ \/ Client("store_op", "store_id") /\ h' = [h EXCEPT !.OP = client.op]
     \/ Client("store_id", "store_len") /\ h' = [h EXCEPT !.ID = client.id]
     \/ Client("store_len", "store_req") /\ h' = [h EXCEPT !.LEN = Length(client.bytes)]
     \/ Client("store_req", "notify_req") /\ h' = [h EXCEPT !.SIGNAL = "req"]
  /\ UNCHANGED <<payload, store, server, asleep, kept>>

request_notify ==
  /\ Client("notify_req", "wait_req")
  /\ asleep' = {}
  /\ UNCHANGED <<h, payload, store, server, kept>>

request_wait ==
  /\ Client("wait_req", "status")
  /\ Wait("client", "req")
  /\ UNCHANGED <<h, payload, store, server, kept>>

(* The caller takes what a spill or delete was for as done once it returns. *)
Done == CASE client.op = "load" -> kept
          [] client.op = "spill" -> [kept EXCEPT ![client.id] = client.bytes]
          [] client.op = "delete" -> [kept EXCEPT ![client.id] = NoFile]
request_status ==
  /\ \/ /\ h.STATUS = "error"
        /\ Client("status", "finish")
        /\ UNCHANGED kept
     \/ /\ h.STATUS = "ok"
        /\ Client("status", IF client.op = "load" THEN "len" ELSE "finish")
        /\ kept' = Done
  /\ UNCHANGED <<h, payload, store, server, asleep>>

(* load reads LEN, then takes that much of the payload.                     *)
load_len ==
  /\ Client("len", IF h.LEN = 0 THEN "slice_none" ELSE "slice")
  /\ UNCHANGED <<h, payload, store, server, asleep, kept>>

load_slice ==
  /\ client.at \in {"slice", "slice_none"}
  /\ client' = [client EXCEPT !.at = "returns",
                   !.bytes = Slice(payload, IF client.at = "slice" THEN 1 ELSE 0)]
  /\ UNCHANGED <<h, payload, store, server, asleep, kept>>

finish ==
  /\ \/ /\ Client("finish", "finish_notify") \/ Client("returns", "finish_notify")
        /\ h' = [h EXCEPT !.SIGNAL = "idle"]
        /\ UNCHANGED asleep
     \/ /\ Client("finish_notify", "ready")
        /\ asleep' = {}
        /\ UNCHANGED h
  /\ UNCHANGED <<payload, store, server, kept>>

-----------------------------------------------------------------------------
(* The server *)

Server(from, to) == /\ Step("server") /\ server.at = from
                    /\ server' = [server EXCEPT !.at = to]

serveSyncChannel ==
  /\ \/ Server("wait_idle", "read_op") /\ Wait("server", "idle")
     \/ Server("wait_res", "wait_idle") /\ Wait("server", "res")
  /\ UNCHANGED <<h, payload, store, client, kept>>

serveOnce_reads ==
  /\ Step("server")
  /\ \/ server.at = "read_op" /\ server' = [server EXCEPT !.at = "read_id", !.op = h.OP]
     \/ server.at = "read_id" /\ server' = [server EXCEPT !.at = "read_len", !.id = h.ID]
     \/ server.at = "read_len" /\ server' = [server EXCEPT !.at = "handle", !.len = h.LEN]
  /\ UNCHANGED <<h, payload, store, client, asleep, kept>>

(* The handlers: loading what is not stored throws.                         *)
serveOnce_handles ==
  /\ \/ /\ server.op = "load" /\ store[server.id] = NoFile
        /\ Server("handle", "status_err")
        /\ UNCHANGED <<payload, store>>
     \/ /\ server.op = "load" /\ store[server.id] # NoFile
        /\ Step("server") /\ server.at = "handle"
        /\ server' = [server EXCEPT !.at = "answer_len", !.bytes = store[server.id]]
        /\ Set(store[server.id])
        /\ UNCHANGED store
     \/ /\ server.op # "load"
        /\ Server("handle", "status_ok")
        /\ store' = [store EXCEPT ![server.id] =
                       IF server.op = "spill" THEN Slice(payload, server.len) ELSE NoFile]
        /\ UNCHANGED payload
  /\ UNCHANGED <<h, client, asleep, kept>>

(* A load that found its file answers with its length, one that threw with 0.*)
serveOnce_answers ==
  /\ \/ Server("answer_len", "status_ok") /\ h' = [h EXCEPT !.LEN = Length(server.bytes)]
     \/ Server("status_ok", "post") /\ h' = [h EXCEPT !.STATUS = "ok"]
     \/ Server("status_err", "no_len") /\ h' = [h EXCEPT !.STATUS = "error"]
     \/ Server("no_len", "post") /\ h' = [h EXCEPT !.LEN = 0]
  /\ UNCHANGED <<payload, store, client, asleep, kept>>

serveOnce_posts ==
  /\ \/ /\ Server("post", "notify_res")
        /\ h' = [h EXCEPT !.SIGNAL = "res"]
        /\ UNCHANGED asleep
     \/ /\ Server("notify_res", "wait_res")
        /\ asleep' = {}
        /\ UNCHANGED h
  /\ UNCHANGED <<payload, store, client, kept>>

Next ==
  \/ \E op \in Ops, id \in Ids, bytes \in Contents \cup {Empty} : call(op, id, bytes)
  \/ request \/ request_notify \/ request_wait \/ request_status
  \/ load_len \/ load_slice \/ finish
  \/ serveSyncChannel \/ serveOnce_reads \/ serveOnce_handles \/ serveOnce_answers
  \/ serveOnce_posts

Spec == Init /\ [][Next]_vars

-----------------------------------------------------------------------------
(* What the comments say and the code does not keep *)

(* The client "block[s] until SIG_RES", the server "until a request         *)
(* arrives", and serveOnce serves "exactly one already-posted request": so  *)
(* a load that returns gives what the last spill of its region stored.  But *)
(* neither wait looks at SIGNAL again when it is notified.  The notify of   *)
(* an answer, late, ends the client's next wait at once: the load takes the *)
(* status of the call before and the length 0 it posted itself, and returns *)
(* an empty array.                                                          *)
LoadsReadBack ==
  client.at = "returns" /\ kept[client.id] # NoFile => client.bytes = kept[client.id]

=============================================================================
