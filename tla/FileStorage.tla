----------------------------- MODULE FileStorage -----------------------------
(***************************************************************************)
(* drivers/usb/gadget/file_storage.c, the mass storage gadget (Bulk-only   *)
(* transport): its main thread, the exceptions that ep0 requests, the user *)
(* mode driver of msclib.c, disconnects and signals raise for it, its two  *)
(* buffers, and its end.                                                   *)
(*                                                                         *)
(* What runs under fsg->lock is one step, and so is what the thread does   *)
(* between two places where somebody else can see or change what it uses.  *)
(* The USB controller (arcotg_udc.c) owns the requests it has accepted; it *)
(* completes one when the host cooperates, and in any case once it was     *)
(* dequeued or its queue was reset; it may refuse any request.             *)
(* SCSI commands are kept to their transfers: none, or MaxBlocks buffers   *)
(* in or out, of which the host may expect one more than the command has,  *)
(* with the errors that end them early.                                    *)
(*                                                                         *)
(* The operators named Faulty... are deliberately wrong variants of the    *)
(* definition that follows them; no specification uses them.               *)
(***************************************************************************)
EXTENDS Integers, FiniteSets

CONSTANTS
  Builds,    \* subset of BOOLEAN: TRUE is the build with CONFIG_USB_USR_MSC,
             \* where msclib.c raises the exceptions, FALSE the one without
  MaxBlocks, \* bound: buffers of data in one command
  MaxTag     \* bound: ep0 requests

ASSUME FileStorageAssumption ==
  /\ Builds \subseteq BOOLEAN
  /\ MaxBlocks \in Nat \ {0}
  /\ MaxTag \in Nat

(* enum fsg_state                                                          *)
DATA_PHASE == -9
STATUS_PHASE == -8
IDLE == 0
ABORT_BULK_OUT == 1
RESET == 2
INTERFACE_CHANGE == 3
CONFIG_CHANGE == 4
DISCONNECT == 5
EXIT == 6
TERMINATED == 7

Buffers == {0, 1}    \* NUM_BUFFERS
NextBuf(i) == 1 - i

VARIABLES
  usr,       \* the build
  state,     \* fsg->state
  ep0Tag, excTag,       \* ep0_req_tag, exception_req_tag
  config, newConfig, running,
  buf,       \* state of each buffer
  busy,      \* inreq_busy and outreq_busy
  fill, drain,          \* next_buffhd_to_fill and _to_drain
  udc, dequeued,        \* the controller: the bulk requests it owns; the
                        \* ones among them that it is giving back
  refused,   \* history: it refused a request since the buffers were reset
  wakeup,    \* thread_wakeup_needed
  sigs, tstate,         \* pending signals and task->state of the thread
  tpc, cont, intr,      \* the thread: where it is; where it is after
                        \* sleep_thread, and whether that returned -EINTR
  dir, toReq, residue,  \* its command: direction, buffers still to be asked
  surplus, more, short, \* for (or read), residue, data_size less the
                        \* command's own, get_some_more and
                        \* short_packet_received
  old, tag, cfg,        \* locals of handle_exception
  registered, notifier, \* REGISTERED, thread_notifier.done
  xpc, freed            \* the cleanup routine; how often unbind freed

threadVars == <<tpc, cont, intr, tstate>>
cmdVars    == <<dir, toReq, residue, surplus, more, short>>
excVars    == <<old, tag, cfg>>
xferVars   == <<buf, busy, udc, refused>>
bufVars    == <<xferVars, fill, drain, dequeued>>
confVars   == <<config, running>>
endVars    == <<registered, notifier, xpc, freed>>
reqVars    == <<ep0Tag, newConfig>>
vars == <<usr, state, excTag, wakeup, sigs, reqVars, confVars, bufVars, threadVars, cmdVars, excVars, endVars>>

Init ==
  /\ usr \in Builds
  /\ state = IDLE
  /\ ep0Tag = 0 /\ excTag = 0
  /\ config = 0 /\ newConfig = 0 /\ running = FALSE
  /\ buf = [i \in Buffers |-> "EMPTY"]
  /\ busy = {} /\ udc = {} /\ dequeued = {} /\ refused = FALSE
  /\ fill = 0 /\ drain = 0
  /\ wakeup = FALSE
  /\ sigs = {} /\ tstate = "RUNNING"
  /\ tpc = "loop" /\ cont = "loop" /\ intr = FALSE
  /\ dir = "none" /\ toReq = 0 /\ residue = 0 /\ surplus = 0 /\ more = FALSE /\ short = FALSE
  /\ old = IDLE /\ tag = 0 /\ cfg = 0
  /\ registered = TRUE /\ notifier = 0
  /\ xpc = "bound" /\ freed = 0

ThreadTask == tpc \notin {"unregister", "notify", "dead"}   \* fsg->thread_task
ExceptionInProgress == state > IDLE

(* wake_up_process                                                         *)
WakeThread == tstate' = IF ThreadTask THEN "RUNNING" ELSE tstate

-----------------------------------------------------------------------------
(* bulk_in_complete and bulk_out_complete of the requests in R, which the  *)
(* controller gives back; each wakes the thread.                           *)
GiveBack(R) ==
  /\ udc' = udc \ R /\ dequeued' = dequeued \ R /\ busy' = busy \ R
  /\ buf' = [i \in Buffers |-> IF <<"in", i>> \in R THEN "EMPTY"
                             ELSE IF <<"out", i>> \in R THEN "FULL" ELSE buf[i]]
  /\ wakeup' = (wakeup \/ R # {})
  /\ UNCHANGED <<refused, fill, drain>>

(* raise_exception, with the ep0 tag t                                     *)

(* Fault: the pending exception is not compared with the new one.          *)
FaultyRaiseException(s, t) ==
  /\ state' = s /\ excTag' = t
  /\ sigs' = IF ThreadTask THEN sigs \cup {"USR1"} ELSE sigs
  /\ WakeThread

RaiseException(s, t) ==
  IF state <= s
  THEN /\ state' = s
       /\ excTag' = t
       /\ sigs' = IF ThreadTask THEN sigs \cup {"USR1"} ELSE sigs
       /\ WakeThread
  ELSE UNCHANGED <<state, excTag, sigs, tstate>>

(* The gadget can get requests until it is unregistered, or the user mode  *)
(* driver (one thread) unbinds it.                                         *)
Attached == xpc = "bound" /\ registered

(* A request that needs the thread: of the host on ep0, with a new tag, or *)
(* of msc_ioctl.                                                           *)
Request(s) ==
  /\ Attached
  /\ IF usr THEN UNCHANGED ep0Tag ELSE ep0Tag < MaxTag /\ ep0Tag' = ep0Tag + 1
  /\ RaiseException(s, ep0Tag')
  /\ UNCHANGED <<usr, wakeup, confVars, bufVars, tpc, cont, intr, cmdVars, excVars, endVars>>

SetConfiguration(v) == newConfig' = v /\ Request(CONFIG_CHANGE)
SetInterface ==
  /\ usr \/ config # 0
  /\ Request(INTERFACE_CHANGE)
  /\ UNCHANGED newConfig
BulkReset == ~usr /\ config # 0 /\ Request(RESET) /\ UNCHANGED newConfig

(* An ep0 request that is answered at once.                                *)
OtherSetup ==
  /\ ~usr /\ Attached /\ ep0Tag < MaxTag
  /\ ep0Tag' = ep0Tag + 1
  /\ UNCHANGED <<usr, state, excTag, wakeup, sigs, newConfig, confVars, bufVars, threadVars, cmdVars,
                 excVars, endVars>>

(* reset_queues, after a reset of the bus or the controller: nuke gives    *)
(* every request back, and fsg_disconnect is called, ...                   *)
Disconnected ==
  /\ Attached /\ ~usr
  /\ GiveBack(udc)
  /\ IF state <= DISCONNECT \/ udc = {}
     THEN RaiseException(DISCONNECT, ep0Tag)
     ELSE WakeThread /\ UNCHANGED <<state, excTag, sigs>>
  /\ UNCHANGED <<usr, reqVars, confVars, tpc, cont, intr, cmdVars, excVars, endVars>>

(* ... or, with user mode storage, another driver's disconnect, whose user *)
(* then calls the ioctl USR_MSC_DISCONNECT.  Requests that come after the  *)
(* reset are accepted or refused as before.                                *)
UsrBusReset ==
  /\ usr /\ udc # {}
  /\ GiveBack(udc) /\ WakeThread
  /\ UNCHANGED <<usr, state, excTag, sigs, reqVars, confVars, tpc, cont, intr, cmdVars, excVars, endVars>>

UsrDisconnected ==
  /\ Attached /\ usr
  /\ RaiseException(DISCONNECT, ep0Tag)
  /\ UNCHANGED <<usr, wakeup, reqVars, confVars, bufVars, tpc, cont, intr, cmdVars, excVars, endVars>>

(* INT, TERM or KILL for the thread.                                       *)
KillSignal ==
  /\ ThreadTask
  /\ sigs' = sigs \cup {"KILL"}
  /\ WakeThread
  /\ UNCHANGED <<usr, state, excTag, wakeup, reqVars, confVars, bufVars, tpc, cont, intr, cmdVars, excVars,
                 endVars>>

-----------------------------------------------------------------------------
(* Transfers                                                               *)

(* done: the host took or sent the data, or the request was dequeued.      *)
Complete(d, i) ==
  /\ <<d, i>> \in udc
  /\ GiveBack({<<d, i>>}) /\ WakeThread
  /\ UNCHANGED <<usr, state, excTag, sigs, reqVars, confVars, tpc, cont, intr, cmdVars, excVars, endVars>>

(* start_transfer of the next buffer to fill.  usb_ep_queue takes the      *)
(* request, or fails, whatever it did before: -ESHUTDOWN without a speed,  *)
(* -ENOMEM without a transfer descriptor.                                  *)
StartTransfer(d) ==
  \/ /\ busy' = busy \cup {<<d, fill>>}
     /\ udc' = udc \cup {<<d, fill>>}
     /\ buf' = [buf EXCEPT ![fill] = "BUSY"]
     /\ UNCHANGED refused
  \/ /\ buf' = [buf EXCEPT ![fill] = "EMPTY"]
     /\ refused' = TRUE
     /\ UNCHANGED <<busy, udc>>

-----------------------------------------------------------------------------
(* sleep_thread                                                            *)

(* The thread calls it, and goes on at l afterwards.                       *)
Sleep(l) == tpc' = "prepare" /\ cont' = l

SleepPrepare ==
  /\ tpc = "prepare"
  /\ tstate' = "INTERRUPTIBLE"
  /\ tpc' = "test"
  /\ UNCHANGED <<usr, state, excTag, wakeup, sigs, reqVars, confVars, bufVars, cont, intr, cmdVars, excVars, endVars>>

(* Fault: signal_pending is not tested.                                    *)
FaultySleepTest ==
  /\ tpc = "test"
  /\ IF wakeup
     THEN tpc' = "awake" /\ intr' = (sigs # {}) /\ tstate' = "RUNNING"
     ELSE tpc' = "sched" /\ UNCHANGED <<intr, tstate>>
  /\ UNCHANGED <<usr, state, excTag, wakeup, sigs, reqVars, confVars, bufVars, cont, cmdVars, excVars, endVars>>

SleepTest ==
  /\ tpc = "test"
  /\ IF sigs # {} \/ wakeup
     THEN tpc' = "awake" /\ intr' = (sigs # {}) /\ tstate' = "RUNNING"
     ELSE tpc' = "sched" /\ UNCHANGED <<intr, tstate>>
  /\ UNCHANGED <<usr, state, excTag, wakeup, sigs, reqVars, confVars, bufVars, cont, cmdVars, excVars, endVars>>

SleepSchedule ==
  /\ tpc = "sched" /\ tstate = "RUNNING"
  /\ tpc' = "prepare"
  /\ UNCHANGED <<usr, state, excTag, wakeup, sigs, reqVars, confVars, bufVars, cont, intr, tstate, cmdVars,
                 excVars, endVars>>

(* thread_wakeup_needed is cleared, and with it what came since the test.  *)
(* -EINTR sends every caller back to the main loop, except send_status     *)
(* inside handle_exception.                                                *)
SleepReturn ==
  /\ tpc = "awake"
  /\ wakeup' = FALSE
  /\ tpc' = IF ~intr THEN cont ELSE IF old = ABORT_BULK_OUT THEN "h_abort" ELSE "loop"
  /\ intr' = FALSE /\ cont' = "loop"
  /\ UNCHANGED <<usr, state, excTag, sigs, reqVars, confVars, bufVars, tstate, cmdVars, excVars, endVars>>

Asleep == tpc = "sched" /\ tstate = "INTERRUPTIBLE"

-----------------------------------------------------------------------------
(* fsg_main_thread                                                         *)

TGoto(l) == tpc' = l /\ UNCHANGED cont

(* A step of the thread that sees or changes only what these list leave.   *)
Elsewhere == UNCHANGED <<usr, wakeup, reqVars, intr, endVars>>

(* The thread moves fsg->state along, under the lock, at the end of each   *)
(* part of a command.                                                      *)
SetPhase(p) == state' = IF ExceptionInProgress THEN state ELSE p

(* A command is over: what is left of it is forgotten.                     *)
CommandOver ==
  dir' = "none" /\ toReq' = 0 /\ residue' = 0 /\ surplus' = 0 /\ more' = FALSE /\ short' = FALSE

(* What the end of finish_reply needs of the command: its direction and    *)
(* usb_amount_left.                                                        *)
Keep(left) ==
  toReq' = left /\ residue' = 0 /\ surplus' = 0 /\ more' = FALSE /\ short' = FALSE /\ UNCHANGED dir

(* finish_reply has returned 0.                                            *)
ReplyDone == tpc' = "status" /\ UNCHANGED cont /\ SetPhase(STATUS_PHASE) /\ CommandOver

MainLoop ==
  /\ tpc = "loop"
  /\ IF state = TERMINATED THEN TGoto("unlink")
     ELSE IF ExceptionInProgress \/ sigs # {} THEN TGoto("h_signals")
     ELSE IF ~running THEN Sleep("loop")
     ELSE TGoto("cmd")
  /\ CommandOver
  /\ Elsewhere
  /\ UNCHANGED <<state, excTag, sigs, tstate, confVars, bufVars, excVars>>

(* get_next_command: wait for the buffer, queue a request for a CBW, ...   *)
QueueCbw ==
  /\ tpc = "cmd"
  /\ IF buf[fill] # "EMPTY"
     THEN Sleep("cmd") /\ UNCHANGED xferVars
     ELSE StartTransfer("out") /\ TGoto("cbw")
  /\ Elsewhere
  /\ UNCHANGED <<state, excTag, sigs, tstate, confVars, fill, drain, dequeued, cmdVars, excVars>>

(* ... wait for it, and check it (received_cbw).  An error ends the        *)
(* command at once; a CBW that is not valid halts the endpoints first.     *)
(* The host may have data for the command and one buffer more.             *)
ReceivedCbw ==
  /\ tpc = "cbw"
  /\ IF buf[fill] # "FULL"
     THEN Sleep("cbw") /\ UNCHANGED <<buf, state, cmdVars>>
     ELSE /\ buf' = [buf EXCEPT ![fill] = "EMPTY"]
          /\ \/ (TGoto("loop") \/ TGoto("halt")) /\ UNCHANGED <<state, cmdVars>>
             \/ /\ TGoto("data")
                /\ SetPhase(DATA_PHASE)
                /\ dir' \in {"none", "in", "out"}
                /\ toReq' = IF dir' = "none" THEN 0 ELSE MaxBlocks
                /\ surplus' \in IF dir' = "none" THEN {0} ELSE {0, 1}
                /\ residue' = toReq' + surplus'
                /\ UNCHANGED <<more, short>>
  /\ Elsewhere
  /\ UNCHANGED <<excTag, sigs, tstate, confVars, fill, drain, busy, refused, udc, dequeued, excVars>>

(* do_scsi_command; a command with data may also be refused, and the reply *)
(* to the host that wants some is then an empty buffer.                    *)
ScsiCommand ==
  /\ tpc = "data"
  /\ drain' = fill
  /\ \/ buf[fill] # "EMPTY" /\ Sleep("data") /\ UNCHANGED <<buf, more>>
     \/ buf[fill] = "EMPTY" /\ dir = "in" /\ TGoto("read") /\ UNCHANGED <<buf, more>>
     \/ buf[fill] = "EMPTY" /\ dir = "out" /\ TGoto("write") /\ more' = TRUE /\ UNCHANGED buf
     \/ /\ buf[fill] = "EMPTY"
        /\ TGoto("reply")
        /\ buf' = [buf EXCEPT ![fill] = IF dir = "in" /\ sigs = {} THEN "FULL" ELSE @]
        /\ UNCHANGED more
  /\ Elsewhere
  /\ UNCHANGED <<state, excTag, sigs, tstate, confVars, busy, refused, fill, udc, dequeued, dir, toReq,
                 residue, surplus, short, excVars>>

(* do_read: fill a buffer and send it, except the last.                    *)
DoRead ==
  /\ tpc = "read"
  /\ \/ /\ buf[fill] # "EMPTY"
        /\ Sleep("read")
        /\ UNCHANGED <<xferVars, fill, toReq, residue>>
     \/ /\ buf[fill] = "EMPTY" /\ sigs # {}     \* signal_pending(current)
        /\ TGoto("loop")
        /\ UNCHANGED <<xferVars, fill, toReq, residue>>
     \/ /\ buf[fill] = "EMPTY" /\ sigs = {} /\ toReq > 1
        /\ StartTransfer("in")
        /\ fill' = NextBuf(fill)
        /\ toReq' = toReq - 1 /\ residue' = residue - 1
        /\ TGoto("read")
     \/ /\ buf[fill] = "EMPTY" /\ sigs = {}
        /\ buf' = [buf EXCEPT ![fill] = "FULL"]
        /\ \/ toReq = 1 /\ toReq' = 0 /\ residue' = residue - 1   \* the last one
           \/ UNCHANGED <<toReq, residue>>                         \* an error
        /\ TGoto("reply")
        /\ UNCHANGED <<busy, udc, refused, fill>>
  /\ Elsewhere
  /\ UNCHANGED <<state, excTag, sigs, tstate, confVars, drain, dequeued, dir, surplus, more, short,
                 excVars>>

(* The buffer to drain has data: it is emptied.                            *)
Drain ==
  /\ buf[drain] = "FULL"
  /\ buf' = [buf EXCEPT ![drain] = "EMPTY"]
  /\ drain' = NextBuf(drain)
  /\ UNCHANGED <<busy, udc, refused, fill, toReq>>

(* A buffer is requested from the host.                                    *)
FillMore ==
  /\ StartTransfer("out")
  /\ fill' = NextBuf(fill)
  /\ toReq' = toReq - 1
  /\ UNCHANGED drain

(* do_write: get_some_more ends with the data of the command, or with the  *)
(* backing file.  A short packet is written, but leaves some of its buffer *)
(* to be written.                                                          *)
DoWrite ==
  /\ tpc = "write"
  /\ LET toWrite == residue - surplus      \* amount_left_to_write
         fills == buf[fill] = "EMPTY" /\ more
     IN \/ /\ toWrite > 0 /\ fills
           /\ TGoto("write") /\ UNCHANGED <<residue, short>>
           /\ \/ FillMore /\ more' = (toReq > 1)
              \/ more' = FALSE /\ UNCHANGED <<xferVars, fill, drain, toReq>>
        \/ /\ toWrite > 0 /\ ~fills /\ Drain
           /\ \/ TGoto("reply") /\ UNCHANGED <<residue, short>>        \* an error
              \/ sigs # {} /\ TGoto("loop") /\ UNCHANGED <<residue, short>>
              \/ sigs = {} /\ TGoto("write") /\ residue' = residue - 1 /\ UNCHANGED short
              \/ sigs = {} /\ TGoto("reply") /\ short' = TRUE /\ UNCHANGED residue
           /\ UNCHANGED more
        \/ /\ toWrite = 0 \/ (buf[drain] = "EMPTY" /\ ~fills /\ ~more)
           /\ TGoto("reply")
           /\ UNCHANGED <<xferVars, fill, drain, toReq, residue, more, short>>
        \/ /\ toWrite > 0 /\ ~fills
           /\ \/ buf[drain] = "BUSY"
              \/ buf[drain] = "EMPTY" /\ more
           /\ Sleep("write")
           /\ UNCHANGED <<xferVars, fill, drain, toReq, residue, more, short>>
  /\ Elsewhere
  /\ UNCHANGED <<state, excTag, sigs, tstate, confVars, dequeued, dir, surplus, excVars>>

(* The last test of do_scsi_command, and finish_reply.  A reply that is    *)
(* short of what the host wants is followed by a halt of bulk-in, or, if   *)
(* can_stall is off (a module parameter: the model allows both for each    *)
(* command), padded; what the host sends in excess is thrown away.         *)
FinishReply ==
  /\ tpc = "reply"
  /\ \/ /\ sigs # {}
        /\ TGoto("loop") /\ CommandOver
        /\ UNCHANGED <<xferVars, fill, state, excTag, sigs, tstate>>
     \/ /\ sigs = {} /\ dir = "none"
        /\ ReplyDone
        /\ UNCHANGED <<xferVars, fill, excTag, sigs, tstate>>
     \/ /\ sigs = {} /\ dir = "in"
        /\ StartTransfer("in")
        /\ fill' = NextBuf(fill)
        /\ IF residue = 0 THEN ReplyDone ELSE TGoto("halt") /\ Keep(0) /\ UNCHANGED state
        /\ UNCHANGED <<excTag, sigs, tstate>>
     \/ /\ sigs = {} /\ dir = "in" /\ residue > 0
        /\ buf' = [buf EXCEPT ![fill] = "EMPTY"]
        /\ Keep(residue + IF toReq = 0 THEN 1 ELSE 0)
        /\ TGoto("pad")
        /\ UNCHANGED <<busy, udc, refused, fill, state, excTag, sigs, tstate>>
     \/ /\ sigs = {} /\ dir = "out" /\ residue = 0
        /\ ReplyDone
        /\ UNCHANGED <<xferVars, fill, excTag, sigs, tstate>>
     \/ /\ sigs = {} /\ dir = "out" /\ residue > 0 /\ short
        /\ RaiseException(ABORT_BULK_OUT, ep0Tag)
        /\ TGoto("loop") /\ CommandOver
        /\ UNCHANGED <<xferVars, fill>>
     \/ /\ sigs = {} /\ dir = "out" /\ residue > 0 /\ ~short
        /\ Keep(toReq + surplus)
        /\ TGoto("throw")
        /\ UNCHANGED <<xferVars, fill, state, excTag, sigs, tstate>>
  /\ Elsewhere
  /\ UNCHANGED <<confVars, drain, dequeued, excVars>>

(* halt_bulk_in_endpoint polls until the controller has no bulk-in request *)
(* left (fsl_ep_set_halt answers -EAGAIN until then), or a signal comes.   *)
(* After a CBW that was not valid the main loop follows in both cases.     *)
HaltBulkIn ==
  /\ tpc = "halt"
  /\ \/ /\ \A i \in Buffers : <<"in", i>> \notin udc
        /\ IF dir = "in" THEN ReplyDone ELSE TGoto("loop") /\ CommandOver /\ UNCHANGED state
     \/ sigs # {} /\ TGoto("loop") /\ CommandOver /\ UNCHANGED state
  /\ Elsewhere
  /\ UNCHANGED <<excTag, sigs, tstate, confVars, bufVars, excVars>>

PadWithZeros ==
  /\ tpc = "pad"
  /\ \/ toReq = 0 /\ ReplyDone /\ UNCHANGED <<xferVars, fill>>
     \/ /\ toReq > 0 /\ buf[fill] # "EMPTY"
        /\ Sleep("pad")
        /\ UNCHANGED <<xferVars, fill, state, cmdVars>>
     \/ /\ toReq > 0 /\ buf[fill] = "EMPTY"
        /\ StartTransfer("in")
        /\ fill' = NextBuf(fill)
        /\ toReq' = toReq - 1
        /\ TGoto("pad")
        /\ UNCHANGED <<state, dir, residue, surplus, more, short>>
  /\ Elsewhere
  /\ UNCHANGED <<excTag, sigs, tstate, confVars, drain, dequeued, excVars>>

ThrowAwayData ==
  /\ tpc = "throw"
  /\ LET fills == buf[drain] # "FULL" /\ buf[fill] = "EMPTY" /\ toReq > 0
     IN \/ /\ Drain
           /\ \/ TGoto("throw") /\ UNCHANGED <<state, excTag, sigs, tstate>>
              \/ TGoto("loop") /\ RaiseException(ABORT_BULK_OUT, ep0Tag)
           /\ UNCHANGED <<dir, residue, surplus, more, short>>
        \/ /\ fills /\ FillMore
           /\ TGoto("throw") /\ UNCHANGED <<state, excTag, sigs, tstate, dir, residue, surplus, more, short>>
        \/ /\ buf[drain] # "FULL" /\ ~fills
           /\ IF buf[drain] = "EMPTY" /\ toReq = 0
              THEN ReplyDone
              ELSE Sleep("throw") /\ UNCHANGED <<state, cmdVars>>
           /\ UNCHANGED <<xferVars, fill, drain, excTag, sigs, tstate>>
  /\ Elsewhere
  /\ UNCHANGED <<confVars, dequeued, excVars>>

(* send_status; inside handle_exception AbortDone moves the state.         *)
SendStatus ==
  /\ tpc = "status"
  /\ IF buf[fill] # "EMPTY"
     THEN Sleep("status") /\ UNCHANGED <<xferVars, fill, state>>
     ELSE /\ StartTransfer("in")
          /\ fill' = NextBuf(fill)
          /\ IF old = ABORT_BULK_OUT
             THEN TGoto("h_abort") /\ UNCHANGED state
             ELSE TGoto("loop") /\ SetPhase(IDLE)
  /\ Elsewhere
  /\ UNCHANGED <<excTag, sigs, tstate, confVars, drain, dequeued, cmdVars, excVars>>

-----------------------------------------------------------------------------
(* handle_exception                                                        *)

(* Signals are dequeued; anything but USR1 becomes EXIT (and a USR1).      *)
DequeueSignals ==
  /\ tpc = "h_signals"
  /\ \/ /\ sigs = {} /\ TGoto("h_cancel")
        /\ UNCHANGED <<state, excTag, sigs, tstate>>
     \/ /\ "USR1" \in sigs
        /\ sigs' = sigs \ {"USR1"}
        /\ TGoto("h_signals") /\ UNCHANGED <<state, excTag, tstate>>
     \/ /\ "KILL" \in sigs
        /\ IF state <= EXIT
           THEN state' = EXIT /\ excTag' = ep0Tag /\ sigs' = {"USR1"}
           ELSE sigs' = sigs \ {"KILL"} /\ UNCHANGED <<state, excTag>>
        /\ TGoto("h_signals") /\ UNCHANGED tstate
  /\ Elsewhere
  /\ UNCHANGED <<confVars, bufVars, cmdVars, excVars>>

(* usb_ep_dequeue of whatever is busy; a request comes back then or later, *)
(* and the thread waits for it.                                            *)
CancelTransfers ==
  /\ tpc = "h_cancel"
  /\ dequeued' = dequeued \cup (busy \cap udc)
  /\ TGoto("h_idle")
  /\ Elsewhere
  /\ UNCHANGED <<state, excTag, sigs, tstate, confVars, xferVars, fill, drain, cmdVars, excVars>>

(* Fault: the cancelled requests are not waited for.                       *)
FaultyWaitIdle ==
  /\ tpc = "h_idle"
  /\ TGoto("h_reset")
  /\ Elsewhere
  /\ UNCHANGED <<state, excTag, sigs, tstate, confVars, bufVars, cmdVars, excVars>>

(* Wait until everything is idle.                                          *)
WaitIdle ==
  /\ tpc = "h_idle"
  /\ IF busy = {} THEN TGoto("h_reset") ELSE Sleep("h_idle")
  /\ Elsewhere
  /\ UNCHANGED <<state, excTag, sigs, tstate, confVars, bufVars, cmdVars, excVars>>

(* Reset the buffers and the exception.  exception_req_tag and new_config  *)
(* are of no more use, the next exception that reads them sets them.       *)
ResetState ==
  /\ tpc = "h_reset"
  /\ buf' = [i \in Buffers |-> "EMPTY"]
  /\ fill' = 0 /\ drain' = 0 /\ refused' = FALSE
  /\ old' = state /\ tag' = excTag
  /\ cfg' = IF state = CONFIG_CHANGE THEN newConfig ELSE 0
  /\ excTag' = 0 /\ newConfig' = 0
  /\ state' = IF state = ABORT_BULK_OUT THEN STATUS_PHASE ELSE IDLE
  /\ TGoto("h_act")
  /\ UNCHANGED <<usr, wakeup, ep0Tag, intr, endVars, sigs, tstate, confVars, busy, udc, dequeued, cmdVars>>

(* do_set_config and do_set_interface; enabling the endpoints may fail,    *)
(* which ep0 is told in place of the status.  An interface that is up      *)
(* without a configuration (msc_ioctl allows it) stays up.                 *)
DoSetConfig(v) ==
  \/ v = 0 /\ config' = 0 /\ running' = (running /\ config = 0)
  \/ v # 0 /\ config' = v /\ running' = TRUE
  \/ v # 0 /\ config' = 0 /\ running' = FALSE
DoSetInterface == UNCHANGED config /\ running' \in BOOLEAN

(* The extra actions of each exception.                                    *)
Act ==
  /\ tpc = "h_act"
  /\ \/ old <= IDLE /\ TGoto("loop") /\ UNCHANGED confVars
     \/ old = ABORT_BULK_OUT /\ TGoto("status") /\ UNCHANGED confVars
     \/ old = RESET /\ TGoto("h_tag") /\ UNCHANGED confVars
     \/ old = INTERFACE_CHANGE /\ TGoto("h_tag") /\ DoSetInterface
     \/ old = CONFIG_CHANGE /\ TGoto("h_tag") /\ DoSetConfig(cfg)
     \/ old = DISCONNECT /\ TGoto("loop") /\ DoSetConfig(0)
     \/ old >= EXIT /\ TGoto("h_terminate") /\ DoSetConfig(0)
  /\ IF tpc' = "loop" THEN old' = IDLE /\ tag' = 0 /\ cfg' = 0 ELSE UNCHANGED excVars
  /\ Elsewhere
  /\ UNCHANGED <<state, excTag, sigs, tstate, bufVars, cmdVars>>

(* handle_exception returns.                                               *)
Handled ==
  /\ tpc' = "loop" /\ UNCHANGED cont
  /\ old' = IDLE /\ tag' = 0 /\ cfg' = 0
  /\ Elsewhere
  /\ UNCHANGED <<excTag, sigs, tstate, confVars, bufVars, cmdVars>>

AbortDone ==
  /\ tpc = "h_abort"
  /\ state' = IF state = STATUS_PHASE THEN IDLE ELSE state
  /\ Handled

(* The status stage of the ep0 request is completed if no other request    *)
(* has come since: the test, ...                                           *)
TestTag ==
  /\ tpc = "h_tag"
  /\ IF ep0Tag = tag
     THEN /\ TGoto("h_ep0")
          /\ Elsewhere
          /\ UNCHANGED <<state, excTag, sigs, tstate, confVars, bufVars, cmdVars, excVars>>
     ELSE Handled /\ UNCHANGED state

(* ... and ep0_queue (or the halt of ep0).                                 *)
Ep0Queue == tpc = "h_ep0" /\ Handled /\ UNCHANGED state

Terminate ==
  /\ tpc = "h_terminate"
  /\ state' = TERMINATED
  /\ Handled

-----------------------------------------------------------------------------
(* The end of the thread, and fsg_cleanup (fsg_exit of msclib.c)           *)

(* fsg_unbind's kfree of the buffers and of ep0req.                        *)
FreeBuffers == freed' = freed + 1

(* fsg->thread_task = NULL                                                 *)
ThreadUnlink ==
  /\ tpc = "unlink"
  /\ tpc' = "unregister"
  /\ UNCHANGED <<usr, state, excTag, wakeup, sigs, reqVars, confVars, bufVars, cont, intr, tstate, cmdVars,
                 excVars, endVars>>

(* Unregister the driver iff the cleanup routine hasn't done so: unbind    *)
(* finds the thread TERMINATED and does not wait for it.  (With user mode  *)
(* storage another driver is registered, and the call fails.)              *)
ThreadUnregister ==
  /\ tpc = "unregister"
  /\ registered' = FALSE
  /\ IF registered /\ ~usr THEN FreeBuffers ELSE UNCHANGED freed
  /\ tpc' = "notify"
  /\ UNCHANGED <<usr, state, excTag, wakeup, sigs, reqVars, confVars, bufVars, cont, intr, tstate, cmdVars,
                 excVars, notifier, xpc>>

(* complete_and_exit(&fsg->thread_notifier, 0)                             *)
ThreadNotify ==
  /\ tpc = "notify"
  /\ notifier' = notifier + 1
  /\ tpc' = "dead"
  /\ UNCHANGED <<usr, state, excTag, wakeup, sigs, reqVars, confVars, bufVars, cont, intr, tstate, cmdVars,
                 excVars, registered, xpc, freed>>

XGoto(l) ==
  /\ xpc' = l
  /\ UNCHANGED <<usr, wakeup, reqVars, confVars, bufVars, tpc, cont, intr, cmdVars, excVars>>

(* test_and_clear_bit(REGISTERED); unless the thread has done so, the      *)
(* driver is unregistered, which stops the controller and calls unbind     *)
(* (msclib.c always unbinds, and leaves the controller alone).             *)
CleanupBegin ==
  /\ xpc = "bound"
  /\ registered' = FALSE
  /\ xpc' = IF registered \/ usr THEN "unbind" ELSE "wait"
  /\ IF registered /\ ~usr /\ udc # {}
     THEN GiveBack(udc) /\ WakeThread
     ELSE UNCHANGED <<bufVars, wakeup, tstate>>
  /\ UNCHANGED <<usr, state, excTag, sigs, reqVars, confVars, tpc, cont, intr, cmdVars, excVars, notifier,
                 freed>>

(* Fault: the thread is not stopped when an exception is in progress.      *)
FaultyUnbindTest ==
  /\ xpc = "unbind"
  /\ XGoto(IF ExceptionInProgress THEN "free" ELSE "raise")
  /\ UNCHANGED <<state, excTag, sigs, tstate, registered, notifier, freed>>

(* If the thread isn't already dead, ...                                   *)
UnbindTest ==
  /\ xpc = "unbind"
  /\ XGoto(IF state = TERMINATED THEN "free" ELSE "raise")
  /\ UNCHANGED <<state, excTag, sigs, tstate, registered, notifier, freed>>

(* ... tell it to exit now ...                                             *)
UnbindRaise ==
  /\ xpc = "raise"
  /\ RaiseException(EXIT, ep0Tag)
  /\ XGoto("stop")
  /\ UNCHANGED <<registered, notifier, freed>>

(* ... and wait; "the cleanup routine waits for this completion also".     *)
UnbindWait ==
  /\ xpc = "stop" /\ notifier > 0
  /\ XGoto("free")
  /\ UNCHANGED <<state, excTag, sigs, tstate, registered, notifier, freed>>

UnbindFree ==
  /\ xpc = "free"
  /\ FreeBuffers
  /\ XGoto("wait")
  /\ UNCHANGED <<state, excTag, sigs, tstate, registered, notifier>>

(* Wait for the thread, and kref_put, which frees fsg.                     *)
CleanupEnd ==
  /\ xpc = "wait" /\ notifier > 0
  /\ notifier' = notifier - 1
  /\ XGoto("gone")
  /\ UNCHANGED <<state, excTag, sigs, tstate, registered, freed>>

-----------------------------------------------------------------------------
Thread ==
  \/ SleepPrepare \/ SleepTest \/ SleepSchedule \/ SleepReturn
  \/ MainLoop \/ QueueCbw \/ ReceivedCbw \/ ScsiCommand \/ DoRead \/ DoWrite
  \/ FinishReply \/ HaltBulkIn \/ PadWithZeros \/ ThrowAwayData \/ SendStatus
  \/ DequeueSignals \/ CancelTransfers \/ WaitIdle \/ ResetState \/ Act \/ AbortDone
  \/ TestTag \/ Ep0Queue \/ Terminate
  \/ ThreadUnlink \/ ThreadUnregister \/ ThreadNotify

CleanupSteps == UnbindTest \/ UnbindRaise \/ UnbindWait \/ UnbindFree \/ CleanupEnd

DequeuedComplete == \E d \in {"in", "out"}, i \in Buffers : <<d, i>> \in dequeued /\ Complete(d, i)

Next ==
  \/ Thread
  \/ \E d \in {"in", "out"}, i \in Buffers : Complete(d, i)
  \/ (\E v \in {0, 1} : SetConfiguration(v)) \/ SetInterface \/ BulkReset \/ OtherSetup
  \/ Disconnected \/ UsrBusReset \/ UsrDisconnected \/ KillSignal
  \/ CleanupBegin \/ CleanupSteps

Spec == Init /\ [][Next]_vars

(* The thread and the cleanup run, the controller completes what was       *)
(* dequeued; the host owes nothing.                                        *)
Fairness ==
  /\ WF_vars(Thread)
  /\ WF_vars(CleanupSteps)
  /\ WF_vars(DequeuedComplete)

FairSpec == Spec /\ Fairness
-----------------------------------------------------------------------------
Pcs == {"loop", "prepare", "test", "sched", "awake", "cmd", "cbw", "data", "read", "write",
        "reply", "halt", "pad", "throw", "status", "h_signals", "h_cancel", "h_idle",
        "h_reset", "h_act", "h_abort", "h_tag", "h_ep0", "h_terminate", "unlink", "unregister", "notify",
        "dead"}

TypeOK ==
  /\ usr \in Builds
  /\ state \in {DATA_PHASE, STATUS_PHASE} \cup IDLE..TERMINATED
  /\ old \in {DATA_PHASE, STATUS_PHASE} \cup IDLE..TERMINATED
  /\ {ep0Tag, excTag, tag} \subseteq 0..MaxTag
  /\ {config, newConfig, cfg} \subseteq {0, 1}
  /\ {refused, running, wakeup, intr, more, short, registered} \subseteq BOOLEAN
  /\ buf \in [Buffers -> {"EMPTY", "FULL", "BUSY"}]
  /\ busy \subseteq {"in", "out"} \X Buffers
  /\ udc \subseteq {"in", "out"} \X Buffers
  /\ dequeued \subseteq udc
  /\ {fill, drain} \subseteq Buffers
  /\ sigs \subseteq {"USR1", "KILL"}
  /\ tstate \in {"RUNNING", "INTERRUPTIBLE"}
  /\ tpc \in Pcs /\ cont \in Pcs
  /\ dir \in {"none", "in", "out"}
  /\ {toReq, residue} \subseteq 0..MaxBlocks + 1
  /\ surplus \in {0, 1}
  /\ notifier \in Nat /\ freed \in Nat
  /\ xpc \in {"bound", "unbind", "raise", "stop", "free", "wait", "gone"}

(* A buffer is BUSY exactly while the controller owns one of its requests  *)
(* (so that neither the thread nor a reset reuses it under a transfer),    *)
(* and only the interface that is up has requests with the controller:     *)
(* do_set_interface frees them, whatever exceptions came in whatever       *)
(* order, when the last has been given back.                               *)
TransfersOwned ==
  /\ \A i \in Buffers : buf[i] = "BUSY" <=> \E d \in {"in", "out"} : <<d, i>> \in udc
  /\ udc # {} => running

(* When fsg_unbind frees the buffers, the thread has left its main loop    *)
(* and no transfer is left; they are freed once, although the driver can   *)
(* be unregistered from two places; and fsg itself is freed after the      *)
(* thread's last access.                                                   *)
UnbindSafe ==
  /\ freed > 0 => tpc \in {"loop", "unlink", "unregister", "notify", "dead"} /\ state = TERMINATED /\ udc = {}
  /\ freed <= 1
  /\ xpc = "gone" => tpc = "dead" /\ freed = 1

(* The thread does not sleep on something that has happened: asleep, it    *)
(* has no signal, so no exception is in progress, and what it waits for    *)
(* (a buffer, the end of all transfers, the interface) is still to come.   *)
(* sleep_thread clears thread_wakeup_needed without the lock, so a wake-up *)
(* can vanish; what it was for has been done by then.  Only a request that *)
(* the controller refused upsets this: "We can't do much more than wait    *)
(* for a reset" (start_transfer), and until the buffers are reset the      *)
(* thread can be asleep on a buffer that nobody drains.                    *)
SleepsSoundly ==
  Asleep =>
    /\ sigs = {}
    /\ state <= IDLE \/ cont = "h_idle"
    /\ CASE cont = "loop" -> ~running
         [] cont = "h_idle" -> busy # {}
         [] cont = "cbw" -> buf[fill] # "FULL"
         [] cont \in {"write", "throw"} -> buf[drain] # "FULL"
         [] OTHER -> buf[fill] = "BUSY" \/ refused

(* Nobody asks the thread for anything new any more: from some time on it  *)
(* gets signals only from itself and from unbind.                          *)
Quiet == <>[][sigs' \subseteq sigs \/ tpc' # tpc \/ xpc' # xpc]_vars

(* Exceptions are handled, however many come and whatever the thread is    *)
(* waiting for, once they stop coming; and the cleanup routine ends, for   *)
(* the thread is told to exit and terminates.                              *)
ExceptionsHandled ==
  Quiet => []<>(state \notin ABORT_BULK_OUT..EXIT /\ xpc \in {"bound", "gone"})
=============================================================================
