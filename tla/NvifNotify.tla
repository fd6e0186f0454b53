----------------------------- MODULE NvifNotify -----------------------------
(***************************************************************************)
(* The notifies of the NVIF client library, nvif/notify.c, over those of   *)
(* NVKM: nvif_notify_get and nvif_notify_put reach nvkm_notify_get and     *)
(* nvkm_notify_put by NTFY_GET and NTFY_PUT ioctls (nvkm/core/ioctl.c,     *)
(* nvkm/core/client.c), and nvkm_event_send reaches nvif_notify through    *)
(* nvkm_client_notify and nvkm_client_ntfy, with driver->keep = false.     *)
(*                                                                         *)
(* Each layer has a USER bit and a count of its own, and each applies the  *)
(* KEEP or DROP of a callback to its own.  The notify n of this module is  *)
(* the struct nvif_notify and the nvkm_notify made for it; a thread of     *)
(* Users is in nvif code where call says, and below it, in NVKM, where     *)
(* user says.  The worker of a deferred notify n is the thread n.          *)
(***************************************************************************)
EXTENDS NvkmNotify

CONSTANTS
  Threads,    \* threads that use notifies
  Deferred,   \* the notifies constructed with work = true
  MaxPut      \* bound: no event is sent while the putcnt of a deferred notify exceeds it

\* nvkm_client_notify_new makes its nvkm_notify with work = false, and nothing
\* serialises the callers of nvif_notify_get and nvif_notify_put.
ASSUME NvifAssumption ==
  /\ Work = {} /\ ~Serialized
  /\ Deferred \subseteq Notifies
  /\ Users = Threads \cup Deferred
  /\ Threads \cap Notifies = {}
  /\ MaxPut \in Nat \ {0}

VARIABLES
  object,   \* notify->object # NULL
  nflag,    \* NVIF_NOTIFY_USER
  putcnt,   \* notify->putcnt
  pending,  \* the work item of a deferred notify is pending
  call,     \* what each thread is doing in nvif
  cb        \* the nvif_notify that the sender is in, if send.pc = "func"

nvifVars == <<object, nflag, putcnt, pending, call, cb>>
allVars == <<vars, nvifVars>>

CallIdle == [pc |-> "idle", n |-> NoNotify, dtor |-> FALSE]
CbIdle == [pc |-> "enter", keep |-> FALSE]

NvifInit ==
  /\ Init
  /\ object = [n \in Notifies |-> FALSE]
  /\ nflag = [n \in Notifies |-> FALSE]
  /\ putcnt = [n \in Notifies |-> 1]
  /\ pending = [n \in Notifies |-> FALSE]
  /\ call = [t \in Users |-> CallIdle]
  /\ cb = CbIdle

Goto(t, pc) == call' = [call EXCEPT ![t].pc = pc]

Return(t) == call' = [call EXCEPT ![t] =
                IF @.dtor THEN [@ EXCEPT !.pc = "delIoctl"] ELSE CallIdle]

-----------------------------------------------------------------------------
(* nvif_notify_ctor, nvif_notify_get and nvif_notify_put.                  *)

\* A constructor that succeeds; the fields are private until NTFY_NEW.
NvifCtor(t, n) ==
  /\ call[t].pc = "idle" /\ ~object[n] /\ ~pending[n]
  /\ n \in Deferred => call[n].pc = "idle"
  /\ NotifyInit(t, n)
  /\ object' = [object EXCEPT ![n] = TRUE]
  /\ nflag' = [nflag EXCEPT ![n] = FALSE]
  /\ putcnt' = [putcnt EXCEPT ![n] = 1]
  /\ UNCHANGED <<pending, call, cb>>

\* nvif_notify_get: test_and_set_bit(USER).
NvifGet(t, n) ==
  /\ call[t].pc = "idle"
  /\ IF object[n] /\ ~nflag[n]
     THEN /\ nflag' = [nflag EXCEPT ![n] = TRUE]
          /\ call' = [call EXCEPT ![t] = [pc |-> "dec", n |-> n, dtor |-> FALSE]]
     ELSE UNCHANGED <<nflag, call>>
  /\ UNCHANGED <<vars, object, putcnt, pending, cb>>

\* nvif_notify_put: test_and_clear_bit(USER).  nvif_notify_dtor starts with it.
NvifPut(t, n, dtor) ==
  /\ call[t].pc = "idle"
  /\ LET next == IF object[n] /\ nflag[n] THEN "inc"
                 ELSE IF object[n] /\ dtor THEN "delIoctl" ELSE "idle"
     IN  /\ nflag' = [nflag EXCEPT ![n] = @ /\ ~object[n]]
         /\ call' = [call EXCEPT ![t] =
               IF next = "idle" THEN CallIdle
               ELSE [pc |-> next, n |-> n, dtor |-> dtor]]
  /\ UNCHANGED <<vars, object, putcnt, pending, cb>>

\* nvif_notify_get_: atomic_dec_return, and NTFY_GET when it reaches 0.
Dec(t) ==
  /\ call[t].pc = "dec"
  /\ putcnt' = [putcnt EXCEPT ![call[t].n] = @ - 1]
  /\ IF putcnt'[call[t].n] = 0 THEN Goto(t, "getIoctl") ELSE Return(t)
  /\ UNCHANGED <<vars, object, nflag, pending, cb>>

GetIoctl(t) ==
  /\ call[t].pc = "getIoctl"
  /\ NotifyGet(t, call[t].n)
  /\ Goto(t, "getWait")
  /\ UNCHANGED <<object, nflag, putcnt, pending, cb>>

AfterInc(t) == IF call[t].n \in Deferred THEN Goto(t, "flush") ELSE Return(t)

\* nvif_notify_put_: atomic_inc_return, and NTFY_PUT when it reaches 1.
Inc(t) ==
  /\ call[t].pc = "inc"
  /\ putcnt' = [putcnt EXCEPT ![call[t].n] = @ + 1]
  /\ IF putcnt'[call[t].n] = 1 THEN Goto(t, "putIoctl") ELSE AfterInc(t)
  /\ UNCHANGED <<vars, object, nflag, pending, cb>>

PutIoctl(t) ==
  /\ call[t].pc = "putIoctl"
  /\ NotifyPut(t, call[t].n, FALSE)
  /\ Goto(t, "putWait")
  /\ UNCHANGED <<object, nflag, putcnt, pending, cb>>

\* The ioctl returns from NVKM.
IoctlReturn(t) ==
  /\ user[t].pc = "idle"
  /\ \/ call[t].pc = "getWait" /\ Return(t)
     \/ call[t].pc = "putWait" /\ AfterInc(t)
  /\ UNCHANGED <<vars, object, nflag, putcnt, pending, cb>>

Flush(t) ==
  /\ call[t].pc = "flush"
  /\ ~pending[call[t].n] /\ call[call[t].n].pc = "idle"
  /\ Return(t)
  /\ UNCHANGED <<vars, object, nflag, putcnt, pending, cb>>

\* NTFY_PUT in the place of NTFY_DEL.
DelIoctlBug(t) ==
  /\ call[t].pc = "delIoctl"
  /\ NotifyPut(t, call[t].n, FALSE)
  /\ Goto(t, "delWait")
  /\ UNCHANGED <<object, nflag, putcnt, pending, cb>>

\* nvif_notify_dtor: NTFY_DEL, and object = NULL when it has returned.
DelIoctl(t) ==
  /\ call[t].pc = "delIoctl"
  /\ NotifyPut(t, call[t].n, TRUE)
  /\ Goto(t, "delWait")
  /\ UNCHANGED <<object, nflag, putcnt, pending, cb>>

DelReturn(t) ==
  /\ call[t].pc = "delWait" /\ user[t].pc = "idle"
  /\ object' = [object EXCEPT ![call[t].n] = FALSE]
  /\ call' = [call EXCEPT ![t] = CallIdle]
  /\ UNCHANGED <<vars, nflag, putcnt, pending, cb>>

-----------------------------------------------------------------------------
(* nvif_notify, run by the sender in the place of nvkm's notify->func.     *)

\* A callback that does not mask its notify.
CbIncBug ==
  /\ send.pc = "func" /\ cb.pc = "enter"
  /\ cb' = [cb EXCEPT !.pc = IF Cur \in Deferred THEN "queue" ELSE "func"]
  /\ UNCHANGED <<vars, object, nflag, putcnt, pending, call>>

CbInc ==
  /\ send.pc = "func" /\ cb.pc = "enter"
  /\ putcnt' = [putcnt EXCEPT ![Cur] = @ + 1]
  /\ cb' = [cb EXCEPT !.pc = IF Cur \in Deferred THEN "queue" ELSE "func"]
  /\ UNCHANGED <<vars, object, nflag, pending, call>>

\* A deferred callback: schedule_work, and DROP for NVKM.
CbQueue ==
  /\ cb.pc = "queue"
  /\ pending' = [pending EXCEPT ![Cur] = TRUE]
  /\ SendFunc(FALSE)
  /\ cb' = CbIdle
  /\ UNCHANGED <<object, nflag, putcnt, call>>

CbFunc(keep) ==
  /\ cb.pc = "func"
  /\ cb' = [pc |-> IF keep THEN "dec" ELSE "clear", keep |-> keep]
  /\ UNCHANGED <<vars, object, nflag, putcnt, pending, call>>

\* DROP: test_and_clear_bit(USER); NVKM is told DROP in either case.
CbClear ==
  /\ cb.pc = "clear"
  /\ nflag' = [nflag EXCEPT ![Cur] = FALSE]
  /\ IF nflag[Cur] THEN SendFunc(FALSE) /\ cb' = CbIdle
     ELSE cb' = [cb EXCEPT !.pc = "dec"] /\ UNCHANGED vars
  /\ UNCHANGED <<object, putcnt, pending, call>>

\* keep = false: the count is restored and NVKM re-arms, if it is told KEEP.
CbDec ==
  /\ cb.pc = "dec"
  /\ putcnt' = [putcnt EXCEPT ![Cur] = @ - 1]
  /\ SendFunc(cb.keep)
  /\ cb' = CbIdle
  /\ UNCHANGED <<object, nflag, pending, call>>

-----------------------------------------------------------------------------
(* nvif_notify_work: nvif_notify_func with keep = true, which re-arms      *)
(* through nvif_notify_get_.                                               *)

NvifWorkRun(n) ==
  /\ pending[n] /\ call[n].pc = "idle"
  /\ pending' = [pending EXCEPT ![n] = FALSE]
  /\ call' = [call EXCEPT ![n] = [pc |-> "func", n |-> n, dtor |-> FALSE]]
  /\ UNCHANGED <<vars, object, nflag, putcnt, cb>>

\* A worker that outlives its notify goes no further.
NvifWorkFunc(n, keep) ==
  /\ call[n].pc = "func" /\ object[n]
  /\ Goto(n, IF keep THEN "dec" ELSE "clear")
  /\ UNCHANGED <<vars, object, nflag, putcnt, pending, cb>>

NvifWorkClear(n) ==
  /\ call[n].pc = "clear" /\ object[n]
  /\ nflag' = [nflag EXCEPT ![n] = FALSE]
  /\ IF nflag[n] THEN Return(n) ELSE Goto(n, "dec")
  /\ UNCHANGED <<vars, object, putcnt, pending, cb>>

-----------------------------------------------------------------------------
NvifMayCall(t, n, alone) ==
  \A v \in Threads \ {t} : call[v].n = n => ~alone /\ ~call[v].dtor

NvifCall(t) ==
  \E n \in Notifies :
    \/ NvifMayCall(t, n, TRUE) /\ NvifCtor(t, n)
    \/ NvifMayCall(t, n, FALSE) /\ NvifGet(t, n)
    \/ NvifMayCall(t, n, FALSE) /\ NvifPut(t, n, FALSE)
    \/ NvifMayCall(t, n, TRUE) /\ NvifPut(t, n, TRUE)

\* NVKM's part of an ioctl.
NvkmUser(t) ==
  /\ UserGetLocked(t) \/ UserPutLocked(t) \/ UserListDel(t)
  /\ UNCHANGED nvifVars

NvifStep(t) ==
  \/ Dec(t)
  \/ GetIoctl(t)
  \/ Inc(t)
  \/ PutIoctl(t)
  \/ IoctlReturn(t)
  \/ Flush(t)
  \/ DelIoctl(t)
  \/ DelReturn(t)
  \/ NvkmUser(t)

NvkmSend ==
  /\ SendEnd \/ SendSkip \/ SendBlock \/ SendClear \/ SendRearm
  /\ UNCHANGED nvifVars

CbStep ==
  \/ CbInc
  \/ CbQueue
  \/ \E keep \in BOOLEAN : CbFunc(keep)
  \/ CbClear
  \/ CbDec

NvifWorkStep(n) ==
  \/ NvifWorkRun(n)
  \/ \E keep \in BOOLEAN : NvifWorkFunc(n, keep)
  \/ NvifWorkClear(n)

NvifEvent ==
  /\ \A n \in Deferred : putcnt[n] <= MaxPut
  /\ Event
  /\ UNCHANGED nvifVars

NvifNext ==
  \/ \E t \in Threads : NvifCall(t)
  \/ \E t \in Users : NvifStep(t)
  \/ NvifEvent
  \/ NvkmSend
  \/ CbStep
  \/ \E n \in Deferred : NvifWorkStep(n)

NvifSpec == NvifInit /\ [][NvifNext]_allVars

\* As in NvkmNotify: list_lock is granted in turn.
NvifFairness ==
  /\ \A t \in Users : WF_allVars(NvifStep(t)) /\ SF_allVars(UserListDel(t) /\ UNCHANGED nvifVars)
  /\ WF_allVars(NvkmSend \/ CbStep)
  /\ \A n \in Deferred : WF_allVars(NvifWorkStep(n))

NvifFairSpec == NvifSpec /\ NvifFairness

-----------------------------------------------------------------------------
(* Properties.                                                             *)

\* The values of every variable; the callback of the client runs only inside the
\* delivery of NVKM that called it (nouveau_nvif.c:74-100).
NvifTypeOK ==
  /\ TypeOK
  /\ object \in [Notifies -> BOOLEAN]
  /\ nflag \in [Notifies -> BOOLEAN]
  /\ putcnt \in [Notifies -> Int]
  /\ pending \in [Notifies -> BOOLEAN]
  /\ call \in [Users -> [pc : {"idle", "dec", "getIoctl", "getWait", "inc", "putIoctl",
                              "putWait", "flush", "delIoctl", "delWait", "func", "clear"},
                         n : Notifies \cup {NoNotify}, dtor : BOOLEAN]]
  /\ cb \in [pc : {"enter", "queue", "func", "clear", "dec"}, keep : BOOLEAN]
  /\ cb.pc # "enter" => send.pc = "func"

In(n, pcs) == {t \in Users : call[t].n = n /\ call[t].pc \in pcs}

\* notify->putcnt counts the reasons for which n is not armed: that nobody wants
\* it, the callbacks under way here, and a correction for the threads that have
\* changed the USER bit and not yet the count (notify.c:44, 75, 97, 129).  It is
\* never below, and above only when concurrent callers had a callback merged
\* into one that was pending.
PutcntAccounts ==
  /\ NvifTypeOK
  /\ \A n \in Notifies :
       LET account == 1 - B(nflag[n]) + B(cb.pc # "enter" /\ Cur = n) + B(pending[n])
                        + Cardinality(In(n, {"func", "clear", "dec"})) - Cardinality(In(n, {"inc"}))
       IN  putcnt[n] >= account /\ (n \notin Deferred => putcnt[n] = account)

\* No callback of a direct notify is under way once nvif_notify_dtor has returned.
NoCallbackAfterDtor ==
  \A n \in Notifies \ Deferred : Sending(n) => object[n]

\* nvif_notify_get, _put and _dtor return, the flush of a put included.
NvifCallReturns == \A t \in Threads : call[t].pc # "idle" ~> call[t].pc = "idle"
=============================================================================
