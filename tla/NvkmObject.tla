----------------------------- MODULE NvkmObject -----------------------------
(***************************************************************************)
(* The object tree of NVKM (nvkm/core/object.c): objects are created and   *)
(* deleted by ioctls, and the whole tree is taken down for a suspend and   *)
(* brought up by a resume, children before parents and the other way       *)
(* round.  A call that fails half-way undoes what it did.  What the        *)
(* objects' own init and fini change is counted: the udevices of a device  *)
(* (device/user.c), the users of an engine (core/engine.c), and the        *)
(* children of a channel that use an engine (fifo/chan.c), which share a   *)
(* context there.                                                          *)
(*                                                                         *)
(* The counts are under device->mutex and engine->subdev.mutex, the tree   *)
(* of a client is changed by one ioctl at a time, and a suspend finds user *)
(* space frozen: a call is one action.                                     *)
(***************************************************************************)
EXTENDS Integers, Sequences, FiniteSets, SequencesExt

CONSTANTS
  Root,       \* the client of the driver, drm->master
  Objs,       \* the other objects there may be
  Parent,     \* of each of them
  Class,      \* "client", "device", "channel", or "child" of a channel
  Subdevs,    \* the subdevs of the device, engines too, in their order
  Engine,     \* the engine of the channels, and that of their children
  None,
  MaxMisses   \* bound: calls that fail

All == Objs \cup {Root}
Engines == {Engine[c] : c \in DOMAIN Engine}
ChannelObjs == {o \in Objs : Class[o] = "channel"}
SubdevSet == ToSet(Subdevs)

ASSUME ObjectAssumption ==
  /\ Root \notin Objs /\ Class[Root] = "client"
  /\ Parent \in [Objs -> All] /\ Engines \subseteq SubdevSet
  /\ None \notin All \cup SubdevSet /\ MaxMisses \in Nat

VARIABLES
  tree,    \* object->tree, the newest child first
  nv,      \* what init and fini change: objects, device, engines, channels
  power,   \* "on", "suspended", or "lost" when a resume has failed
  misses

objVars == <<tree, nv, power, misses>>

Present == {Root} \cup UNION {ToSet(tree[o]) : o \in All}

ObjInit ==
  /\ tree = [o \in All |-> <<>>]
  /\ nv = [state |-> [o \in All |-> IF o = Root THEN "up" ELSE "down"],
           refcount |-> 0, on |-> [s \in SubdevSet |-> FALSE],
           use |-> [e \in Engines |-> 0],
           engn |-> [c \in ChannelObjs |-> [refs |-> 0, use |-> 0, ctx |-> "none"]],
           paired |-> TRUE]
  /\ power = "on"
  /\ misses = 0

-----------------------------------------------------------------------------
(* Devices and engines.  What a call returns is the new state, and whether  *)
(* it succeeded; bad is what fails in it.                                   *)

Ok(n) == [n |-> n, ok |-> TRUE]
Fails(n) == [n |-> n, ok |-> FALSE]

IndexIn(s) == CHOOSE i \in DOMAIN Subdevs : Subdevs[i] = s

\* nvkm_engine_init is skipped for an engine without users.
Starts(n, s) == s \notin Engines \/ n.use[s] > 0

AllOff(n) == [n EXCEPT !.on = [s \in SubdevSet |-> FALSE]]

\* Those below the subdev that refused are brought up no more.
DeviceFiniBug(n, suspend, bad) ==
  IF suspend /\ bad \in SubdevSet
  THEN Fails([n EXCEPT !.on = [s \in SubdevSet |-> IndexIn(s) <= IndexIn(bad) /\ @[s]]])
  ELSE Ok(AllOff(n))

\* nvkm_device_fini: from the last subdev on; when one refuses to suspend, it and
\* those above it are started again.
DeviceFini(n, suspend, bad) ==
  IF suspend /\ bad \in SubdevSet
  THEN Fails([n EXCEPT !.on = [s \in SubdevSet |->
                IF IndexIn(s) >= IndexIn(bad) THEN Starts(n, s) ELSE @[s]]])
  ELSE Ok(AllOff(n))

\* nvkm_device_init.
DeviceInit(n, bad) ==
  IF bad \in SubdevSet /\ Starts(n, bad) THEN Fails(AllOff(n))
  ELSE Ok([n EXCEPT !.on = [s \in SubdevSet |-> Starts(n, s)]])

\* nvkm_engine_ref.
EngineRef(n, e, bad) ==
  IF n.use[e] > 0 THEN Ok([n EXCEPT !.use[e] = @ + 1])
  ELSE IF bad = e THEN Fails(n)
  ELSE Ok([n EXCEPT !.use[e] = 1, !.on[e] = TRUE])

\* nvkm_engine_unref.
EngineUnref(n, e) == [n EXCEPT !.use[e] = @ - 1, !.on[e] = @ /\ n.use[e] > 1]

-----------------------------------------------------------------------------
(* object->func.  An init that fails is followed by a fini, a fini that     *)
(* fails in a suspend by an init: the object is "half" up between the two.  *)
(* paired tells that this was so, and that no init met an object that was   *)
(* up, and no fini one that was down; nvkm_udevice_init and _fini undo      *)
(* themselves what they have counted.                                       *)

\* nvkm_udevice_fini.
UdeviceFini(n, suspend, bad) ==
  LET r == DeviceFini(n, suspend, bad)
  IN  CASE n.refcount # 1 -> Ok([n EXCEPT !.refcount = @ - 1])
        [] n.refcount = 1 /\ r.ok -> Ok([r.n EXCEPT !.refcount = 0])
        [] OTHER -> Fails([r.n EXCEPT !.paired = FALSE])

\* nvkm_udevice_init.
UdeviceInit(n, bad) ==
  LET r == DeviceInit(n, bad)
  IN  CASE n.refcount # 0 -> Ok([n EXCEPT !.refcount = @ + 1])
        [] n.refcount = 0 /\ r.ok -> Ok([r.n EXCEPT !.refcount = 1])
        [] OTHER -> Fails([r.n EXCEPT !.paired = FALSE])

\* The use of the engine is given up only if it could be detached.
ChildFiniBug(n, c, refuses) ==
  IF n.engn[c].use = 1 /\ refuses THEN Fails(n)
  ELSE Ok([n EXCEPT !.engn[c] = [refs |-> @.refs, use |-> @.use - 1,
                                 ctx |-> IF @.use = 1 THEN "down" ELSE @.ctx]])

\* nvkm_fifo_chan_child_fini: with the last child that is up, the engine is
\* detached from the channel, which it may refuse, and the context goes down.
ChildFini(n, c, refuses) ==
  LET k == [n EXCEPT !.engn[c].use = @ - 1]
  IN  CASE n.engn[c].use # 1 -> Ok(k)
        [] n.engn[c].use = 1 /\ refuses -> Fails(k)
        [] OTHER -> Ok([k EXCEPT !.engn[c].ctx = "down"])

\* nvkm_fifo_chan_child_init: the context comes up, the engine may fail to be
\* attached.
ChildInit(n, c, refuses) ==
  LET k == [n EXCEPT !.engn[c].use = @ + 1]
      a == [k EXCEPT !.engn[c].ctx = "up"]
  IN  CASE n.engn[c].use # 0 -> Ok(k)
        [] n.engn[c].use = 0 /\ refuses -> Fails(a)
        [] OTHER -> Ok(a)

FuncFini(n, o, suspend, bad) ==
  LET m == [n EXCEPT !.paired = @ /\ n.state[o] # "down"]
      r == CASE Class[o] = "device" -> UdeviceFini(m, suspend, bad)
             [] Class[o] = "child" -> ChildFini(m, Parent[o], suspend /\ bad = o)
             [] OTHER -> Ok(m)
  IN  [r EXCEPT !.n.state[o] = IF r.ok THEN "down" ELSE "half"]

FuncInit(n, o, bad) ==
  LET m == [n EXCEPT !.paired = @ /\ n.state[o] # "up"]
      r == CASE Class[o] = "device" -> UdeviceInit(m, bad)
             [] Class[o] = "child" -> ChildInit(m, Parent[o], bad = o)
             [] OTHER -> Ok(m)
  IN  [r EXCEPT !.n.state[o] = IF r.ok THEN "up" ELSE "half"]

-----------------------------------------------------------------------------
(* The walks over the tree.                                                *)

Concat(os, f) == FlattenSeq([i \in DOMAIN os |-> f[os[i]]])

\* An object before its children, and after them.
Pre[o \in All] == <<o>> \o Concat(tree[o], Pre)
Post[o \in All] == Concat(tree[o], Post) \o <<o>>

\* The siblings that a walk has met before o, the last of them first.
Before(o) ==
  LET kids == tree[Parent[o]]
  IN  Reverse(SubSeq(kids, 1, (CHOOSE i \in DOMAIN kids : kids[i] = o) - 1))

\* What is to be started again in the tree of r when the fini of x has failed.
Restored(r, x) ==
  LET above[o \in All] == IF o = r THEN <<>> ELSE Concat(Before(o), Pre) \o above[Parent[o]]
  IN  <<x>> \o Concat(Reverse(tree[x]), Pre) \o above[x]

\* What is to be taken down when the init of x has failed.
Unwound(r, x) ==
  LET above[o \in All] ==
        IF o = r THEN <<>> ELSE Concat(Before(o), Post) \o <<Parent[o]>> \o above[Parent[o]]
  IN  <<x>> \o above[x]

FiniAll(n, os) == FoldLeft(LAMBDA k, o : FuncFini(k, o, FALSE, None).n, n, os)

\* As the rollback of a suspend it succeeds here.  In the code an init of it may
\* fail, too ("failed to restart", nvkm_object_fini; "failed restart",
\* nvkm_device_fini), which is logged, and after which nothing is promised.
InitAll(n, os) == FoldLeft(LAMBDA k, o : FuncInit(k, o, None).n, n, os)

\* The walk as far as an object that fails.
Walk(n, os, Func(_, _)) ==
  LET step(acc, o) ==
        IF acc.at # None THEN acc
        ELSE LET r == Func(acc.n, o) IN [n |-> r.n, at |-> IF r.ok THEN None ELSE o]
  IN  FoldLeft(step, [n |-> n, at |-> None], os)

\* nvkm_object_fini for a suspend.
ObjectSuspend(n, r, bad) ==
  LET w == Walk(n, Post[r], LAMBDA k, o : FuncFini(k, o, TRUE, bad))
  IN  IF w.at = None THEN Ok(w.n) ELSE Fails(InitAll(w.n, Restored(r, w.at)))

\* nvkm_object_fini otherwise: errors are of no account.
ObjectFini(n, r) == FiniAll(n, Post[r])

\* nvkm_object_init.
ObjectInit(n, r, bad) ==
  LET w == Walk(n, Pre[r], LAMBDA k, o : FuncInit(k, o, bad))
  IN  IF w.at = None THEN Ok(w.n) ELSE Fails(FiniAll(w.n, Unwound(r, w.at)))

-----------------------------------------------------------------------------
(* The ioctls.                                                             *)

HasEngine(o) == Class[o] \in DOMAIN Engine
TakeEngine(n, o, bad) == IF HasEngine(o) THEN EngineRef(n, Engine[Class[o]], bad) ELSE Ok(n)
DropEngine(n, o) == IF HasEngine(o) THEN EngineUnref(n, Engine[Class[o]]) ELSE n

\* oclass.ctor.  The first child of a channel makes the context, an object of
\* the engine as well (nvkm_fifo_chan_child_new).
Ctor(n, o) ==
  LET c == Parent[o]
      k == TakeEngine(n, o, None).n
  IN  IF Class[o] # "child" THEN k
      ELSE IF n.engn[c].refs > 0 THEN [k EXCEPT !.engn[c].refs = @ + 1]
      ELSE [TakeEngine(k, o, None).n EXCEPT !.engn[c] = [@ EXCEPT !.refs = 1, !.ctx = "down"]]

\* nvkm_object_dtor, with nvkm_fifo_chan_child_del.
Dtor(n, o) ==
  LET c == Parent[o]
      k == DropEngine(n, o)
  IN  IF Class[o] # "child" THEN k
      ELSE IF n.engn[c].refs > 1 THEN [k EXCEPT !.engn[c].refs = @ - 1]
      ELSE [DropEngine(k, o) EXCEPT !.engn[c] = [@ EXCEPT !.refs = 0, !.ctx = "none"]]

\* nvkm_ioctl_new, but for the tree.  An object whose init has failed gets
\* another fini; "dup" is an object whose handle is in use.
NewObject(n, o, bad) ==
  LET held == TakeEngine(n, o, bad)
      made == DropEngine(Ctor(held.n, o), o)
      run == ObjectInit(made, o, bad)
  IN  IF ~held.ok THEN held
      ELSE IF bad = "ctor" THEN Fails(Dtor(made, o))
      ELSE IF run.ok /\ bad # "dup" THEN run
      ELSE Fails(Dtor(ObjectFini(run.n, o), o))

\* What may fail in a call, if it is to fail at all.
Bad(r, bad) ==
  /\ r.ok <=> bad = None
  /\ ~r.ok => misses < MaxMisses
  /\ misses' = misses + IF r.ok THEN 0 ELSE 1

IoctlNew(o, bad) ==
  LET r == NewObject(nv, o, bad)
  IN  /\ power = "on" /\ o \notin Present /\ Parent[o] \in Present
      /\ Bad(r, bad)
      /\ nv' = r.n
      /\ tree' = IF r.ok THEN [tree EXCEPT ![Parent[o]] = <<o>> \o @] ELSE tree
      /\ UNCHANGED power

\* nvkm_ioctl_del: all of the object's tree is taken down, then destroyed.
IoctlDel(o) ==
  /\ power = "on" /\ o \in Present \ {Root}
  /\ nv' = FoldLeft(Dtor, ObjectFini(nv, o), Post[o])
  /\ tree' = [p \in All |-> IF p \in ToSet(Post[o]) THEN <<>>
                            ELSE SelectSeq(tree[p], LAMBDA k : k # o)]
  /\ UNCHANGED <<power, misses>>

\* nvif_client_suspend of the driver's client.
Suspend(bad) ==
  LET r == ObjectSuspend(nv, Root, bad)
  IN  /\ power = "on"
      /\ Bad(r, bad)
      /\ nv' = r.n
      /\ power' = IF r.ok THEN "suspended" ELSE "on"
      /\ UNCHANGED tree

\* nvif_client_resume.  What becomes of the driver when it fails is not modelled.
Resume(bad) ==
  LET r == ObjectInit(nv, Root, bad)
  IN  /\ power = "suspended"
      /\ Bad(r, bad)
      /\ nv' = r.n
      /\ power' = IF r.ok THEN "on" ELSE "lost"
      /\ UNCHANGED tree

ObjNext ==
  \/ \E o \in Objs, bad \in {None, "ctor", "dup"} \cup Objs \cup SubdevSet : IoctlNew(o, bad)
  \/ \E o \in Objs : IoctlDel(o)
  \/ \E bad \in {None} \cup Objs \cup SubdevSet : Suspend(bad) \/ Resume(bad)

ObjSpec == ObjInit /\ [][ObjNext]_objVars

-----------------------------------------------------------------------------
(* Properties.                                                             *)

UpObjs(class) == {o \in Present : Class[o] = class /\ nv.state[o] = "up"}
Contexts == {c \in ChannelObjs : nv.engn[c].ctx # "none"}

\* An engine has as many users as there are objects of it, contexts too, and a
\* channel has a context while it has children, whatever has failed.  As long
\* as init and fini were paired: the device is on while a udevice is up, its
\* engines while they have users besides, a context while a child of its
\* channel is up, and nothing at all once the tree is suspended
\* (nvkm_engine_ref, nvkm_fifo_chan_child_new, nvkm_udevice_init, _fini).
ObjectsExact ==
  /\ \A e \in Engines :
       nv.use[e] = Cardinality({o \in Present : HasEngine(o) /\ Engine[Class[o]] = e})
                   + IF e = Engine["child"] THEN Cardinality(Contexts) ELSE 0
  /\ \A c \in ChannelObjs : nv.engn[c].refs = Len(tree[c]) /\ (c \in Contexts <=> tree[c] # <<>>)
  /\ nv.paired =>
       /\ nv.refcount = Cardinality(UpObjs("device"))
       /\ \A s \in SubdevSet : nv.on[s] <=> UpObjs("device") # {} /\ Starts(nv, s)
       /\ \A c \in ChannelObjs :
            /\ nv.engn[c].use = Cardinality(UpObjs("child") \cap ToSet(tree[c]))
            /\ nv.engn[c].ctx = "up" <=> nv.engn[c].use > 0
       /\ \A o \in Present : nv.state[o] = IF power = "on" THEN "up" ELSE "down"

\* A call that fails leaves all as it was; and init and fini are paired in any
\* call but where a udevice's own init or fini fails for a subdev, or where an
\* object that nvkm_ioctl_new makes fails its init (nvkm_object_fini,
\* nvkm_object_init, nvkm_device_fini, nvkm_ioctl_new).
CallsUndone ==
  [][/\ misses' > misses /\ power' = "on" =>
          /\ nv'.on = nv.on /\ nv'.state = nv.state
          /\ nv'.paired => nv' = nv
     /\ nv.paired /\ ~nv'.paired =>
          \/ \E s \in SubdevSet : Suspend(s) \/ Resume(s)
          \/ \E o \in Objs, bad \in Objs \cup SubdevSet : IoctlNew(o, bad)]_objVars

=============================================================================
