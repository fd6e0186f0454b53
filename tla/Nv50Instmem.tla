---------------------------- MODULE Nv50Instmem ----------------------------
(***************************************************************************)
(* Objects in instance memory: nvkm/subdev/instmem/nv50.c, base.c and the  *)
(* switch of BAR2 in nvkm/subdev/bar/base.c.  A thread that acquires an    *)
(* object gets a CPU mapping of it through BAR2, or, when BAR2 is down or  *)
(* full, accessors that go through the window of BAR0.  The mapping stays  *)
(* when the object is released, and may then be evicted for another; the   *)
(* page table of BAR2 is itself such an object.  Suspend saves all objects *)
(* and resume loads them, while the means to reach them go and come.       *)
(*                                                                         *)
(* An action is a section under subdev->mutex, or a call of nvkm_vmm made  *)
(* between two of them.  BAR2's address space is a set of slots, one per   *)
(* object.                                                                 *)
(***************************************************************************)
EXTENDS Integers, Sequences, SequencesExt, FiniteSets

CONSTANTS
  InstObjs,   \* objects beside the page table of BAR2
  Early,      \* those of them that exist when BAR2's page table is booted
  Slots,      \* room in BAR2
  Users       \* threads

NoSlot == "none"
Pt == "pt"                       \* the page table of BAR2
Pm == "pm"                       \* the thread of init, suspend and resume
InstThreads == Users \cup {Pm}
AllObjs == InstObjs \cup {Pt}

ASSUME InstAssumption ==
  /\ Early \subseteq InstObjs /\ Pt \notin InstObjs
  /\ IsFiniteSet(Users) /\ Pm \notin Users
  /\ NoSlot \notin Slots \cup AllObjs

VARIABLES
  objs,      \* objects there are
  maps,      \* iobj->maps
  bar,       \* iobj->bar, with iobj->map
  lru,       \* imem->lru
  evictable, \* iobj->lru.next is not NULL
  ptrs,      \* iobj->base.memory.ptrs
  boot,      \* the objects on imem->boot; the others are on imem->list
  slots,     \* what is free of BAR2
  bar2,      \* bar->bar2
  pte,       \* contents of Pt: the object each slot leads to
  addr,      \* imem->addr
  win,       \* the register of the window, 0x001700
  lost,      \* objects whose contents are not what they should be
  saved,     \* objects with iobj->suspend
  savedPte,  \* and the copy of Pt
  power, todo, \* how far init, suspend or resume is
  thr        \* of each thread, where it is

objVars == <<objs, maps, bar, lru, evictable, ptrs, boot>>
vramVars == <<pte, addr, win, lost, saved, savedPte>>
pmVars == <<bar2, power, todo>>
instVars == <<objVars, slots, vramVars, pmVars, thr>>

NoPte == [s \in Slots |-> NoSlot]
InstIdle == [pc |-> "idle", op |-> "use", o |-> Pt, slot |-> NoSlot]

InstInit ==
  /\ objs = {Pt} \cup Early
  /\ maps = [o \in AllObjs |-> 0]
  /\ bar = [o \in AllObjs |-> NoSlot]
  /\ lru = <<>>
  /\ evictable = [o \in AllObjs |-> TRUE]
  /\ ptrs = [o \in AllObjs |-> "null"]
  /\ boot = {}
  /\ slots = Slots
  /\ bar2 = FALSE
  /\ pte = NoPte
  /\ addr = NoSlot /\ win = NoSlot
  /\ lost = {} /\ saved = {} /\ savedPte = NoPte
  /\ power = "boot" /\ todo = {}
  /\ thr = [t \in InstThreads |-> InstIdle]

InstAt(t, pc) == thr[t].pc = pc
InstGoto(t, pc) == thr' = [thr EXCEPT ![t].pc = pc]
Begin(t, op, o, pc) == thr' = [thr EXCEPT ![t] = [pc |-> pc, op |-> op, o |-> o, slot |-> NoSlot]]

\* list_del_init(&iobj->lru).
OffLru(o) ==
  IF \E i \in DOMAIN lru : lru[i] = o
  THEN RemoveAt(lru, CHOOSE i \in DOMAIN lru : lru[i] = o) ELSE lru

-----------------------------------------------------------------------------
(* nv50_instobj_acquire and nv50_instobj_kmap.                             *)

\* The end of nv50_instobj_acquire, with the mutex held since bar became b; of
\* nv50_instobj_boot, nvkm_instmem_boot.
Finish(t, b) ==
  LET o == thr[t].o
      direct == bar2 /\ b[o] # NoSlot
  IN  /\ bar' = b
      /\ IF thr[t].op = "boot" THEN
           /\ boot' = objs
           /\ power' = "loadboot"
           /\ thr' = [thr EXCEPT ![t] = InstIdle]
           /\ UNCHANGED <<maps, lru, ptrs>>
         ELSE
           /\ maps' = [maps EXCEPT ![o] = @ + 1]
           /\ IF maps[o] > 0 THEN UNCHANGED <<lru, ptrs>>
              ELSE /\ lru' = IF evictable[o] THEN OffLru(o) ELSE lru
                   /\ ptrs' = [ptrs EXCEPT ![o] = IF direct THEN "fast" ELSE "slow"]
           /\ thr' = [thr EXCEPT ![t].pc = "held", ![t].slot = IF direct THEN b[o] ELSE NoSlot]
           /\ UNCHANGED <<boot, power>>
      /\ UNCHANGED <<objs, evictable, bar2, todo>>

Acquire(t) ==
  LET o == thr[t].o
  IN  /\ InstAt(t, "acquire")
      /\ IF maps[o] = 0 /\ bar2 /\ bar[o] = NoSlot
         THEN InstGoto(t, "get") /\ UNCHANGED <<objVars, pmVars>>
         ELSE Finish(t, bar)
      /\ UNCHANGED <<slots, vramVars>>

\* nvkm_vmm_get.
GetSlot(t) ==
  /\ InstAt(t, "get")
  /\ \/ \E s \in slots : /\ slots' = slots \ {s}
                         /\ thr' = [thr EXCEPT ![t].pc = "map", ![t].slot = s]
     \/ slots = {} /\ InstGoto(t, "evict") /\ UNCHANGED slots
  /\ UNCHANGED <<objVars, vramVars, pmVars>>

\* The first object of the LRU, if any.
Evict(t) ==
  /\ InstAt(t, "evict")
  /\ IF lru = <<>> THEN InstGoto(t, "finish") /\ UNCHANGED <<lru, bar>>
     ELSE /\ lru' = Tail(lru)
          /\ bar' = [bar EXCEPT ![Head(lru)] = NoSlot]
          /\ thr' = [thr EXCEPT ![t].pc = "put", ![t].slot = bar[Head(lru)]]
  /\ UNCHANGED <<objs, maps, evictable, ptrs, boot, slots, vramVars, pmVars>>

\* nvkm_vmm_put, after an eviction, of a mapping that is not wanted, and of
\* that of a destroyed object.
PutSlot(t) ==
  /\ thr[t].pc \in {"put", "drop", "free"}
  /\ slots' = slots \cup {thr[t].slot}
  /\ pte' = [pte EXCEPT ![thr[t].slot] = NoSlot]
  /\ thr' = [thr EXCEPT ![t].slot = NoSlot,
                        ![t].pc = CASE @ = "put" -> "get" [] @ = "drop" -> "finish" [] OTHER -> "idle"]
  /\ UNCHANGED <<objVars, pmVars, addr, win, lost, saved, savedPte>>

\* nvkm_memory_map.  Booting the page table succeeds: if it did not, writing the
\* first entry would ask for a mapping of the table under vmm->mutex.
MapSlot(t) ==
  /\ InstAt(t, "map")
  /\ \/ pte' = [pte EXCEPT ![thr[t].slot] = thr[t].o] /\ InstGoto(t, "end")
     \/ thr[t].op # "boot" /\ InstGoto(t, "drop") /\ UNCHANGED pte
  /\ UNCHANGED <<objVars, slots, pmVars, addr, win, lost, saved, savedPte>>

\* That another thread has mapped the object meanwhile is not seen.
KmapEndBug(t) ==
  LET o == thr[t].o
      s == thr[t].slot
  IN  /\ InstAt(t, "end")
      /\ \/ Finish(t, [bar EXCEPT ![o] = s]) /\ UNCHANGED <<slots, pte>>
         \/ /\ Finish(t, bar)
            /\ slots' = slots \cup {s}
            /\ pte' = [pte EXCEPT ![s] = NoSlot]
      /\ UNCHANGED <<addr, win, lost, saved, savedPte>>

\* Another thread beat us, or the mapping is made visible to the host, or
\* ioremap fails.
KmapEnd(t) ==
  LET o == thr[t].o
      s == thr[t].slot
  IN  /\ InstAt(t, "end")
      /\ \/ bar[o] # NoSlot /\ InstGoto(t, "drop") /\ UNCHANGED <<objVars, slots, pmVars, pte>>
         \/ bar[o] = NoSlot /\ Finish(t, [bar EXCEPT ![o] = s]) /\ UNCHANGED <<slots, pte>>
         \/ /\ bar[o] = NoSlot /\ thr[t].op # "boot" /\ Finish(t, bar)
            /\ slots' = slots \cup {s}
            /\ pte' = [pte EXCEPT ![s] = NoSlot]
      /\ UNCHANGED <<addr, win, lost, saved, savedPte>>

KmapFinish(t) == InstAt(t, "finish") /\ Finish(t, bar) /\ UNCHANGED <<slots, vramVars>>

-----------------------------------------------------------------------------
(* What is done with an object that is held.                               *)

Via(s) == IF bar2 /\ s # NoSlot THEN pte[s] ELSE NoSlot

\* What an accessor of o reaches: nv50_instobj_fast, nv50_instobj_slow.
Reached(o) == CASE ptrs[o] = "fast" -> Via(bar[o])
                [] ptrs[o] = "slow" -> IF addr # o THEN o ELSE win
                [] OTHER -> NoSlot

\* nvkm_instobj_save keeps the contents, nvkm_instobj_load writes them back;
\* nv50_instobj_bar2 excludes the object from eviction, if it is mapped.
Access(t) ==
  LET o == thr[t].o
      op == thr[t].op
      target == IF thr[t].slot # NoSlot THEN Via(thr[t].slot) ELSE Reached(o)
  IN  /\ InstAt(t, "held")
      /\ InstGoto(t, "release")
      /\ IF op # "pin" /\ ptrs[o] = "slow" THEN addr' = o /\ win' = o
         ELSE UNCHANGED <<addr, win>>
      /\ saved' = CASE op = "save" -> saved \cup {o} [] op = "load" -> saved \ {o} [] OTHER -> saved
      /\ savedPte' = CASE o = Pt /\ op = "save" -> pte [] o = Pt /\ op = "load" -> NoPte [] OTHER -> savedPte
      /\ lost' = IF op # "load" THEN lost ELSE IF target = o THEN lost \ {o} ELSE lost \cup {target}
      /\ pte' = IF op = "load" /\ target = Pt THEN savedPte ELSE pte
      /\ evictable' = IF op = "pin" /\ thr[t].slot # NoSlot THEN [evictable EXCEPT ![o] = FALSE]
                      ELSE evictable
      /\ UNCHANGED <<objs, maps, bar, lru, ptrs, boot, slots, pmVars>>

\* An object that is excluded from eviction is put on the LRU all the same.
ReleaseBug(t) ==
  LET o == thr[t].o
  IN  /\ InstAt(t, "release")
      /\ maps' = [maps EXCEPT ![o] = @ - 1]
      /\ IF maps[o] > 1 THEN UNCHANGED <<lru, ptrs>>
         ELSE /\ lru' = IF bar[o] # NoSlot THEN Append(lru, o) ELSE lru
              /\ ptrs' = [ptrs EXCEPT ![o] = "null"]
      /\ thr' = [thr EXCEPT ![t] = InstIdle]
      /\ UNCHANGED <<objs, bar, evictable, boot, slots, vramVars, pmVars>>

\* nv50_instobj_release.
Release(t) ==
  LET o == thr[t].o
  IN  /\ InstAt(t, "release")
      /\ maps' = [maps EXCEPT ![o] = @ - 1]
      /\ IF maps[o] > 1 THEN UNCHANGED <<lru, ptrs>>
         ELSE /\ lru' = IF evictable[o] /\ bar[o] # NoSlot THEN Append(lru, o) ELSE lru
              /\ ptrs' = [ptrs EXCEPT ![o] = "null"]
      /\ thr' = [thr EXCEPT ![t] = InstIdle]
      /\ UNCHANGED <<objs, bar, evictable, boot, slots, vramVars, pmVars>>

-----------------------------------------------------------------------------
(* Users.                                                                  *)

Use(t) ==
  /\ InstAt(t, "idle") /\ power = "run"
  /\ \E o \in objs \ {Pt}, op \in {"use", "pin"} : Begin(t, op, o, "acquire")
  /\ UNCHANGED <<objVars, slots, vramVars, pmVars>>

New(t) ==
  /\ InstAt(t, "idle") /\ power = "run"
  /\ \E o \in AllObjs \ objs : objs' = objs \cup {o} /\ evictable' = [evictable EXCEPT ![o] = TRUE]
  /\ UNCHANGED <<maps, bar, lru, ptrs, boot, slots, vramVars, pmVars, thr>>

\* nv50_instobj_dtor, of an object that nobody refers to.
Dtor(t) ==
  /\ InstAt(t, "idle") /\ power = "run"
  /\ \E o \in objs \ {Pt} :
       /\ \A u \in InstThreads : InstAt(u, "idle") \/ thr[u].o # o
       /\ objs' = objs \ {o} /\ boot' = boot \ {o}
       /\ lru' = IF evictable[o] THEN OffLru(o) ELSE lru
       /\ bar' = [bar EXCEPT ![o] = NoSlot]
       /\ thr' = [thr EXCEPT ![t] = [pc |-> IF bar[o] # NoSlot THEN "free" ELSE "idle",
                                     op |-> "use", o |-> Pt, slot |-> bar[o]]]
  /\ UNCHANGED <<maps, evictable, ptrs, slots, vramVars, pmVars>>

-----------------------------------------------------------------------------
(* Init, suspend and resume.                                               *)

\* nv50_instobj_boot, for the page table of BAR2.
Boot ==
  /\ power = "boot" /\ InstAt(Pm, "idle")
  /\ evictable' = [evictable EXCEPT ![Pt] = FALSE]
  /\ Begin(Pm, "boot", Pt, "get")
  /\ UNCHANGED <<objs, maps, bar, lru, ptrs, boot, slots, vramVars, pmVars>>

\* BAR2 goes up before its page table has been loaded.
ResumeBug == power' = "loadlist" /\ bar2' = TRUE /\ todo' = saved

\* nvkm_instmem_init.
Resume == power' = "loadboot" /\ bar2' = bar2 /\ todo' = saved \cap boot

\* nvkm_instmem_fini for suspend; nothing else runs until the device is up.
Suspend ==
  /\ power = "run" /\ \A t \in InstThreads : InstAt(t, "idle")
  /\ power' = "savelist" /\ todo' = objs \ boot
  /\ UNCHANGED <<objVars, slots, vramVars, bar2, thr>>

\* The next object of the list: nvkm_instobj_save, which may lack the memory
\* for a copy, then nvkm_device_fini starts again what it has stopped; or
\* nvkm_instobj_load.
PmNext ==
  /\ power \notin {"boot", "run"} /\ InstAt(Pm, "idle")
  /\ \/ \E o \in todo : /\ todo' = todo \ {o}
                        /\ Begin(Pm, IF power \in {"savelist", "saveboot"} THEN "save" ELSE "load",
                                 o, "acquire")
                        /\ UNCHANGED <<power, bar2>>
     \/ todo # {} /\ power \in {"savelist", "saveboot"} /\ Resume /\ UNCHANGED thr
  /\ UNCHANGED <<objVars, slots, vramVars>>

\* nv50_instmem_fini does not forget the address of the window.
FiniBug == UNCHANGED addr

\* nv50_instmem_fini.
Fini == addr' = NoSlot

\* The list is done.  Between suspend and resume the power may be off.
PmTurn ==
  /\ todo = {} /\ InstAt(Pm, "idle")
  /\ \/ /\ power = "savelist"
        /\ bar2' = FALSE /\ power' = "saveboot" /\ todo' = boot
        /\ UNCHANGED <<vramVars>>
     \/ /\ power = "saveboot" /\ Fini
        /\ power' = "off" /\ UNCHANGED <<bar2, todo, pte, win, lost, saved, savedPte>>
     \/ /\ power = "off" /\ Resume
        /\ \/ UNCHANGED <<vramVars>>
           \/ /\ pte' = NoPte /\ win' = NoSlot /\ lost' = objs
              /\ UNCHANGED <<addr, saved, savedPte>>
     \/ /\ power = "loadboot"
        /\ bar2' = TRUE /\ power' = "loadlist" /\ todo' = saved \ boot
        /\ UNCHANGED vramVars
     \/ /\ power = "loadlist" /\ power' = "run"
        /\ UNCHANGED <<vramVars, bar2, todo>>
  /\ UNCHANGED <<objVars, slots, thr>>

-----------------------------------------------------------------------------
InstStep(t) == \/ Acquire(t) \/ GetSlot(t) \/ Evict(t) \/ PutSlot(t) \/ MapSlot(t) \/ KmapEnd(t)
               \/ KmapFinish(t) \/ Access(t) \/ Release(t)

InstNext ==
  \/ \E t \in InstThreads : InstStep(t)
  \/ \E t \in Users : Use(t) \/ New(t) \/ Dtor(t)
  \/ Boot \/ Suspend \/ PmNext \/ PmTurn

InstSpec == InstInit /\ [][InstNext]_instVars

-----------------------------------------------------------------------------
(* Properties.                                                             *)

\* Whoever holds an object reaches that object: the accessors lead to it, and so
\* does the pointer it was given, if it was given one, although other threads evict,
\* map, and move the window meanwhile, and while suspend and resume take BAR2 and
\* its page table away.
AccessHits ==
  \A t \in InstThreads :
    InstAt(t, "held") =>
      /\ Reached(thr[t].o) = thr[t].o
      /\ thr[t].slot # NoSlot => Via(thr[t].slot) = thr[t].o

\* No room in BAR2 is leaked or used twice: a slot is free, or it belongs to one
\* object, which its page table entry names when BAR2 is up, or to one thread
\* under way; an object that keeps its mapping unused can be evicted, once,
\* unless it is excluded.
SlotsAccounted ==
  /\ \A s \in Slots :
       Cardinality({o \in AllObjs : bar[o] = s})
         + Cardinality({t \in InstThreads : thr[t].slot = s /\ thr[t].pc \notin {"held", "release"}})
         + (IF s \in slots THEN 1 ELSE 0) = 1
  /\ \A o \in objs : bar[o] # NoSlot /\ bar2 => pte[bar[o]] = o
  /\ \A o \in AllObjs :
       Cardinality({i \in DOMAIN lru : lru[i] = o})
         = IF bar[o] # NoSlot /\ maps[o] = 0 /\ evictable[o] THEN 1 ELSE 0

\* After resume, and after a suspend that was given up, every object holds what
\* it held.
ContentsRestored == power = "run" => lost = {} /\ saved = {}

\* The address that nv50_instobj_bar2 returned stays that of the object: the
\* hardware goes on using it.
PinnedStays ==
  [][\A o \in AllObjs : ~evictable[o] /\ bar[o] # NoSlot /\ o \in objs' => bar'[o] = bar[o]]_instVars
=============================================================================
