-------------------------- MODULE ProvisionerProofs --------------------------
(***************************************************************************)
(* Provisioner, for any items, volume groups and sizes and for any number  *)
(* of helpers, failures and kills: an acknowledged volume keeps its LV, a  *)
(* deleted one has none, an acknowledged clone is complete, and a rollback *)
(* removes what a timed-out creation of the pool has left.  A step changes *)
(* a volume group in one of six ways (Change); what it leaves of the other *)
(* LVs follows from the shape of the volume groups (ShapeInv).             *)
(***************************************************************************)
EXTENDS Provisioner, TLAPS

LVMaybe == LV \cup {NoLV}

-----------------------------------------------------------------------------
(* Types.                                                                  *)

\* What the CO asks for is well typed, and lvcreate -s has its source beside it.
LEMMA InfoTypes ==
    ASSUME Info \in Infos, NEW i \in Items
    PROVE  /\ vg(i) \in VGs /\ Info[i].size \in Sizes
           /\ Info[i].kind \in {"volume", "snapshot"}
           /\ Info[i].source \in Items \cup {None} /\ Info[i].source # i
           /\ IsClone(i) => Info[i].source \in Items
           /\ Snaps(i) => /\ Info[i].source \in Items
                          /\ vg(Info[i].source) = vg(i)
                          /\ Thin(Info[i].source) = Thin(i)
<1>1. Info \in [Items -> ItemInfo] /\ Info[i] \in ItemInfo
  BY InfosAssumption
<1>2. /\ Info[i].vg \in VGs /\ Info[i].size \in Sizes
      /\ Info[i].kind \in {"volume", "snapshot"} /\ Info[i].source \in Items \cup {None}
  BY <1>1 DEF ItemInfo
<1>3. /\ Info[i].source # i
      /\ Info[i].kind = "snapshot" =>
            /\ Info[i].source \in Items
            /\ Info[Info[i].source].vg = Info[i].vg
            /\ Info[Info[i].source].type = Info[i].type
  BY InfosAssumption
<1>4. IsClone(i) => Info[i].source \in Items
  BY <1>2 DEF IsClone
<1>5. Snaps(i) => /\ Info[i].source \in Items
                  /\ vg(Info[i].source) = vg(i)
                  /\ Thin(Info[i].source) = Thin(i)
  BY <1>3, <1>4 DEF Snaps, FastClone, vg, Thin
<1>. QED
  BY <1>2, <1>3, <1>4, <1>5 DEF vg

\* Nothing changes what is asked for.
LEMMA InfoKept ==
    ASSUME UNCHANGED Info
    PROVE  \A i \in Items :
              /\ vg(i)' = vg(i) /\ Thin(i)' = Thin(i) /\ IsClone(i)' = IsClone(i)
              /\ Snaps(i)' = Snaps(i) /\ MayBeStale(i)' = MayBeStale(i)
BY DEF vg, Thin, IsClone, Snaps, FastClone, MayBeStale, SourceChanges

\* The pool as prepareThinPool and the rollback find it.
LEMMA PoolTypes ==
    /\ PoolLV("linear") \in LV /\ PoolLV("thin-pool") \in LV
    /\ PoolLV("linear").seg = "linear" /\ PoolLV("thin-pool").seg = "thin-pool"
    /\ PoolLV("linear").origin = None /\ PoolLV("thin-pool").origin = None
    /\ PoolLV("linear") # NoLV /\ PoolLV("thin-pool") # NoLV
    /\ PoolLV("linear") # PoolLV("thin-pool")
<1>1. PoolLV("linear") \in LV /\ PoolLV("thin-pool") \in LV
  BY DEF PoolLV, LV, Whole, Aspects
<1>2. /\ PoolLV("linear").seg = "linear" /\ PoolLV("thin-pool").seg = "thin-pool"
      /\ PoolLV("linear").origin = None /\ PoolLV("thin-pool").origin = None
  BY DEF PoolLV
<1>. QED
  BY <1>1, <1>2, NoLVAssumption

LEMMA LVTypes ==
    ASSUME TypeOK, NEW i \in Items
    PROVE  /\ lv(i) \in LVMaybe /\ pool(i) \in LVMaybe
           /\ \A g \in VGs, n \in LVNames : lvs[g][n] \in LVMaybe
BY InfoTypes DEF TypeOK, lv, pool, LVNames, LVMaybe

\* A volume that was just made.
LEMMA NewTypes ==
    ASSUME TypeOK, NEW i \in Items, NEW c \in Fresh(i)
    PROVE  /\ NewLV(i, c) \in LV /\ NewLV(i, c) # NoLV
           /\ NewLV(i, c).seg = IF Thin(i) THEN "thin" ELSE "striped"
           /\ NewLV(i, c).origin = None /\ NewLV(i, c).content = c
           /\ ~IsClone(i) => "data" \in c
           /\ ~IsClone(i) \/ Thin(i) => "zeros" \in c
<1>1. /\ c \subseteq Aspects
      /\ ~IsClone(i) => "data" \in c
      /\ ~IsClone(i) \/ Thin(i) => "zeros" \in c
  BY DEF Fresh, Whole, Aspects
<1>2. NewLV(i, c) \in LV
  BY <1>1, InfoTypes DEF NewLV, LV, TypeOK
<1>3. /\ NewLV(i, c).seg = IF Thin(i) THEN "thin" ELSE "striped"
      /\ NewLV(i, c).origin = None /\ NewLV(i, c).content = c
  BY DEF NewLV
<1>. QED
  BY <1>1, <1>2, <1>3, NoLVAssumption

\* A clone that was written to.
LEMMA WriteTypes ==
    ASSUME NEW v \in LV, NEW c \in SUBSET Aspects
    PROVE  LET w == [v EXCEPT !.content = c]
           IN  /\ w \in LV /\ w # NoLV
               /\ w.seg = v.seg /\ w.origin = v.origin /\ w.content = c
<1>. DEFINE w == [v EXCEPT !.content = c]
<1>1. w \in LV /\ w.seg = v.seg /\ w.origin = v.origin /\ w.content = c
  BY DEF LV
<1>. QED
  BY <1>1, NoLVAssumption

\* A snapshot or a fast clone that was just made.
LEMMA SnapTypes ==
    ASSUME TypeOK, NEW i \in Items, Snaps(i), CanSnap(i)
    PROVE  /\ SnapLV(i) \in LV /\ SnapLV(i) # NoLV
           /\ SnapLV(i).seg = lv(Info[i].source).seg
           /\ SnapLV(i).content = Whole
<1>1. Info[i].source \in Items /\ Info[i].size \in Sizes
  BY InfoTypes DEF TypeOK
<1>2. lv(Info[i].source) \in LV
  BY <1>1, LVTypes DEF CanSnap, LVMaybe
<1>3. /\ lv(Info[i].source).seg \in {"striped", "linear", "thin", "thin-pool"}
      /\ lv(Info[i].source).size \in Sizes \cup {0}
  BY <1>2 DEF LV
<1>4. SnapLV(i) \in LV
  BY <1>1, <1>3 DEF SnapLV, LV, Whole, Aspects
<1>5. SnapLV(i).seg = lv(Info[i].source).seg /\ SnapLV(i).content = Whole
  BY DEF SnapLV
<1>. QED
  BY <1>4, <1>5, NoLVAssumption

\* One LV of one volume group is made or written.
LEMMA PutEffect ==
    ASSUME TypeOK, NEW g \in VGs, NEW n \in LVNames, NEW v \in LVMaybe, Put(g, n, v)
    PROVE  /\ lvs' \in [VGs -> [LVNames -> LVMaybe]]
           /\ \A h \in VGs, m \in LVNames :
                 lvs'[h][m] = IF h = g /\ m = n THEN v ELSE lvs[h][m]
<1>1. lvs \in [VGs -> [LVNames -> LVMaybe]] /\ lvs[g] \in [LVNames -> LVMaybe]
  BY DEF TypeOK, LVMaybe
<1>. DEFINE f == [lvs[g] EXCEPT ![n] = v]
<1>2. lvs' = [lvs EXCEPT ![g] = f]
  BY DEF Put
<1>3. f \in [LVNames -> LVMaybe] /\ \A m \in LVNames : f[m] = IF m = n THEN v ELSE lvs[g][m]
  BY <1>1
<1>. HIDE DEF f
<1>. QED
  BY <1>1, <1>2, <1>3

\* lvremove -y takes dependents along; what it leaves may lose its origin.
LEMMA RemoveEffect ==
    ASSUME TypeOK, NEW g \in VGs, NEW n \in LVNames, lvremove(g, n)
    PROVE  /\ lvs' \in [VGs -> [LVNames -> LVMaybe]]
           /\ \A h \in VGs, m \in LVNames :
                 lvs'[h][m] = IF h # g THEN lvs[h][m]
                              ELSE IF Removed(g, n, m) THEN NoLV ELSE Orphaned(lvs[g][m], n)
<1>1. lvs \in [VGs -> [LVNames -> LVMaybe]] /\ \A m \in LVNames : lvs[g][m] \in LVMaybe
  BY DEF TypeOK, LVMaybe
<1>2. \A m \in LVNames : Orphaned(lvs[g][m], n) \in LVMaybe
  <2>. SUFFICES ASSUME NEW v \in LV PROVE [v EXCEPT !.origin = None] \in LV
    BY <1>1 DEF Orphaned, LVMaybe
  <2>. QED
    BY DEF LV
<1>. DEFINE f == [m \in LVNames |-> IF Removed(g, n, m) THEN NoLV ELSE Orphaned(lvs[g][m], n)]
<1>3. lvs' = [lvs EXCEPT ![g] = f]
  BY DEF lvremove
<1>4. f \in [LVNames -> LVMaybe]
  BY <1>2 DEF LVMaybe
<1>5. \A m \in LVNames : f[m] = IF Removed(g, n, m) THEN NoLV ELSE Orphaned(lvs[g][m], n)
  OBVIOUS
<1>. HIDE DEF f
<1>6. lvs' \in [VGs -> [LVNames -> LVMaybe]]
  BY <1>1, <1>3, <1>4
<1>7. \A h \in VGs, m \in LVNames : lvs'[h][m] = IF h = g THEN f[m] ELSE lvs[h][m]
  BY <1>1, <1>3
<1>. QED
  BY <1>5, <1>6, <1>7

\* An orphan is the LV it was but for its origin.
LEMMA OrphanIs ==
    ASSUME NEW v \in LVMaybe, NEW n
    PROVE  /\ (Orphaned(v, n) = NoLV) = (v = NoLV)
           /\ v # NoLV => /\ Orphaned(v, n).seg = v.seg
                          /\ Orphaned(v, n).content = v.content
                          /\ Orphaned(v, n).origin \in {v.origin, None}
<1>1. CASE v = NoLV
  BY <1>1 DEF Orphaned
<1>2. ASSUME v # NoLV PROVE v \in LV /\ [v EXCEPT !.origin = None] \in LV
  BY <1>2 DEF LVMaybe, LV
<1>3. CASE v # NoLV
  <2>1. [v EXCEPT !.origin = None] # NoLV
    BY <1>2, <1>3, NoLVAssumption
  <2>2. LET w == [v EXCEPT !.origin = None]
        IN  w.seg = v.seg /\ w.content = v.content /\ w.origin = None
    BY <1>2, <1>3 DEF LV
  <2>. QED
    BY <1>3, <2>1, <2>2 DEF Orphaned
<1>. QED
  BY <1>1, <1>3

-----------------------------------------------------------------------------
(* What a step changes.                                                    *)

\* What a copy may make of the content of its target.
Rewrites(i, c) ==
    /\ lv(i).content \ c \subseteq {"zeros"}
    /\ "zeros" \in lv(i).content \ c => SourceChanges(i)

\* The commands that change a volume group, whether they end well or not.
Change(i) ==
    \/ lvs' = lvs
    \/ /\ pc[i] = "mkpool" /\ pool(i) = NoLV
       /\ \E s \in {"linear", "thin-pool"} : Put(vg(i), Pool, PoolLV(s))
    \/ /\ pc[i] = "lvcreate" /\ CanCreate(i)
       /\ \E c \in Fresh(i) : Put(vg(i), i, NewLV(i, c))
    \/ pc[i] = "snapcreate" /\ CanSnap(i) /\ Put(vg(i), i, SnapLV(i))
    \/ /\ pc[i] = "copying" /\ lv(i) # NoLV
       /\ \E c \in SUBSET Aspects : Write(i, c) /\ Rewrites(i, c)
    \/ pc[i] = "remove" /\ lvremove(vg(i), i)
    \/ pc[i] \in {"poolremove", "rbremove"} /\ lvremove(vg(i), Pool)

LEMMA CutShortChanges ==
    ASSUME TypeOK, NEW i \in Items, CutShort(i)
    PROVE  Change(i)
<1>1. CASE CopyStops(i)
  <2>1. lv(i).content \subseteq Aspects
    BY <1>1, LVTypes DEF CopyStops, LVMaybe, LV
  <2>2. /\ pc[i] = "copying" /\ lv(i) # NoLV /\ SourceChanges(i)
        /\ Write(i, lv(i).content \ {"zeros"})
    BY <1>1 DEF CopyStops
  <2>3. lv(i).content \ {"zeros"} \in SUBSET Aspects /\ Rewrites(i, lv(i).content \ {"zeros"})
    BY <2>1, <2>2 DEF Rewrites
  <2>. QED
    BY <2>2, <2>3, Zenon DEF Change
<1>2. CASE ~CopyStops(i)
  BY <1>2, Zenon DEF CutShort, Change
<1>. QED
  BY <1>1, <1>2

\* Every step of a helper is one of these changes.
LEMMA StepChanges ==
    ASSUME TypeOK, NEW i \in Items, HelperStep(i) \/ CommandFails(i) \/ Kill(i)
    PROVE  Change(i)
<1>1. CASE CommandFails(i) \/ Kill(i)
  <2>1. UNCHANGED lvs \/ CutShort(i)
    BY <1>1, Zenon DEF CommandFails, Kill
  <2>. QED
    BY <2>1, CutShortChanges DEF Change
<1>2. CASE CreatePool(i)
  <2>1. pc[i] = "mkpool"
    BY <1>2 DEF CreatePool
  <2>2. ASSUME Put(vg(i), Pool, pool(i)) PROVE lvs' = lvs
    <3>1. lvs \in [VGs -> [LVNames -> LVMaybe]] /\ vg(i) \in VGs /\ Pool \in LVNames
      BY InfoTypes DEF TypeOK, LVMaybe, LVNames
    <3>2. [lvs[vg(i)] EXCEPT ![Pool] = lvs[vg(i)][Pool]] = lvs[vg(i)]
      BY <3>1
    <3>. QED
      BY <2>2, <3>1, <3>2 DEF Put, pool
  <2>3. CASE UNCHANGED lvs
    BY <2>3 DEF Change
  <2>4. CASE pool(i) = NoLV /\ Put(vg(i), Pool, PoolLV("thin-pool"))
    BY <2>1, <2>4 DEF Change
  <2>5. ASSUME NEW v \in IF pool(i) = NoLV THEN {NoLV, PoolLV("linear"), PoolLV("thin-pool")}
                         ELSE {pool(i)},
               Put(vg(i), Pool, v)
        PROVE  Change(i)
    <3>1. CASE v = pool(i)
      BY <2>2, <2>5, <3>1 DEF Change
    <3>2. CASE pool(i) = NoLV /\ v \in {PoolLV("linear"), PoolLV("thin-pool")}
      BY <2>1, <2>5, <3>2 DEF Change
    <3>. QED
      BY <3>1, <3>2
  <2>. QED
    BY <1>2, <2>3, <2>4, <2>5 DEF CreatePool
<1>3. CASE \/ Lookup(i) \/ PreparePool(i) \/ CheckPool(i) \/ RollbackLookup(i) \/ OpenSource(i)
           \/ SnapSource(i) \/ SnapLookup(i) \/ RemoveLookup(i) \/ CountThin(i) \/ PoolLookup(i)
  <2>1. UNCHANGED lvs
    BY <1>3, Zenon DEF Lookup, PreparePool, CheckPool, RollbackLookup, OpenSource, SnapSource,
       SnapLookup, RemoveLookup, CountThin, PoolLookup
  <2>. QED
    BY <2>1 DEF Change
<1>4. CASE RollbackRemove(i) \/ PoolRemove(i)
  <2>1. /\ pc[i] \in {"poolremove", "rbremove"}
        /\ UNCHANGED lvs \/ lvremove(vg(i), Pool)
    BY <1>4 DEF RollbackRemove, PoolRemove
  <2>. QED
    BY <2>1, Zenon DEF Change
<1>5. CASE CreateLV(i)
  BY <1>5, Zenon DEF CreateLV, Change
<1>6. CASE SnapCreate(i)
  BY <1>6, Zenon DEF SnapCreate, Change
<1>7. CASE CopyDone(i)
  <2>1. pc[i] = "copying"
    BY <1>7 DEF CopyDone
  <2>2. ASSUME NEW a \in {"data", "torn"}, lv(i) # NoLV, Write(i, lv(i).content \cup {a})
        PROVE  Change(i)
    <3>1. lv(i).content \subseteq Aspects
      BY <2>2, LVTypes DEF LVMaybe, LV
    <3>2. lv(i).content \cup {a} \in SUBSET Aspects /\ Rewrites(i, lv(i).content \cup {a})
      BY <3>1 DEF Rewrites, Aspects
    <3>. QED
      BY <2>1, <2>2, <3>2, Zenon DEF Change
  <2>3. CASE UNCHANGED lvs
    BY <2>3 DEF Change
  <2>. QED
    BY <1>7, <2>2, <2>3 DEF CopyDone
<1>8. CASE Remove(i)
  BY <1>8, Zenon DEF Remove, Change
<1>. QED
  BY <1>1, <1>2, <1>3, <1>4, <1>5, <1>6, <1>7, <1>8, Zenon DEF HelperStep

\* What becomes of the pool of g in a step of i's helper.
PoolEffect(i, g) ==
    \/ lvs'[g][Pool] = lvs[g][Pool]
    \/ /\ lvs'[g][Pool] = NoLV /\ g = vg(i) /\ pc[i] \in {"poolremove", "rbremove"}
       /\ \A n \in Items : Thin(n) => lvs'[g][n] = NoLV
    \/ /\ lvs[g][Pool] = NoLV /\ g = vg(i) /\ pc[i] = "mkpool"
       /\ lvs'[g][Pool] \in {PoolLV("linear"), PoolLV("thin-pool")}

Taken(i, g, n) ==
    /\ lvs'[g][n] = NoLV /\ g = vg(i)
    /\ \/ n = i /\ pc[i] = "remove"
       \/ Thin(n) /\ pc[i] \in {"poolremove", "rbremove"}
       \/ ~Thin(n) /\ Info[n].kind = "snapshot"

Touched(g, n) ==
    /\ lvs[g][n] # NoLV /\ lvs'[g][n] # NoLV
    /\ lvs'[g][n].seg = lvs[g][n].seg
    /\ lvs'[g][n].origin \in {lvs[g][n].origin, None}
    /\ Ended(lvs[g][n]) => Ended(lvs'[g][n])
    /\ "zeros" \in lvs[g][n].content \ lvs'[g][n].content => MayBeStale(n)

Made(i, g, n) ==
    /\ n = i /\ g = vg(i) /\ pc[i] \in {"lvcreate", "snapcreate"}
    /\ lvs[g][n] = NoLV /\ lvs'[g][n] # NoLV
    /\ lvs'[g][n].seg = IF Thin(n) THEN "thin" ELSE "striped"
    /\ Thin(n) => lvs[g][Pool] = PoolLV("thin-pool")
    /\ ~Thin(n) /\ Info[n].kind = "volume" => lvs'[g][n].origin = None
    /\ Ended(lvs'[g][n]) \/ (IsClone(n) /\ ~Snaps(n))
    /\ "zeros" \in lvs'[g][n].content \/ MayBeStale(n)

\* What becomes of the LV of n in g.
ItemEffect(i, g, n) ==
    lvs'[g][n] = lvs[g][n] \/ Taken(i, g, n) \/ Touched(g, n) \/ Made(i, g, n)

\* No other LV than the pool's own thin volumes depends on the pool, only thick
\* snapshots depend on an item, and the pool depends on nothing.
LEMMA RemovedOnly ==
    ASSUME TypeOK, ShapeInv, NEW g \in VGs, NEW m \in LVNames, NEW n \in LVNames,
           Removed(g, n, m), m # n
    PROVE  /\ m \in Items
           /\ n = Pool => Thin(m)
           /\ n # Pool => ~Thin(m) /\ Info[m].kind = "snapshot"
<1>1. lvs[g][m] # NoLV /\ lvs[g][m] \in LV
  BY DEF Removed, TypeOK
<1>2. lvs[g][m].origin \in Items \cup {None}
  BY <1>1 DEF LV
<1>3. CASE m = Pool
  <2>1. lvs[g][m].seg # "striped"
    BY <1>1, <1>3, PoolTypes DEF ShapeInv
  <2>. QED
    BY <1>3, <2>1 DEF Removed
<1>4. CASE m \in Items
  <2>1. /\ lvs[g][m].seg = IF Thin(m) THEN "thin" ELSE "striped"
        /\ ~Thin(m) /\ Info[m].kind = "volume" => lvs[g][m].origin = None
    BY <1>1, <1>4 DEF ShapeInv
  <2>2. Info[m].kind \in {"volume", "snapshot"}
    BY <1>4, InfoTypes DEF TypeOK
  <2>3. CASE n = Pool
    BY <1>2, <1>4, <2>1, <2>3, ItemsAssumption DEF Removed
  <2>4. CASE n # Pool
    <3>1. lvs[g][m].origin = n /\ lvs[g][m].seg = "striped"
      BY <2>4 DEF Removed
    <3>2. n # None
      BY <2>4, ItemsAssumption DEF LVNames
    <3>. QED
      BY <1>4, <2>1, <2>2, <2>4, <3>1, <3>2
  <2>. QED
    BY <2>3, <2>4
<1>. QED
  BY <1>3, <1>4 DEF LVNames

\* lvremove of an item's LV or of the pool.
LEMMA RemoveEffects ==
    ASSUME TypeOK, ShapeInv, NEW i \in Items, NEW n \in LVNames, lvremove(vg(i), n),
           \/ pc[i] = "remove" /\ n = i
           \/ pc[i] \in {"poolremove", "rbremove"} /\ n = Pool
    PROVE  /\ lvs' \in [VGs -> [LVNames -> LVMaybe]]
           /\ \A g \in VGs : PoolEffect(i, g)
           /\ \A g \in VGs, m \in Items : ItemEffect(i, g, m)
<1>0. vg(i) \in VGs
  BY InfoTypes DEF TypeOK
<1>1. /\ lvs' \in [VGs -> [LVNames -> LVMaybe]]
      /\ \A h \in VGs, m \in LVNames :
            lvs'[h][m] = IF h # vg(i) THEN lvs[h][m]
                         ELSE IF Removed(h, n, m) THEN NoLV ELSE Orphaned(lvs[h][m], n)
  BY <1>0, RemoveEffect
<1>2. ASSUME NEW g \in VGs, NEW m \in Items PROVE ItemEffect(i, g, m)
  <2>0. m \in LVNames /\ m # Pool /\ lvs[g][m] \in LVMaybe
    BY LVTypes, ItemsAssumption DEF LVNames
  <2>1. CASE g # vg(i)
    BY <1>1, <2>0, <2>1 DEF ItemEffect
  <2>2. CASE g = vg(i) /\ Removed(g, n, m)
    <3>1. lvs'[g][m] = NoLV
      BY <1>1, <2>0, <2>2
    <3>2. m # n => (n = Pool => Thin(m)) /\ (n # Pool => ~Thin(m) /\ Info[m].kind = "snapshot")
      BY <2>0, <2>2, RemovedOnly
    <3>. QED
      BY <2>0, <2>2, <3>1, <3>2, ItemsAssumption DEF ItemEffect, Taken
  <2>3. CASE g = vg(i) /\ ~Removed(g, n, m)
    <3>1. lvs'[g][m] = Orphaned(lvs[g][m], n)
      BY <1>1, <2>0, <2>3
    <3>2. CASE lvs[g][m] = NoLV
      BY <2>0, <3>1, <3>2, OrphanIs DEF ItemEffect
    <3>3. CASE lvs[g][m] # NoLV
      BY <2>0, <3>1, <3>3, OrphanIs DEF ItemEffect, Touched, Ended
    <3>. QED
      BY <3>2, <3>3
  <2>. QED
    BY <2>1, <2>2, <2>3
<1>3. ASSUME NEW g \in VGs PROVE PoolEffect(i, g)
  <2>0. Pool \in LVNames /\ Pool \notin Items
    BY ItemsAssumption DEF LVNames
  <2>1. CASE g # vg(i)
    BY <1>1, <2>0, <2>1 DEF PoolEffect
  <2>2. CASE g = vg(i) /\ n # Pool
    <3>1. ~Removed(g, n, Pool)
      BY <2>0, <2>2, RemovedOnly
    <3>2. lvs'[g][Pool] = Orphaned(lvs[g][Pool], n)
      BY <1>1, <2>0, <2>2, <3>1
    <3>3. lvs[g][Pool] # NoLV => lvs[g][Pool].origin = None
      BY PoolTypes DEF ShapeInv
    <3>4. n # None
      BY <2>2, ItemsAssumption DEF LVNames
    <3>. QED
      BY <3>2, <3>3, <3>4 DEF Orphaned, PoolEffect
  <2>3. CASE g = vg(i) /\ n = Pool
    <3>1. lvs'[g][Pool] = NoLV
      <4>1. CASE lvs[g][Pool] = NoLV
        BY <1>1, <2>0, <2>3, <4>1 DEF Orphaned
      <4>2. CASE lvs[g][Pool] # NoLV
        BY <1>1, <2>0, <2>3, <4>2 DEF Removed
      <4>. QED
        BY <4>1, <4>2
    <3>2. ASSUME NEW m \in Items, Thin(m) PROVE lvs'[g][m] = NoLV
      <4>0. m \in LVNames
        BY DEF LVNames
      <4>1. CASE lvs[g][m] = NoLV
        BY <1>1, <2>3, <4>0, <4>1 DEF Orphaned
      <4>2. CASE lvs[g][m] # NoLV
        <5>1. Removed(g, n, m)
          BY <2>3, <3>2, <4>2 DEF ShapeInv, Removed
        <5>. QED
          BY <1>1, <2>3, <4>0, <5>1
      <4>. QED
        BY <4>1, <4>2
    <3>3. pc[i] \in {"poolremove", "rbremove"}
      BY <2>0, <2>3
    <3>. QED
      BY <2>3, <3>1, <3>2, <3>3 DEF PoolEffect
  <2>. QED
    BY <2>1, <2>2, <2>3
<1>. QED
  BY <1>1, <1>2, <1>3

\* lvcreate and the end of a copy change one LV.
LEMMA PutEffects ==
    ASSUME TypeOK, NEW i \in Items, NEW v \in LVMaybe, Put(vg(i), i, v),
           ItemEffect(i, vg(i), i)
    PROVE  /\ lvs' \in [VGs -> [LVNames -> LVMaybe]]
           /\ \A g \in VGs : PoolEffect(i, g)
           /\ \A g \in VGs, m \in Items : ItemEffect(i, g, m)
<1>0. vg(i) \in VGs /\ i \in LVNames /\ Pool \in LVNames /\ i # Pool
  BY InfoTypes, ItemsAssumption DEF TypeOK, LVNames
<1>1. /\ lvs' \in [VGs -> [LVNames -> LVMaybe]]
      /\ \A h \in VGs, m \in LVNames :
            lvs'[h][m] = IF h = vg(i) /\ m = i THEN v ELSE lvs[h][m]
  BY <1>0, PutEffect
<1>2. ASSUME NEW g \in VGs PROVE PoolEffect(i, g)
  BY <1>0, <1>1 DEF PoolEffect
<1>3. ASSUME NEW g \in VGs, NEW m \in Items PROVE ItemEffect(i, g, m)
  <2>0. m \in LVNames
    BY DEF LVNames
  <2>1. CASE g = vg(i) /\ m = i
    BY <2>1
  <2>2. CASE ~(g = vg(i) /\ m = i)
    BY <1>1, <2>0, <2>2 DEF ItemEffect
  <2>. QED
    BY <2>1, <2>2
<1>. QED
  BY <1>1, <1>2, <1>3

\* All changes, LV by LV.
LEMMA Effects ==
    ASSUME TypeOK, ControlInv, ShapeInv, NEW i \in Items, Change(i)
    PROVE  /\ lvs' \in [VGs -> [LVNames -> LVMaybe]]
           /\ \A g \in VGs : PoolEffect(i, g)
           /\ \A g \in VGs, m \in Items : ItemEffect(i, g, m)
<1>0. /\ vg(i) \in VGs /\ i \in LVNames /\ Pool \in LVNames /\ i # Pool
      /\ lvs \in [VGs -> [LVNames -> LVMaybe]]
  BY InfoTypes, ItemsAssumption DEF TypeOK, LVNames, LVMaybe
<1>1. CASE lvs' = lvs
  BY <1>0, <1>1 DEF PoolEffect, ItemEffect
<1>2. ASSUME pc[i] = "mkpool", pool(i) = NoLV,
             NEW s \in {"linear", "thin-pool"}, Put(vg(i), Pool, PoolLV(s))
      PROVE  /\ lvs' \in [VGs -> [LVNames -> LVMaybe]]
             /\ \A g \in VGs : PoolEffect(i, g)
             /\ \A g \in VGs, m \in Items : ItemEffect(i, g, m)
  <2>1. PoolLV(s) \in {PoolLV("linear"), PoolLV("thin-pool")} /\ PoolLV(s) \in LVMaybe
    BY PoolTypes DEF LVMaybe
  <2>2. /\ lvs' \in [VGs -> [LVNames -> LVMaybe]]
        /\ \A h \in VGs, m \in LVNames :
              lvs'[h][m] = IF h = vg(i) /\ m = Pool THEN PoolLV(s) ELSE lvs[h][m]
    BY <1>0, <1>2, <2>1, PutEffect
  <2>3. ASSUME NEW g \in VGs PROVE PoolEffect(i, g)
    BY <1>0, <1>2, <2>1, <2>2 DEF PoolEffect, pool
  <2>4. ASSUME NEW g \in VGs, NEW m \in Items PROVE ItemEffect(i, g, m)
    BY <2>2, ItemsAssumption DEF ItemEffect, LVNames
  <2>. QED
    BY <2>2, <2>3, <2>4
<1>3. ASSUME pc[i] = "lvcreate", CanCreate(i),
             NEW c \in Fresh(i), Put(vg(i), i, NewLV(i, c))
      PROVE  /\ lvs' \in [VGs -> [LVNames -> LVMaybe]]
             /\ \A g \in VGs : PoolEffect(i, g)
             /\ \A g \in VGs, m \in Items : ItemEffect(i, g, m)
  <2>1. NewLV(i, c) \in LVMaybe
    BY NewTypes DEF LVMaybe
  <2>2. lvs'[vg(i)][i] = NewLV(i, c)
    BY <1>0, <1>3, <2>1, PutEffect
  <2>3. Thin(i) => lvs[vg(i)][Pool] = PoolLV("thin-pool")
    BY <1>0, <1>3, PoolTypes DEF ShapeInv, CanCreate, pool
  <2>4. ~Snaps(i)
    BY <1>3 DEF ControlInv, OnCourse
  <2>5. lvs[vg(i)][i] = NoLV
    BY <1>3 DEF CanCreate, lv
  <2>7. /\ Ended(NewLV(i, c)) \/ (IsClone(i) /\ ~Snaps(i))
        /\ "zeros" \in NewLV(i, c).content \/ MayBeStale(i)
    BY <2>4, NewTypes DEF Ended, MayBeStale
  <2>6. Made(i, vg(i), i)
    BY <1>3, <2>2, <2>3, <2>5, <2>7, NewTypes DEF Made
  <2>. QED
    BY <1>3, <2>1, <2>6, PutEffects DEF ItemEffect
<1>4. CASE pc[i] = "snapcreate" /\ CanSnap(i) /\ Put(vg(i), i, SnapLV(i))
  <2>. DEFINE source == Info[i].source
  <2>1. Snaps(i)
    BY <1>4 DEF ControlInv, OnCourse
  <2>2. source \in Items /\ vg(source) = vg(i) /\ Thin(source) = Thin(i)
    BY <2>1, InfoTypes DEF TypeOK
  <2>3. SnapLV(i) \in LVMaybe
    BY <1>4, <2>1, SnapTypes DEF LVMaybe
  <2>4. lvs'[vg(i)][i] = SnapLV(i)
    BY <1>0, <1>4, <2>3, PutEffect
  <2>5. lvs[vg(i)][i] = NoLV /\ lvs[vg(i)][source] # NoLV /\ lv(source) = lvs[vg(i)][source]
    BY <1>4, <2>2 DEF CanSnap, lv
  <2>6. /\ lvs[vg(i)][source].seg = IF Thin(i) THEN "thin" ELSE "striped"
        /\ Thin(i) => lvs[vg(i)][Pool] = PoolLV("thin-pool")
    BY <1>0, <2>2, <2>5 DEF ShapeInv
  <2>7. /\ SnapLV(i) # NoLV /\ Ended(SnapLV(i)) /\ "zeros" \in SnapLV(i).content
        /\ SnapLV(i).seg = IF Thin(i) THEN "thin" ELSE "striped"
    BY <1>4, <2>1, <2>5, <2>6, SnapTypes DEF Ended, Whole
  <2>8. ~Thin(i) => Info[i].kind = "snapshot"
    BY <2>1 DEF Snaps, FastClone
  <2>9. Made(i, vg(i), i)
    BY <1>4, <2>4, <2>5, <2>6, <2>7, <2>8 DEF Made
  <2>. QED
    BY <1>4, <2>3, <2>9, PutEffects DEF ItemEffect
<1>5. ASSUME pc[i] = "copying", lv(i) # NoLV,
             NEW c \in SUBSET Aspects, Write(i, c), Rewrites(i, c)
      PROVE  /\ lvs' \in [VGs -> [LVNames -> LVMaybe]]
             /\ \A g \in VGs : PoolEffect(i, g)
             /\ \A g \in VGs, m \in Items : ItemEffect(i, g, m)
  <2>. DEFINE w == [lv(i) EXCEPT !.content = c]
  <2>1. lv(i) \in LV /\ lv(i) = lvs[vg(i)][i]
    BY <1>5, LVTypes DEF LVMaybe, lv
  <2>2. w \in LV /\ w # NoLV /\ w.seg = lv(i).seg /\ w.origin = lv(i).origin /\ w.content = c
    BY <2>1, WriteTypes
  <2>4. Put(vg(i), i, w)
    BY <1>5 DEF Write
  <2>. HIDE DEF w
  <2>3. w \in LVMaybe
    BY <2>2 DEF LVMaybe
  <2>5. lvs'[vg(i)][i] = w
    BY <1>0, <2>3, <2>4, PutEffect
  <2>7. IsClone(i) /\ ~Snaps(i)
    BY <1>5 DEF ControlInv, OnCourse
  <2>8. /\ Ended(lv(i)) => Ended(w)
        /\ "zeros" \in lv(i).content \ w.content => MayBeStale(i)
    BY <1>5, <2>2, <2>7 DEF Rewrites, Ended, MayBeStale
  <2>6. Touched(vg(i), i)
    BY <1>5, <2>1, <2>2, <2>5, <2>8 DEF Touched
  <2>. QED
    BY <2>3, <2>4, <2>6, PutEffects DEF ItemEffect
<1>6. CASE \/ pc[i] = "remove" /\ lvremove(vg(i), i)
           \/ pc[i] \in {"poolremove", "rbremove"} /\ lvremove(vg(i), Pool)
  BY <1>0, <1>6, RemoveEffects
<1>. QED
  BY <1>1, <1>2, <1>3, <1>4, <1>5, <1>6, Zenon DEF Change

-----------------------------------------------------------------------------
(* The invariants of the volume groups.                                    *)

Effect(i) ==
    /\ UNCHANGED Info
    /\ \A g \in VGs : PoolEffect(i, g)
    /\ \A g \in VGs, m \in Items : ItemEffect(i, g, m)

LEMMA ShapeStep ==
    ASSUME TypeOK, ControlInv, ShapeInv, NEW i \in Items, Effect(i)
    PROVE  ShapeInv'
<1>0. \A j \in Items : vg(j)' = vg(j) /\ Thin(j)' = Thin(j)
  BY InfoKept DEF Effect
<1>1. ASSUME NEW g \in VGs PROVE lvs'[g][Pool] \in {NoLV, PoolLV("linear"), PoolLV("thin-pool")}
  BY DEF ShapeInv, Effect, PoolEffect
<1>2. ASSUME NEW g \in VGs, NEW n \in Items, lvs'[g][n] # NoLV
      PROVE  /\ g = vg(n)
             /\ lvs'[g][n].seg = IF Thin(n) THEN "thin" ELSE "striped"
             /\ Thin(n) => lvs'[g][Pool] = PoolLV("thin-pool")
             /\ ~Thin(n) /\ Info[n].kind = "volume" => lvs'[g][n].origin = None
  <2>1. PoolEffect(i, g) /\ ItemEffect(i, g, n)
    BY DEF Effect
  <2>2. CASE lvs'[g][n] = lvs[g][n] \/ Touched(g, n)
    <3>1. /\ g = vg(n)
          /\ lvs[g][n].seg = IF Thin(n) THEN "thin" ELSE "striped"
          /\ Thin(n) => lvs[g][Pool] = PoolLV("thin-pool")
          /\ ~Thin(n) /\ Info[n].kind = "volume" => lvs[g][n].origin = None
      BY <1>2, <2>2 DEF ShapeInv, Touched
    <3>2. Thin(n) => lvs'[g][Pool] = PoolLV("thin-pool")
      BY <1>2, <2>1, <3>1, PoolTypes DEF PoolEffect
    <3>. QED
      BY <2>2, <3>1, <3>2 DEF Touched
  <2>3. CASE Made(i, g, n)
    <3>1. Thin(n) => lvs'[g][Pool] = PoolLV("thin-pool")
      BY <2>1, <2>3, PoolTypes DEF Made, PoolEffect
    <3>. QED
      BY <2>3, <3>1 DEF Made
  <2>. QED
    BY <1>2, <2>1, <2>2, <2>3 DEF ItemEffect, Taken
<1>3. UNCHANGED Info
  BY DEF Effect
<1>. QED
  BY <1>0, <1>1, <1>2, <1>3 DEF ShapeInv, PoolLV

-----------------------------------------------------------------------------
(* The control of a helper.                                                *)

Worker(i) == HelperStep(i) \/ CommandFails(i) \/ Kill(i)

\* A helper moves itself, and only its own item's life.
Moves(i) ==
    \E l \in PCs :
        /\ Goto(i, l)
        /\ \/ UNCHANGED life
           \/ life' = [life EXCEPT ![i] = IF @ = "new" THEN "ready" ELSE "gone"]

LEMMA WorkerMoves ==
    ASSUME NEW i \in Items, Worker(i)
    PROVE  Moves(i) /\ pc[i] # "off" /\ NoteRaced /\ UNCHANGED Info
<1>1. NoteRaced /\ UNCHANGED Info
  BY Zenon DEF Worker, HelperStep, CommandFails, Kill
<1>2. ASSUME NEW l \in PCs, Step(i, l) PROVE Moves(i)
  BY <1>2 DEF Step, Moves
<1>3. ASSUME ExitOK(i) \/ ExitFail(i) PROVE Moves(i)
  <2>1. "off" \in PCs
    BY DEF PCs
  <2>. QED
    BY <1>3, <2>1, Zenon DEF ExitOK, ExitFail, Moves
<1>4. \A l \in {"pool", "checkpool", "mkpool", "rblvs", "rbremove", "lvcreate", "lookup", "copying",
                "snaplvs", "snapcreate", "remove", "count", "poollvs", "poolremove"} : l \in PCs
  BY DEF PCs
<1>5. \/ ExitOK(i) \/ ExitFail(i)
      \/ \E l \in PCs : Step(i, l)
  <2>1. CASE CommandFails(i) \/ Kill(i)
    BY <2>1, Zenon DEF CommandFails, Kill
  <2>2. CASE Lookup(i) \/ CreateLV(i)
    BY <1>4, <2>2 DEF Lookup, CreateLV, Created
  <2>3. CASE PreparePool(i) \/ CheckPool(i) \/ CreatePool(i)
    BY <1>4, <2>3 DEF PreparePool, CheckPool, CreatePool
  <2>4. CASE RollbackLookup(i) \/ RollbackRemove(i) \/ OpenSource(i) \/ CopyDone(i)
    BY <1>4, <2>4 DEF RollbackLookup, RollbackRemove, OpenSource, CopyDone
  <2>5. CASE SnapSource(i) \/ SnapLookup(i) \/ SnapCreate(i)
    BY <1>4, <2>5 DEF SnapSource, SnapLookup, SnapCreate
  <2>6. CASE RemoveLookup(i) \/ Remove(i)
    BY <1>4, <2>6 DEF RemoveLookup, Remove, AfterRemove
  <2>7. CASE CountThin(i) \/ PoolLookup(i) \/ PoolRemove(i)
    BY <1>4, <2>7 DEF CountThin, PoolLookup, PoolRemove
  <2>. QED
    BY <2>1, <2>2, <2>3, <2>4, <2>5, <2>6, <2>7, Zenon DEF Worker, HelperStep
<1>6. pc[i] # "off"
  <2>1. CASE CommandFails(i) \/ Kill(i)
    BY <2>1, Zenon DEF CommandFails, Kill
  <2>2. CASE HelperStep(i)
    BY <2>2 DEF HelperStep, Lookup, PreparePool, CheckPool, CreatePool, RollbackLookup,
       RollbackRemove, CreateLV, OpenSource, CopyDone, SnapSource, SnapLookup, SnapCreate,
       RemoveLookup, Remove, CountThin, PoolLookup, PoolRemove
  <2>. QED
    BY <2>1, <2>2, Zenon DEF Worker
<1>. QED
  BY <1>1, <1>2, <1>3, <1>5, <1>6, Zenon

\* Everything a step of a helper does to the others, in one place.
LEMMA WorkerEffect ==
    ASSUME TypeOK, ControlInv, ShapeInv, NEW i \in Items, Worker(i)
    PROVE  /\ Effect(i)
           /\ lvs' \in [VGs -> [LVNames -> LVMaybe]]
           /\ pc' \in [Items -> PCs] /\ life' \in [Items -> Lives]
           /\ \A j \in Items \ {i} : pc'[j] = pc[j] /\ life'[j] = life[j]
           /\ \A j \in Items : vg(j)' = vg(j) /\ vg(j) \in VGs /\ lv(j)' = lvs'[vg(j)][j]
           /\ life[i] \in {"new", "deleting"}
<1>1. Moves(i) /\ pc[i] # "off" /\ UNCHANGED Info
  BY WorkerMoves
<1>2. Change(i)
  BY StepChanges DEF Worker
<1>3. Effect(i) /\ lvs' \in [VGs -> [LVNames -> LVMaybe]]
  BY <1>1, <1>2, Effects DEF Effect
<1>4. \A l : (IF l = "new" THEN "ready" ELSE "gone") \in Lives
  BY DEF Lives
<1>5. PICK l \in PCs :
          /\ pc' = [pc EXCEPT ![i] = l]
          /\ life' = life \/ life' = [life EXCEPT ![i] = IF life[i] = "new" THEN "ready" ELSE "gone"]
  BY <1>1 DEF Moves, Goto
<1>6. /\ pc' \in [Items -> PCs] /\ life' \in [Items -> Lives]
      /\ \A j \in Items \ {i} : pc'[j] = pc[j] /\ life'[j] = life[j]
  BY <1>4, <1>5 DEF TypeOK
<1>7. \A j \in Items : vg(j)' = vg(j) /\ vg(j) \in VGs /\ lv(j)' = lvs'[vg(j)][j]
  BY <1>1, InfoKept, InfoTypes DEF TypeOK, lv
<1>8. life[i] \in {"new", "deleting"}
  <2>1. pc[i] \in PCs /\ OnCourse(i)
    BY DEF TypeOK, ControlInv
  <2>. QED
    BY <1>1, <2>1 DEF OnCourse, PCs
<1>. QED
  BY <1>3, <1>6, <1>7, <1>8

\* An LV is made by its own item's helper, in lvcreate.
LEMMA OnlyOwnerMakes ==
    ASSUME TypeOK, ControlInv, ShapeInv, NEW i \in Items, Worker(i), NEW n \in Items,
           lv(n) = NoLV, lv(n)' # NoLV
    PROVE  n = i /\ pc[i] \in {"lvcreate", "snapcreate"}
<1>1. ItemEffect(i, vg(n), n) /\ lv(n)' = lvs'[vg(n)][n] /\ lv(n) = lvs[vg(n)][n]
  BY WorkerEffect DEF Effect, lv
<1>. QED
  BY <1>1 DEF ItemEffect, Taken, Touched, Made

\* What the LV of an item is after a step that writes, completes or removes it.
LEMMA OwnLV ==
    ASSUME TypeOK, ControlInv, ShapeInv, NEW i \in Items, Worker(i)
    PROVE  /\ \A v \in LVMaybe : Put(vg(i), i, v) => lv(i)' = v
           /\ CopyDone(i) /\ lv(i) # NoLV => lv(i)' # NoLV /\ Ended(lv(i)')
           /\ pc[i] = "remove" /\ lvremove(vg(i), i) => lv(i)' = NoLV
           /\ UNCHANGED lvs => lv(i)' = lv(i)
<1>0. vg(i) \in VGs /\ i \in LVNames /\ lv(i)' = lvs'[vg(i)][i] /\ lv(i) = lvs[vg(i)][i]
  BY WorkerEffect DEF LVNames, lv
<1>1. ASSUME NEW v \in LVMaybe, Put(vg(i), i, v) PROVE lv(i)' = v
  BY <1>0, <1>1, PutEffect
<1>4. CopyDone(i) /\ lv(i) # NoLV => lv(i)' # NoLV /\ Ended(lv(i)')
  <2>. SUFFICES ASSUME CopyDone(i), lv(i) # NoLV PROVE lv(i)' # NoLV /\ Ended(lv(i)')
    OBVIOUS
  <2>1. PICK a \in {"data", "torn"} : Write(i, lv(i).content \cup {a})
    BY DEF CopyDone
  <2>. DEFINE c == lv(i).content \cup {a}
              w == [lv(i) EXCEPT !.content = c]
  <2>2. lv(i) \in LV
    BY LVTypes DEF LVMaybe
  <2>3. c \in SUBSET Aspects
    BY <2>2 DEF LV, Aspects
  <2>4. w \in LV /\ w # NoLV /\ w.content = c
    BY <2>2, <2>3, WriteTypes
  <2>5. Put(vg(i), i, w)
    BY <2>1 DEF Write
  <2>6. a \in w.content
    BY <2>4
  <2>. HIDE DEF w
  <2>7. lv(i)' = w
    BY <1>1, <2>4, <2>5 DEF LVMaybe
  <2>. QED
    BY <2>4, <2>6, <2>7 DEF Ended
<1>5. ASSUME lvremove(vg(i), i) PROVE lv(i)' = NoLV
  <2>1. lv(i)' = IF Removed(vg(i), i, i) THEN NoLV ELSE Orphaned(lv(i), i)
    BY <1>0, <1>5, RemoveEffect
  <2>2. ~Removed(vg(i), i, i) => lv(i) = NoLV
    BY <1>0 DEF Removed
  <2>. QED
    BY <2>1, <2>2 DEF Orphaned
<1>. QED
  BY <1>0, <1>1, <1>4, <1>5

\* An answer of OK: the item's LV is there, and whole, or it is gone.
LEMMA Acknowledged ==
    ASSUME TypeOK, ControlInv, ShapeInv, WholeInv, NEW i \in Items, Worker(i), life' # life
    PROVE  /\ life[i] = "new" => /\ life'[i] = "ready" /\ lv(i)' # NoLV
                                 /\ Ended(lv(i)') \/ ~IsClone(i) \/ Snaps(i)
           /\ life[i] = "deleting" => life'[i] = "gone" /\ lv(i)' = NoLV
<1>0. /\ life[i] \in {"new", "deleting"} /\ life \in [Items -> Lives]
      /\ OnCourse(i) /\ lv(i) \in LVMaybe
  BY WorkerEffect, LVTypes DEF TypeOK, ControlInv
<1>1. ExitOK(i) => life'[i] = IF life[i] = "new" THEN "ready" ELSE "gone"
  BY <1>0 DEF ExitOK
<1>2. ~CommandFails(i) /\ ~Kill(i)
  BY Zenon DEF CommandFails, Kill, ExitFail
<1>3. CASE Lookup(i)
  <2>1. /\ pc[i] = "lookup" /\ lv(i) # NoLV /\ UNCHANGED lvs
        /\ ExitOK(i) /\ ~IsClone(i)
    BY <1>3 DEF Lookup, Step, ExitFail, Created
  <2>. QED
    BY <1>0, <1>1, <2>1, OwnLV DEF OnCourse
<1>4. CASE CreateLV(i)
  <2>1. /\ pc[i] = "lvcreate" /\ ExitOK(i) /\ ~IsClone(i)
        /\ \E c \in Fresh(i) : Put(vg(i), i, NewLV(i, c))
    BY <1>4 DEF CreateLV, Step, ExitFail, Created
  <2>2. PICK c \in Fresh(i) : lv(i)' = NewLV(i, c)
    BY <2>1, NewTypes, OwnLV DEF LVMaybe
  <2>. QED
    BY <1>0, <1>1, <2>1, <2>2, NewTypes DEF OnCourse
<1>5. CASE CopyDone(i)
  <2>1. pc[i] = "copying" /\ lv(i) # NoLV /\ ExitOK(i)
    BY <1>5 DEF CopyDone, ExitFail
  <2>. QED
    BY <1>0, <1>1, <1>5, <2>1, OwnLV DEF OnCourse
<1>6. CASE SnapLookup(i)
  <2>1. pc[i] = "snaplvs" /\ lv(i) # NoLV /\ UNCHANGED lvs /\ ExitOK(i)
    BY <1>6 DEF SnapLookup, Step, ExitFail
  <2>. QED
    BY <1>0, <1>1, <2>1, OwnLV DEF OnCourse
<1>7. CASE SnapCreate(i)
  <2>1. pc[i] = "snapcreate" /\ CanSnap(i) /\ Put(vg(i), i, SnapLV(i)) /\ ExitOK(i)
    BY <1>7 DEF SnapCreate, ExitFail
  <2>2. Snaps(i) /\ life[i] = "new"
    BY <1>0, <2>1 DEF OnCourse
  <2>3. SnapLV(i) \in LVMaybe /\ SnapLV(i) # NoLV
    BY <2>1, <2>2, SnapTypes DEF LVMaybe
  <2>4. lv(i)' = SnapLV(i)
    BY <2>1, <2>3, OwnLV
  <2>. QED
    BY <1>1, <2>1, <2>2, <2>3, <2>4
<1>8. CASE RemoveLookup(i)
  <2>1. pc[i] = "rmlvs" /\ lv(i) = NoLV /\ UNCHANGED lvs /\ ExitOK(i)
    BY <1>8 DEF RemoveLookup, AfterRemove, Step
  <2>. QED
    BY <1>0, <1>1, <2>1, OwnLV DEF OnCourse
<1>9. CASE Remove(i)
  <2>1. pc[i] = "remove" /\ lvremove(vg(i), i) /\ ExitOK(i)
    BY <1>9 DEF Remove, AfterRemove, Step, ExitFail
  <2>. QED
    BY <1>0, <1>1, <2>1, OwnLV DEF OnCourse
<1>10. CASE CountThin(i) \/ PoolLookup(i) \/ PoolRemove(i)
  <2>1. pc[i] \in {"count", "poollvs", "poolremove"} /\ ExitOK(i)
    BY <1>10 DEF CountThin, PoolLookup, PoolRemove, Step, ExitFail
  <2>2. life[i] = "deleting" /\ lv(i) = NoLV
    BY <1>0, <2>1 DEF OnCourse
  <2>3. lv(i)' = NoLV
    BY <2>1, <2>2, OnlyOwnerMakes
  <2>. QED
    BY <1>1, <2>1, <2>2, <2>3
<1>11. CASE \/ PreparePool(i) \/ CheckPool(i) \/ CreatePool(i) \/ RollbackLookup(i)
            \/ RollbackRemove(i) \/ OpenSource(i) \/ SnapSource(i)
  BY <1>11 DEF PreparePool, CheckPool, CreatePool, RollbackLookup, RollbackRemove, OpenSource,
     SnapSource, Step, ExitFail
<1>. QED
  BY <1>2, <1>3, <1>4, <1>5, <1>6, <1>7, <1>8, <1>9, <1>10, <1>11, Zenon DEF Worker, HelperStep

\* A helper goes where its command leads.
LEMMA ControlStep ==
    ASSUME TypeOK, ControlInv, ShapeInv, NEW i \in Items, Worker(i)
    PROVE  ControlInv'
<1>0. /\ \A j \in Items : /\ vg(j)' = vg(j) /\ IsClone(j)' = IsClone(j) /\ Snaps(j)' = Snaps(j)
                          /\ OnCourse(j)
      /\ UNCHANGED Info /\ Moves(i) /\ pc[i] # "off"
  BY WorkerMoves, InfoKept DEF ControlInv
<1>1. ASSUME NEW j \in Items \ {i} PROVE OnCourse(j)'
  <2>1. pc'[j] = pc[j] /\ life'[j] = life[j]
    BY WorkerEffect
  <2>2. lv(j) = NoLV => lv(j)' = NoLV
    BY OnlyOwnerMakes
  <2>. QED
    BY <1>0, <2>1, <2>2 DEF OnCourse
<1>2. pc \in [Items -> PCs] /\ \A l \in PCs : Goto(i, l) => pc'[i] = l
  BY DEF TypeOK, Goto
<1>3. ASSUME ExitOK(i) \/ ExitFail(i) PROVE OnCourse(i)'
  <2>1. pc'[i] = "off"
    BY <1>2, <1>3 DEF ExitOK, ExitFail, PCs
  <2>. QED
    BY <2>1 DEF OnCourse
<1>4. ASSUME NEW l \in PCs, Step(i, l),
             \/ /\ l \in {"lookup", "pool", "checkpool", "mkpool", "rblvs", "rbremove", "lvcreate"}
                /\ life[i] = "new" /\ Info[i].kind = "volume" /\ ~Snaps(i)
             \/ l = "copying" /\ life[i] = "new" /\ IsClone(i) /\ ~Snaps(i)
             \/ l \in {"snaplvs", "snapcreate"} /\ life[i] = "new" /\ Snaps(i)
             \/ l = "remove" /\ life[i] = "deleting"
             \/ l \in {"count", "poollvs", "poolremove"} /\ life[i] = "deleting" /\ lv(i)' = NoLV
      PROVE  OnCourse(i)'
  <2>1. pc'[i] = l /\ life'[i] = life[i]
    BY <1>2, <1>4 DEF Step
  <2>. QED
    BY <1>0, <1>4, <2>1 DEF OnCourse
<1>5. OnCourse(i)'
  <2>0. OnCourse(i)
    BY <1>0
  <2>1. CASE CommandFails(i) \/ Kill(i)
    BY <1>3, <2>1, Zenon DEF CommandFails, Kill
  <2>2. CASE Lookup(i) \/ CreateLV(i)
    <3>1. life[i] = "new" /\ Info[i].kind = "volume" /\ ~Snaps(i)
      BY <2>0, <2>2 DEF Lookup, CreateLV, OnCourse
    <3>2. \/ ExitOK(i) \/ ExitFail(i) \/ (Step(i, "copying") /\ IsClone(i))
          \/ Step(i, "pool") \/ Step(i, "lvcreate")
      BY <2>2 DEF Lookup, CreateLV, Created
    <3>. QED
      BY <1>3, <1>4, <3>1, <3>2 DEF PCs
  <2>3. CASE PreparePool(i) \/ CheckPool(i) \/ CreatePool(i) \/ RollbackLookup(i) \/ RollbackRemove(i)
    <3>1. life[i] = "new" /\ Info[i].kind = "volume" /\ ~Snaps(i)
      BY <2>0, <2>3 DEF PreparePool, CheckPool, CreatePool, RollbackLookup, RollbackRemove, OnCourse
    <3>2. \/ ExitFail(i) \/ Step(i, "mkpool") \/ Step(i, "checkpool") \/ Step(i, "lvcreate")
          \/ Step(i, "rblvs") \/ Step(i, "rbremove")
      BY <2>3 DEF PreparePool, CheckPool, CreatePool, RollbackLookup, RollbackRemove
    <3>. QED
      BY <1>3, <1>4, <3>1, <3>2 DEF PCs
  <2>4. CASE OpenSource(i) \/ CopyDone(i)
    <3>1. life[i] = "new" /\ Info[i].kind = "volume" /\ ~Snaps(i)
      BY <2>0, <2>4 DEF OpenSource, CopyDone, OnCourse, IsClone
    <3>2. ExitFail(i) \/ ExitOK(i) \/ Step(i, "lookup")
      BY <2>4 DEF OpenSource, CopyDone
    <3>. QED
      BY <1>3, <1>4, <3>1, <3>2 DEF PCs
  <2>5. CASE SnapSource(i) \/ SnapLookup(i) \/ SnapCreate(i)
    <3>1. life[i] = "new" /\ Snaps(i)
      BY <2>0, <2>5 DEF SnapSource, SnapLookup, SnapCreate, OnCourse
    <3>2. ExitFail(i) \/ ExitOK(i) \/ Step(i, "snaplvs") \/ Step(i, "snapcreate")
      BY <2>5 DEF SnapSource, SnapLookup, SnapCreate
    <3>. QED
      BY <1>3, <1>4, <3>1, <3>2 DEF PCs
  <2>6. CASE RemoveLookup(i)
    <3>1. life[i] = "deleting"
      BY <2>0, <2>6 DEF RemoveLookup, OnCourse
    <3>2. \/ ExitOK(i) \/ Step(i, "remove")
          \/ Step(i, "count") /\ lv(i) = NoLV /\ UNCHANGED lvs
      BY <2>6 DEF RemoveLookup, AfterRemove
    <3>. QED
      BY <1>3, <1>4, <3>1, <3>2, OwnLV DEF PCs
  <2>7. CASE Remove(i)
    <3>1. life[i] = "deleting" /\ pc[i] = "remove"
      BY <2>0, <2>7 DEF Remove, OnCourse
    <3>2. ExitOK(i) \/ ExitFail(i) \/ (Step(i, "count") /\ lvremove(vg(i), i))
      BY <2>7 DEF Remove, AfterRemove
    <3>. QED
      BY <1>3, <1>4, <3>1, <3>2, OwnLV DEF PCs
  <2>8. CASE CountThin(i) \/ PoolLookup(i) \/ PoolRemove(i)
    <3>1. life[i] = "deleting" /\ lv(i) = NoLV
      BY <2>0, <2>8 DEF CountThin, PoolLookup, PoolRemove, OnCourse
    <3>2. ExitOK(i) \/ ExitFail(i) \/ ((Step(i, "poollvs") \/ Step(i, "poolremove")) /\ UNCHANGED lvs)
      BY <2>8 DEF CountThin, PoolLookup, PoolRemove
    <3>. QED
      BY <1>3, <1>4, <3>1, <3>2, OwnLV DEF PCs
  <2>. QED
    BY <2>1, <2>2, <2>3, <2>4, <2>5, <2>6, <2>7, <2>8, Zenon DEF Worker, HelperStep
<1>. QED
  BY <1>1, <1>5 DEF ControlInv

-----------------------------------------------------------------------------
(* What the CO was told holds.                                             *)

LEMMA WholeStep ==
    ASSUME TypeOK, ControlInv, ShapeInv, WholeInv, NEW i \in Items, Worker(i)
    PROVE  WholeInv'
<1>. SUFFICES ASSUME NEW n \in Items, lv(n)' # NoLV, ~Ended(lv(n)')
              PROVE  life'[n] = "new" /\ IsClone(n)' /\ ~Snaps(n)'
  BY DEF WholeInv
<1>1. IsClone(n)' = IsClone(n) /\ Snaps(n)' = Snaps(n)
  BY WorkerMoves, InfoKept
<1>2. ItemEffect(i, vg(n), n) /\ lv(n)' = lvs'[vg(n)][n] /\ lv(n) = lvs[vg(n)][n]
  BY WorkerEffect DEF Effect, lv
<1>3. life[n] = "new" /\ IsClone(n) /\ ~Snaps(n)
  <2>1. CASE lv(n)' = lv(n) \/ Touched(vg(n), n)
    BY <1>2, <2>1 DEF WholeInv, Touched
  <2>2. CASE Made(i, vg(n), n)
    <3>1. IsClone(n) /\ ~Snaps(n) /\ n = i /\ pc[i] \in {"lvcreate", "snapcreate"}
      BY <1>2, <2>2 DEF Made
    <3>. QED
      BY <3>1 DEF ControlInv, OnCourse
  <2>. QED
    BY <1>2, <2>1, <2>2 DEF ItemEffect, Taken
<1>4. life'[n] = "new"
  <2>1. CASE n = i
    BY <1>3, <2>1, Acknowledged
  <2>2. CASE n # i
    BY <1>3, <2>2, WorkerEffect
  <2>. QED
    BY <2>1, <2>2
<1>. QED
  BY <1>1, <1>3, <1>4

LEMMA BlankStep ==
    ASSUME TypeOK, ControlInv, ShapeInv, BlankInv, NEW i \in Items, Worker(i)
    PROVE  BlankInv'
<1>. SUFFICES ASSUME NEW n \in Items, lv(n)' # NoLV, "zeros" \notin lv(n)'.content
              PROVE  MayBeStale(n)'
  BY DEF BlankInv
<1>1. MayBeStale(n)' = MayBeStale(n)
  BY WorkerMoves, InfoKept
<1>2. ItemEffect(i, vg(n), n) /\ lv(n)' = lvs'[vg(n)][n] /\ lv(n) = lvs[vg(n)][n]
  BY WorkerEffect DEF Effect, lv
<1>3. CASE lv(n)' = lv(n)
  BY <1>1, <1>3 DEF BlankInv
<1>4. CASE Touched(vg(n), n)
  BY <1>1, <1>2, <1>4 DEF BlankInv, Touched
<1>5. CASE Made(i, vg(n), n)
  BY <1>1, <1>2, <1>5 DEF Made
<1>. QED
  BY <1>2, <1>3, <1>4, <1>5 DEF ItemEffect, Taken

LEMMA GoneStep ==
    ASSUME TypeOK, ControlInv, ShapeInv, WholeInv, GoneIsGone, NEW i \in Items, Worker(i)
    PROVE  GoneIsGone'
<1>. SUFFICES ASSUME NEW n \in Items, life'[n] = "gone"
              PROVE  lv(n)' = NoLV
  BY DEF GoneIsGone
<1>1. CASE n # i
  <2>1. life[n] = "gone"
    BY <1>1, WorkerEffect
  <2>. QED
    BY <1>1, <2>1, OnlyOwnerMakes DEF GoneIsGone
<1>2. CASE n = i
  <2>1. life[i] \in {"new", "deleting"}
    BY WorkerEffect
  <2>. QED
    BY <1>2, <2>1, Acknowledged
<1>. QED
  BY <1>1, <1>2

LEMMA ReadyStep ==
    ASSUME TypeOK, ControlInv, ShapeInv, WholeInv, RaceInv, ReadyExists, NEW i \in Items, Worker(i)
    PROVE  ReadyExists'
<1>. SUFFICES ASSUME NEW n \in Items, Lost(n)'
              PROVE  n \in raced'
  BY DEF ReadyExists
<1>0. UNCHANGED Info /\ NoteRaced /\ vg(n)' = vg(n)
  BY WorkerMoves, InfoKept
<1>1. /\ life'[n] = "ready" /\ lv(n)' = NoLV
      /\ Info[n].kind = "volume" \/ Thin(n)
  BY <1>0 DEF Lost, Thin
<1>2. n # i
  <2>1. life[i] \in {"new", "deleting"}
    BY WorkerEffect
  <2>. QED
    BY <1>1, <2>1, Acknowledged
<1>3. life[n] = "ready"
  BY <1>1, <1>2, WorkerEffect
<1>4. n \in raced
  <2>1. CASE lv(n) = NoLV
    BY <1>1, <1>3, <2>1 DEF ReadyExists, Lost
  <2>2. CASE lv(n) # NoLV
    <3>1. ItemEffect(i, vg(n), n) /\ lv(n)' = lvs'[vg(n)][n] /\ lv(n) = lvs[vg(n)][n]
      BY WorkerEffect DEF Effect, lv
    <3>2. Taken(i, vg(n), n)
      BY <1>1, <2>2, <3>1 DEF ItemEffect, Touched, Made
    <3>3. vg(n) = vg(i) /\ Thin(n) /\ pc[i] \in {"poolremove", "rbremove"}
      BY <1>1, <1>2, <3>2 DEF Taken
    <3>. QED
      BY <2>2, <3>3 DEF RaceInv
  <2>. QED
    BY <2>1, <2>2
<1>. QED
  BY <1>0, <1>4 DEF NoteRaced

-----------------------------------------------------------------------------
(* The removal of a pool.                                                  *)

Deciding == {"poollvs", "poolremove", "rbremove"}

\* The removal of a pool is decided where no thin LV is: the helper has counted none,
\* or the pool is not a thin-pool.
LEMMA Decides ==
    ASSUME TypeOK, ControlInv, ShapeInv, NEW i \in Items, Worker(i),
           pc[i] \notin Deciding, pc'[i] \in Deciding
    PROVE  /\ UNCHANGED lvs
           /\ \A n \in Items : Thin(n) /\ vg(n) = vg(i) => lv(n) = NoLV
           /\ pc'[i] = "rbremove" => pool(i) = PoolLV("linear")
<1>0. pc \in [Items -> PCs] /\ vg(i) \in VGs
  BY WorkerEffect DEF TypeOK
<1>1. ~ExitOK(i) /\ ~ExitFail(i)
  BY <1>0 DEF ExitOK, ExitFail, Goto, Deciding
<1>2. \A l \in PCs \ Deciding : ~Step(i, l)
  BY <1>0 DEF Step, Goto
<1>3. ~CommandFails(i) /\ ~Kill(i)
  BY <1>1, Zenon DEF CommandFails, Kill
<1>4. CASE CountThin(i)
  <2>1. Step(i, "poollvs") /\ ThinVolumes(vg(i)) = {} /\ UNCHANGED lvs
    BY <1>1, <1>4 DEF CountThin
  <2>2. pc'[i] = "poollvs"
    BY <1>0, <2>1 DEF Step, Goto
  <2>3. ASSUME NEW n \in Items, Thin(n), vg(n) = vg(i), lv(n) # NoLV PROVE FALSE
    <3>1. lvs[vg(i)][n] # NoLV
      BY <2>3 DEF lv
    <3>2. lvs[vg(i)][n].seg = "thin"
      BY <1>0, <2>3, <3>1 DEF ShapeInv
    <3>. QED
      BY <2>1, <3>1, <3>2 DEF ThinVolumes
  <2>. QED
    BY <2>1, <2>2, <2>3
<1>5. CASE RollbackLookup(i)
  <2>1. pool(i) # NoLV /\ pool(i).seg = "linear" /\ UNCHANGED lvs
    BY <1>1, <1>5 DEF RollbackLookup
  <2>2. pool(i) = PoolLV("linear")
    BY <1>0, <2>1, PoolTypes DEF ShapeInv, pool
  <2>3. ASSUME NEW n \in Items, Thin(n), vg(n) = vg(i), lv(n) # NoLV PROVE FALSE
    <3>1. lvs[vg(i)][n] # NoLV
      BY <2>3 DEF lv
    <3>2. pool(i) = PoolLV("thin-pool")
      BY <1>0, <2>3, <3>1 DEF ShapeInv, pool
    <3>. QED
      BY <2>2, <3>2, PoolTypes
  <2>. QED
    BY <2>1, <2>2, <2>3
<1>6. CASE Lookup(i) \/ CreateLV(i)
  <2>1. ~Step(i, "pool") /\ ~Step(i, "lvcreate") /\ ~Step(i, "copying")
    BY <1>2 DEF PCs, Deciding
  <2>. QED
    BY <1>1, <1>6, <2>1 DEF Lookup, CreateLV, Created
<1>7. CASE PreparePool(i) \/ CheckPool(i) \/ CreatePool(i) \/ OpenSource(i) \/ CopyDone(i)
  <2>1. /\ ~Step(i, "mkpool") /\ ~Step(i, "checkpool") /\ ~Step(i, "lvcreate")
        /\ ~Step(i, "rblvs") /\ ~Step(i, "lookup")
    BY <1>2 DEF PCs, Deciding
  <2>. QED
    BY <1>1, <1>7, <2>1 DEF PreparePool, CheckPool, CreatePool, OpenSource, CopyDone
<1>8. CASE SnapSource(i) \/ SnapLookup(i) \/ SnapCreate(i) \/ RemoveLookup(i) \/ Remove(i)
  <2>1. ~Step(i, "snaplvs") /\ ~Step(i, "snapcreate") /\ ~Step(i, "remove") /\ ~Step(i, "count")
    BY <1>2 DEF PCs, Deciding
  <2>. QED
    BY <1>1, <1>8, <2>1 DEF SnapSource, SnapLookup, SnapCreate, RemoveLookup, Remove, AfterRemove
<1>9. CASE PoolLookup(i) \/ PoolRemove(i) \/ RollbackRemove(i)
  BY <1>9 DEF PoolLookup, PoolRemove, RollbackRemove, Deciding
<1>. QED
  BY <1>3, <1>4, <1>5, <1>6, <1>7, <1>8, <1>9, Zenon DEF Worker, HelperStep

LEMMA RaceStep ==
    ASSUME TypeOK, ControlInv, ShapeInv, RaceInv, NEW i \in Items, Worker(i)
    PROVE  RaceInv'
<1>0. UNCHANGED Info /\ NoteRaced /\ \A j \in Items : vg(j)' = vg(j) /\ Thin(j)' = Thin(j)
  BY WorkerMoves, InfoKept
<1>. SUFFICES ASSUME NEW n \in Items, NEW j \in Items, vg(n) = vg(j), pc'[j] \in Deciding,
                     Thin(n), lv(n)' # NoLV
              PROVE  n \in raced'
  BY <1>0 DEF RaceInv, Deciding
<1>1. CASE pc[j] \in Deciding
  <2>1. CASE lv(n) # NoLV
    BY <1>0, <1>1, <2>1 DEF RaceInv, Deciding, NoteRaced
  <2>2. CASE lv(n) = NoLV
    <3>1. lvs'[vg(n)][n] # NoLV
      BY WorkerEffect
    <3>. QED
      BY <1>0, <1>1, <2>2, <3>1 DEF NoteRaced, Deciding
  <2>. QED
    BY <2>1, <2>2
<1>2. CASE pc[j] \notin Deciding
  <2>1. j = i
    BY <1>2, WorkerEffect
  <2>2. lv(n) = NoLV /\ UNCHANGED lvs
    BY <1>2, <2>1, Decides
  <2>. QED
    BY <1>0, <2>2 DEF lv
<1>. QED
  BY <1>1, <1>2

LEMMA RollbackStep ==
    ASSUME TypeOK, ControlInv, ShapeInv, RollbackInv, NEW i \in Items, Worker(i)
    PROVE  RollbackInv'
<1>0. UNCHANGED Info /\ NoteRaced /\ \A j \in Items : vg(j)' = vg(j) /\ vg(j) \in VGs
  BY WorkerMoves, WorkerEffect
<1>. SUFFICES ASSUME NEW n \in Items, pc'[n] = "rbremove", n \notin overtaken'
              PROVE  lvs'[vg(n)][Pool] = PoolLV("linear")
  BY <1>0 DEF RollbackInv, pool, PoolLV
<1>1. CASE pc[n] = "rbremove"
  <2>1. n \notin overtaken /\ ~(pool(n) # NoLV /\ lvs'[vg(n)][Pool] = NoLV)
    BY <1>0, <1>1 DEF NoteRaced
  <2>2. pool(n) = PoolLV("linear") /\ pool(n) = lvs[vg(n)][Pool]
    BY <1>1, <2>1 DEF RollbackInv, pool
  <2>3. PoolEffect(i, vg(n))
    BY <1>0, WorkerEffect DEF Effect
  <2>. QED
    BY <2>1, <2>2, <2>3, PoolTypes DEF PoolEffect
<1>2. CASE pc[n] # "rbremove"
  <2>1. n = i
    BY <1>2, WorkerEffect
  <2>2. pc[i] \notin Deciding
    <3>1. CASE pc[i] \in {"poollvs", "poolremove"}
      <4>1. life[i] = "deleting" /\ OnCourse(i)'
        BY <3>1, ControlStep DEF ControlInv, OnCourse
      <4>2. life'[i] = "new"
        BY <2>1, <4>1 DEF OnCourse
      <4>. QED
        BY <4>1, <4>2, WorkerMoves, WorkerEffect DEF Moves, TypeOK
    <3>. QED
      BY <1>2, <2>1, <3>1 DEF Deciding
  <2>3. pool(i) = PoolLV("linear") /\ UNCHANGED lvs
    BY <2>1, <2>2, Decides DEF Deciding
  <2>. QED
    BY <2>1, <2>3 DEF pool
<1>. QED
  BY <1>1, <1>2

\* Nothing keeps the rollback from removing an incomplete pool: no LV is in it.
LEMMA CanRollBack ==
    ASSUME TypeOK, ShapeInv, NEW i \in Items, pool(i) = PoolLV("linear")
    PROVE  CanRemove(vg(i), Pool)
<1>0. vg(i) \in VGs /\ Pool \in LVNames /\ pool(i) = lvs[vg(i)][Pool]
  BY InfoTypes DEF TypeOK, LVNames, pool
<1>1. lvs[vg(i)][Pool] # NoLV
  BY <1>0, PoolTypes
<1>2. ASSUME NEW m \in LVNames, Removed(vg(i), Pool, m) PROVE m = Pool
  <2>1. ASSUME m # Pool PROVE FALSE
    <3>1. m \in Items /\ Thin(m) /\ lvs[vg(i)][m] # NoLV
      BY <1>0, <1>2, <2>1, RemovedOnly DEF Removed
    <3>2. lvs[vg(i)][Pool] = PoolLV("thin-pool")
      BY <1>0, <3>1 DEF ShapeInv
    <3>. QED
      BY <1>0, <3>2, PoolTypes
  <2>. QED
    BY <2>1
<1>3. ~InUse(vg(i), Pool)
  <2>1. ASSUME NEW j \in Items, Copies(j) PROVE Info[j].source # Pool
    BY InfoTypes, ItemsAssumption DEF TypeOK
  <2>. QED
    BY <2>1, ItemsAssumption DEF InUse
<1>. QED
  BY <1>1, <1>2, <1>3 DEF CanRemove

\* Failures and kills are counted.
LEMMA Counted ==
    ASSUME TypeOK, NEW i \in Items, Worker(i)
    PROVE  /\ failures' \in 0 .. MaxFailures /\ kills' \in 0 .. MaxKills
           /\ \/ UNCHANGED <<failures, kills>> /\ HelperStep(i)
              \/ failures' = failures + 1 /\ kills' = kills
              \/ kills' = kills + 1 /\ failures' = failures
<1>1. CASE HelperStep(i)
  <2>1. Calm \/ (Failure /\ UNCHANGED kills)
    BY <1>1, Zenon DEF HelperStep, Lookup, PreparePool, CheckPool, CreatePool, RollbackLookup,
       RollbackRemove, CreateLV, OpenSource, CopyDone, SnapSource, SnapLookup, SnapCreate,
       RemoveLookup, Remove, CountThin, PoolLookup, PoolRemove
  <2>. QED
    BY <1>1, <2>1, BoundsAssumption DEF Calm, Failure, TypeOK
<1>2. CASE CommandFails(i)
  <2>1. Failure /\ UNCHANGED kills
    BY <1>2, Zenon DEF CommandFails
  <2>. QED
    BY <2>1, BoundsAssumption DEF Failure, TypeOK
<1>3. CASE Kill(i)
  <2>1. kills < MaxKills /\ kills' = kills + 1 /\ UNCHANGED failures
    BY <1>3, Zenon DEF Kill
  <2>. QED
    BY <2>1, BoundsAssumption DEF TypeOK
<1>. QED
  BY <1>1, <1>2, <1>3, Zenon DEF Worker

LEMMA TypeStep ==
    ASSUME TypeOK, ControlInv, ShapeInv, NEW i \in Items, Worker(i)
    PROVE  TypeOK'
<1>1. UNCHANGED Info /\ NoteRaced
  BY WorkerMoves
<1>2. raced' \subseteq Items /\ overtaken' \subseteq Items
  BY <1>1 DEF NoteRaced, TypeOK
<1>3. failures' \in 0 .. MaxFailures /\ kills' \in 0 .. MaxKills
  BY Counted
<1>4. lvs' \in [VGs -> [LVNames -> LVMaybe]] /\ pc' \in [Items -> PCs] /\ life' \in [Items -> Lives]
  BY WorkerEffect
<1>. QED
  BY <1>1, <1>2, <1>3, <1>4 DEF TypeOK, LVMaybe

LEMMA CreatorStep ==
    ASSUME TypeOK, ControlInv, ShapeInv, CreatorInv, NEW i \in Items, Worker(i)
    PROVE  CreatorInv'
<1>0. /\ UNCHANGED Info /\ \A j \in Items : vg(j)' = vg(j) /\ vg(j) \in VGs
      /\ pc \in [Items -> PCs] /\ failures \in Nat /\ kills \in Nat
  BY WorkerMoves, WorkerEffect, BoundsAssumption DEF TypeOK
<1>. DEFINE Behind(f, k, p, g) ==
         \/ k > 0 \/ f > 1
         \/ f = 1 /\ \E j \in Items : vg(j) = g /\ p[j] \in {"rblvs", "rbremove"}
<1>. SUFFICES ASSUME NEW g \in VGs, lvs'[g][Pool] = PoolLV("linear")
              PROVE  Behind(failures', kills', pc', g)
  BY <1>0 DEF CreatorInv, PoolLV
<1>1. PoolEffect(i, g)
  BY WorkerEffect DEF Effect
<1>2. CASE lvs[g][Pool] = PoolLV("linear")
  <2>0. Behind(failures, kills, pc, g)
    BY <1>2 DEF CreatorInv
  <2>1. CASE UNCHANGED <<failures, kills>> /\ HelperStep(i)
    <3>1. ASSUME NEW j \in Items, vg(j) = g, pc[j] \in {"rblvs", "rbremove"}
          PROVE  pc'[j] \in {"rblvs", "rbremove"}
      <4>1. CASE j # i
        BY <3>1, <4>1, WorkerEffect
      <4>2. CASE j = i /\ pc[i] = "rblvs"
        <5>1. RollbackLookup(i)
          BY <2>1, <4>2 DEF HelperStep, Lookup, PreparePool, CheckPool, CreatePool,
             RollbackRemove, CreateLV, OpenSource, CopyDone, SnapSource, SnapLookup, SnapCreate,
             RemoveLookup, Remove, CountThin, PoolLookup, PoolRemove
        <5>2. pool(i) # NoLV /\ pool(i).seg = "linear"
          BY <1>2, <3>1, <4>2, PoolTypes DEF pool
        <5>. QED
          BY <1>0, <4>2, <5>1, <5>2 DEF RollbackLookup, Step, Goto
      <4>3. CASE j = i /\ pc[i] = "rbremove"
        <5>1. RollbackRemove(i)
          BY <2>1, <4>3 DEF HelperStep, Lookup, PreparePool, CheckPool, CreatePool,
             RollbackLookup, CreateLV, OpenSource, CopyDone, SnapSource, SnapLookup, SnapCreate,
             RemoveLookup, Remove, CountThin, PoolLookup, PoolRemove
        <5>2. CanRemove(vg(i), Pool)
          BY <1>2, <3>1, <4>3, CanRollBack DEF pool
        <5>3. lvremove(vg(i), Pool)
          BY <5>1, <5>2 DEF RollbackRemove
        <5>4. Removed(vg(i), Pool, Pool)
          BY <1>2, <3>1, <4>3, PoolTypes DEF Removed
        <5>5. lvs'[vg(i)][Pool] = NoLV
          <6>1. vg(i) \in VGs /\ Pool \in LVNames
            BY <1>0 DEF LVNames
          <6>. QED
            BY <5>3, <5>4, <6>1, RemoveEffect
        <5>. QED
          BY <3>1, <4>3, <5>5, PoolTypes
      <4>. QED
        BY <3>1, <4>1, <4>2, <4>3
    <3>. QED
      BY <2>0, <2>1, <3>1
  <2>2. CASE failures' = failures + 1 /\ kills' = kills
    BY <1>0, <2>0, <2>2
  <2>3. CASE kills' = kills + 1
    BY <1>0, <2>3
  <2>. QED
    BY <2>1, <2>2, <2>3, Counted
<1>3. CASE lvs[g][Pool] # PoolLV("linear")
  <2>1. lvs[g][Pool] = NoLV /\ g = vg(i) /\ pc[i] = "mkpool"
    BY <1>1, <1>3, PoolTypes DEF PoolEffect
  <2>2. lvs' # lvs
    BY <1>3
  <2>3. CASE Kill(i)
    <3>1. kills' = kills + 1
      BY <2>3, Zenon DEF Kill
    <3>. QED
      BY <1>0, <3>1
  <2>4. CASE CommandFails(i)
    <3>1. pc[i] = "mkpool" => UNCHANGED lvs
      BY <2>4, Zenon DEF CommandFails
    <3>. QED
      BY <2>1, <2>2, <3>1
  <2>5. CASE HelperStep(i)
    <3>1. CreatePool(i)
      BY <2>1, <2>5 DEF HelperStep, Lookup, PreparePool, CheckPool, RollbackLookup,
         RollbackRemove, CreateLV, OpenSource, CopyDone, SnapSource, SnapLookup, SnapCreate,
         RemoveLookup, Remove, CountThin, PoolLookup, PoolRemove
    <3>2. ~Put(vg(i), Pool, PoolLV("thin-pool"))
      <4>1. ASSUME Put(vg(i), Pool, PoolLV("thin-pool")) PROVE lvs'[g][Pool] = PoolLV("thin-pool")
        <5>1. PoolLV("thin-pool") \in LVMaybe /\ Pool \in LVNames
          BY PoolTypes DEF LVMaybe, LVNames
        <5>. QED
          BY <2>1, <4>1, <5>1, PutEffect
      <4>. QED
        BY <4>1, PoolTypes
    <3>3. Failure /\ Step(i, "rblvs")
      BY <2>2, <3>1, <3>2 DEF CreatePool
    <3>4. failures' = failures + 1 /\ pc'[i] = "rblvs"
      BY <1>0, <3>3 DEF Failure, Step, Goto
    <3>. QED
      BY <1>0, <2>1, <3>4
  <2>. QED
    BY <2>3, <2>4, <2>5, Zenon DEF Worker
<1>. QED
  BY <1>2, <1>3

-----------------------------------------------------------------------------
(* The inductive invariant.                                                *)

LEMMA InitInv == Init => IInv
<1>. SUFFICES ASSUME Init PROVE IInv
  OBVIOUS
<1>1. TypeOK
  BY BoundsAssumption DEF Init, TypeOK, Lives, PCs
<1>2. \A i \in Items : pc[i] = "off" /\ life[i] = "new" /\ vg(i) \in VGs
  BY <1>1, InfoTypes DEF Init, TypeOK
<1>3. \A g \in VGs, n \in LVNames : lvs[g][n] = NoLV
  BY DEF Init
<1>4. \A i \in Items : lv(i) = NoLV
  BY <1>2, <1>3 DEF lv, LVNames
<1>5. ControlInv /\ WholeInv /\ BlankInv /\ GoneIsGone /\ RaceInv /\ ReadyExists /\ RollbackInv
  BY <1>2, <1>4 DEF ControlInv, OnCourse, WholeInv, BlankInv, GoneIsGone, RaceInv, ReadyExists, Lost, RollbackInv
<1>6. ShapeInv
  BY <1>3 DEF ShapeInv, LVNames
<1>7. CreatorInv
  BY <1>3, PoolTypes DEF CreatorInv, LVNames
<1>. QED
  BY <1>1, <1>5, <1>6, <1>7 DEF IInv

\* A step of a helper, a failed command and a killed container.
LEMMA WorkerInv ==
    ASSUME IInv, NEW i \in Items, Worker(i)
    PROVE  IInv'
<1>0. /\ TypeOK /\ ControlInv /\ ShapeInv /\ WholeInv /\ BlankInv /\ GoneIsGone
      /\ RaceInv /\ ReadyExists /\ RollbackInv /\ CreatorInv
  BY DEF IInv
<1>1. TypeOK' /\ ControlInv' /\ ShapeInv'
  BY <1>0, TypeStep, ControlStep, ShapeStep, WorkerEffect
<1>2. WholeInv' /\ BlankInv' /\ GoneIsGone' /\ ReadyExists'
  BY <1>0, WholeStep, BlankStep, GoneStep, ReadyStep
<1>3. RaceInv' /\ RollbackInv' /\ CreatorInv'
  BY <1>0, RaceStep, RollbackStep, CreatorStep
<1>. QED
  BY <1>1, <1>2, <1>3 DEF IInv

\* A helper starts at the first command of what it was started for.
LEMMA LaunchInv ==
    ASSUME IInv, NEW i \in Items, Launch(i)
    PROVE  IInv'
<1>0. /\ TypeOK /\ ControlInv /\ ShapeInv /\ WholeInv /\ BlankInv /\ GoneIsGone
      /\ RaceInv /\ ReadyExists /\ RollbackInv /\ CreatorInv
      /\ UNCHANGED <<Info, lvs, life, raced, overtaken, failures, kills>>
  BY Zenon DEF IInv, Launch
<1>1. pc[i] = "off"
  BY Zenon DEF Launch
<1>2. PICK l \in {"lookup", "srclvs", "opensrc", "rmlvs"} :
          /\ Goto(i, l)
          /\ l = "lookup" => life[i] = "new" /\ Info[i].kind = "volume" /\ ~IsClone(i)
          /\ l = "srclvs" => life[i] = "new" /\ Snaps(i)
          /\ l = "opensrc" => life[i] = "new" /\ IsClone(i) /\ ~FastClone(i)
          /\ l = "rmlvs" => life[i] = "deleting"
  <2>1. CASE createLV(i)
    BY <2>1 DEF createLV
  <2>2. CASE clonelv(i)
    BY <2>2 DEF clonelv, Snaps
  <2>3. CASE createSnap(i)
    BY <2>3 DEF createSnap, Snaps
  <2>4. CASE deleteLV(i) \/ deleteSnap(i)
    BY <2>4 DEF deleteLV, deleteSnap
  <2>. QED
    BY <2>1, <2>2, <2>3, <2>4, Zenon DEF Launch
<1>3. /\ pc' \in [Items -> PCs] /\ pc'[i] = l
      /\ \A j \in Items \ {i} : pc'[j] = pc[j]
  BY <1>0, <1>2 DEF TypeOK, Goto, PCs
<1>4. \A j \in Items : /\ vg(j)' = vg(j) /\ Thin(j)' = Thin(j) /\ IsClone(j)' = IsClone(j)
                       /\ Snaps(j)' = Snaps(j) /\ MayBeStale(j)' = MayBeStale(j)
                       /\ lv(j)' = lv(j) /\ pool(j)' = pool(j)
  BY <1>0, InfoKept DEF lv, pool
<1>5. TypeOK'
  BY <1>0, <1>3 DEF TypeOK
<1>6. ControlInv'
  <2>1. ASSUME NEW j \in Items \ {i} PROVE OnCourse(j)'
    BY <1>0, <1>3, <1>4 DEF ControlInv, OnCourse
  <2>2. ~Snaps(i) <=> (Info[i].kind # "snapshot" /\ ~(IsClone(i) /\ FastClone(i)))
    BY DEF Snaps
  <2>3. OnCourse(i)'
    BY <1>0, <1>2, <1>3, <1>4, <2>2 DEF OnCourse, IsClone
  <2>. QED
    BY <2>1, <2>3 DEF ControlInv
<1>7. ShapeInv'
  BY <1>0, <1>4 DEF ShapeInv, PoolLV
<1>8. WholeInv' /\ BlankInv' /\ GoneIsGone'
  BY <1>0, <1>4 DEF WholeInv, BlankInv, GoneIsGone, Ended
<1>9. ReadyExists'
  BY <1>0, <1>4 DEF ReadyExists, Lost
<1>10. RaceInv'
  BY <1>0, <1>2, <1>3, <1>4 DEF RaceInv
<1>11. RollbackInv'
  BY <1>0, <1>2, <1>3, <1>4 DEF RollbackInv, PoolLV
<1>12. CreatorInv'
  <2>1. \A j \in Items : pc[j] \in {"rblvs", "rbremove"} => pc'[j] \in {"rblvs", "rbremove"}
    BY <1>1, <1>3
  <2>. QED
    BY <1>0, <1>4, <2>1 DEF CreatorInv, PoolLV
<1>. QED
  BY <1>5, <1>6, <1>7, <1>8, <1>9, <1>10, <1>11, <1>12 DEF IInv

\* The CO deletes what is ready: no helper works on it.
LEMMA BeginDeleteInv ==
    ASSUME IInv, NEW i \in Items, BeginDelete(i)
    PROVE  IInv'
<1>0. /\ TypeOK /\ ControlInv /\ ShapeInv /\ WholeInv /\ BlankInv /\ GoneIsGone
      /\ RaceInv /\ ReadyExists /\ RollbackInv /\ CreatorInv
      /\ UNCHANGED <<Info, lvs, pc, raced, overtaken, failures, kills>>
  BY Zenon DEF IInv, BeginDelete
<1>1. life[i] = "ready" /\ life' = [life EXCEPT ![i] = "deleting"]
  BY DEF BeginDelete
<1>2. /\ life' \in [Items -> Lives] /\ life'[i] = "deleting"
      /\ \A j \in Items \ {i} : life'[j] = life[j]
  BY <1>0, <1>1 DEF TypeOK, Lives
<1>3. pc[i] = "off"
  BY <1>0, <1>1 DEF TypeOK, ControlInv, OnCourse, PCs
<1>4. \A j \in Items : /\ vg(j)' = vg(j) /\ Thin(j)' = Thin(j) /\ IsClone(j)' = IsClone(j)
                       /\ Snaps(j)' = Snaps(j) /\ MayBeStale(j)' = MayBeStale(j)
                       /\ lv(j)' = lv(j) /\ pool(j)' = pool(j)
  BY <1>0, InfoKept DEF lv, pool
<1>5. TypeOK'
  BY <1>0, <1>2 DEF TypeOK
<1>6. ControlInv'
  <2>1. ASSUME NEW j \in Items \ {i} PROVE OnCourse(j)'
    BY <1>0, <1>2, <1>4 DEF ControlInv, OnCourse
  <2>2. OnCourse(i)'
    BY <1>0, <1>3 DEF OnCourse
  <2>. QED
    BY <2>1, <2>2 DEF ControlInv
<1>7. ShapeInv'
  BY <1>0, <1>4 DEF ShapeInv, PoolLV
<1>8. WholeInv' /\ BlankInv' /\ GoneIsGone'
  BY <1>0, <1>1, <1>2, <1>4 DEF WholeInv, BlankInv, GoneIsGone, Ended
<1>9. ReadyExists'
  BY <1>0, <1>2, <1>4 DEF ReadyExists, Lost
<1>10. RaceInv' /\ RollbackInv'
  BY <1>0, <1>4 DEF RaceInv, RollbackInv, PoolLV
<1>11. CreatorInv'
  BY <1>0, <1>4 DEF CreatorInv, PoolLV
<1>. QED
  BY <1>5, <1>6, <1>7, <1>8, <1>9, <1>10, <1>11 DEF IInv

LEMMA NextInv == IInv /\ [Next]_vars => IInv'
<1>. SUFFICES ASSUME IInv, [Next]_vars PROVE IInv'
  OBVIOUS
<1>1. CASE Next
  BY <1>1, WorkerInv, LaunchInv, BeginDeleteInv DEF Next, Worker
<1>2. CASE UNCHANGED vars
  <2>1. UNCHANGED <<Info, lvs, life, pc, raced, overtaken, failures, kills>>
    BY <1>2 DEF vars
  <2>2. \A j \in Items : /\ vg(j)' = vg(j) /\ Thin(j)' = Thin(j) /\ IsClone(j)' = IsClone(j)
                         /\ Snaps(j)' = Snaps(j) /\ MayBeStale(j)' = MayBeStale(j)
                         /\ lv(j)' = lv(j) /\ pool(j)' = pool(j)
    BY <2>1, InfoKept DEF lv, pool
  <2>3. TypeOK' /\ ControlInv'
    BY <2>1, <2>2 DEF IInv, TypeOK, ControlInv, OnCourse
  <2>4. ShapeInv' /\ CreatorInv'
    BY <2>1, <2>2 DEF IInv, ShapeInv, CreatorInv, PoolLV
  <2>5. WholeInv' /\ BlankInv' /\ GoneIsGone' /\ ReadyExists'
    BY <2>1, <2>2 DEF IInv, WholeInv, BlankInv, GoneIsGone, ReadyExists, Lost, Ended
  <2>6. RaceInv' /\ RollbackInv'
    BY <2>1, <2>2 DEF IInv, RaceInv, RollbackInv, PoolLV
  <2>. QED
    BY <2>3, <2>4, <2>5, <2>6 DEF IInv
<1>. QED
  BY <1>1, <1>2

-----------------------------------------------------------------------------
(* The theorems.                                                           *)

\* The inductive invariant holds of createlv, clonelv, deletelv, createsnap and
\* deletesnap in any number and order, with any failures and kills.
THEOREM ProvisionerInductive == Spec => []IInv
BY InitInv, NextInv, PTL DEF Spec

\* Every command leaves volume groups as lvs could report them: a pool or nothing under
\* the pool's name, LVs of the sizes asked for, origins that are items.
THEOREM ProvisionerTyped == Spec => []TypeOK
<1>1. IInv => TypeOK
  BY DEF IInv
<1>. QED
  BY <1>1, ProvisionerInductive, PTL

\* A volume or thin snapshot that was acknowledged keeps its LV until its deletion,
\* but for one made after another helper had decided to remove the pool.
THEOREM ReadyVolumesExist == Spec => []ReadyExists
<1>1. IInv => ReadyExists
  BY DEF IInv
<1>. QED
  BY <1>1, ProvisionerInductive, PTL

\* An acknowledged deletion has removed the LV for good.
THEOREM DeletedStayGone == Spec => []GoneIsGone
<1>1. IInv => GoneIsGone
  BY DEF IInv
<1>. QED
  BY <1>1, ProvisionerInductive, PTL

\* clonelv is acknowledged only when a copy has reached its end, in whatever attempt,
\* with all the data of the source unless that copy has lost the error of a chunk; a thin
\* clone of a snapshot shows nothing its source does not have.
THEOREM ClonesAreComplete == Spec => []CloneComplete
<1>1. IInv => CloneComplete
  <2>. SUFFICES ASSUME IInv, NEW i \in Items, life[i] = "ready", lv(i) # NoLV
                PROVE  /\ "data" \in lv(i).content \/ "torn" \in lv(i).content
                       /\ IsClone(i) /\ Thin(i) /\ ~SourceChanges(i) => "zeros" \in lv(i).content
    BY DEF CloneComplete
  <2>1. Ended(lv(i))
    BY DEF IInv, WholeInv
  <2>2. "zeros" \notin lv(i).content => MayBeStale(i)
    BY DEF IInv, BlankInv
  <2>. QED
    BY <2>1, <2>2 DEF Ended, MayBeStale
<1>. QED
  BY <1>1, ProvisionerInductive, PTL

\* Without a kill or a second failure, an incomplete pool is always about to be rolled
\* back: the rollback finds it and lvremove cannot be refused.
THEOREM IncompletePoolsGo == Spec => []IncompletePoolRemoved
<1>1. IInv => IncompletePoolRemoved
  <2>. SUFFICES ASSUME IInv, NEW g \in VGs, Blocked(g) PROVE kills > 0 \/ failures > 1
    BY DEF IncompletePoolRemoved
  <2>1. lvs[g][Pool] = PoolLV("linear")
    BY PoolTypes DEF IInv, ShapeInv, Blocked
  <2>. QED
    BY <2>1 DEF IInv, CreatorInv, Blocked
<1>. QED
  BY <1>1, ProvisionerInductive, PTL

\* rollbackThinPoolCreate removes an incomplete pool and no other, unless it was
\* overtaken between its lvs and its lvremove.
THEOREM RollbacksSparePools == Spec => RollbackSparesPool
<1>1. IInv /\ [Next]_vars
        => [\A i \in Items :
              RollbackRemove(i) /\ pool(i) # NoLV /\ i \notin overtaken
                  => pool(i).seg = "linear"]_vars
  <2>. SUFFICES ASSUME IInv, NEW i \in Items, RollbackRemove(i), i \notin overtaken
                PROVE  pool(i).seg = "linear"
    OBVIOUS
  <2>1. pool(i) = PoolLV("linear")
    BY DEF IInv, RollbackInv, RollbackRemove
  <2>. QED
    BY <2>1, PoolTypes
<1>. QED
  BY <1>1, ProvisionerInductive, PTL DEF Spec, RollbackSparesPool

=============================================================================
