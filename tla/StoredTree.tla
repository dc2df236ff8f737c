----------------------------- MODULE StoredTree -----------------------------
(***************************************************************************)
(* The wallet's database in memory: a StoredDict (stored_dict.py) whose    *)
(* entries are stored objects, and the patches that JsonDB (json_db.py)    *)
(* records as they change.                                                 *)
(*                                                                         *)
(* One dictionary is modelled, with one field per object.  An object does  *)
(* not ask the dictionary whether it is in it: it has a key and a parent   *)
(* of its own, and builds the path of its patches from those.              *)
(***************************************************************************)
EXTENDS SequencesExt

CONSTANTS
    Names,          \* keys of the dictionary
    Objects,        \* stored objects, by identity
    Values,         \* what the field of an object may hold
    None,           \* Python's None
    KeepReplaced,   \* do callers go on changing an object they have replaced?
    MaxPending      \* bound: patches waiting to be written

ASSUME NoneIsNone == None \notin Names \cup Objects \cup Values
ASSUME NoneIsNoSetting == None \notin [obj : Objects, to : Values]
ASSUME SomeValue == Values # {}
ASSUME RoomForAll ==
    \A D \in SUBSET Names : \E f \in [D -> Objects] : IsInjective(f)
ASSUME KeepReplacedIsBoolean == KeepReplaced \in BOOLEAN
ASSUME MaxPendingIsNat == MaxPending \in Nat

VARIABLES
    slot,       \* slot[n]: the object in the dictionary under n, or None
    place,      \* place[o]: the key o has, or None when it has no parent
    field,      \* field[o]: the value of its field
    setting,    \* an assignment to an attribute that is half done, or None
    pending,    \* JsonDB.pending_changes
    modified    \* JsonDB._modified

treeVars == <<slot, place, field, setting, pending, modified>>

Patch == [op : {"add", "replace", "remove"}, at : Names, to : Values \cup {None}]

TreeTypeOK ==
    /\ slot \in [Names -> Objects \cup {None}]
    /\ place \in [Objects -> Names \cup {None}]
    /\ field \in [Objects -> Values]
    /\ setting \in [obj : Objects, to : Values] \cup {None}
    /\ pending \in Seq(Patch)
    /\ modified \in BOOLEAN

-----------------------------------------------------------------------------
(*                          What the tree means                            *)

EmptyData == [n \in {} |-> None]

(* JsonDB.dump(): what a full write puts in the file. *)
Content == [n \in {m \in Names : slot[m] # None} |-> field[slot[n]]]

Stored(o) == \E n \in Names : slot[n] = o

(* JsonPatch.apply: `add' puts or overwrites, the others need their target. *)
Applicable(data, p) == p.op = "add" \/ p.at \in DOMAIN data

Patched(data, p) ==
    IF p.op = "remove"
    THEN Restrict(data, DOMAIN data \ {p.at})
    ELSE [n \in {p.at} \cup DOMAIN data |-> IF n = p.at THEN p.to ELSE data[n]]

ApplyPatch(doc, p) ==
    [ok   |-> doc.ok /\ Applicable(doc.data, p),
     data |-> Patched(doc.data, p)]

(* A document: its data, and whether it could be made without an exception. *)
Replay(data, patches) == FoldLeft(ApplyPatch, [ok |-> TRUE, data |-> data], patches)

-----------------------------------------------------------------------------
(*                              Operations                                 *)

AddPatch(op, n, v) ==
    /\ Len(pending) < MaxPending
    /\ pending' = Append(pending, [op |-> op, at |-> n, to |-> v])
    /\ modified' = TRUE

(* StoredDict.__setitem__.  The object that was there before, if any, keeps *)
(* its key and its parent.  Setting what is there already does nothing.     *)
SetItem(n, o, v) ==
    /\ ~ Stored(o)
    /\ slot[n] # None => field[slot[n]] # v
    /\ slot'  = [slot  EXCEPT ![n] = o]
    /\ place' = [place EXCEPT ![o] = n]
    /\ field' = [field EXCEPT ![o] = v]
    /\ AddPatch(IF slot[n] = None THEN "add" ELSE "replace", n, v)
    /\ UNCHANGED setting

DelItemUnlogged(n) ==                   \* mutant: no patch
    /\ slot[n] # None
    /\ slot'  = [slot  EXCEPT ![n] = None]
    /\ place' = [place EXCEPT ![slot[n]] = None]
    /\ UNCHANGED <<field, setting, pending, modified>>

(* StoredDict.__delitem__ and pop: here the object loses its parent. *)
DelItem(n) ==
    /\ slot[n] # None
    /\ slot'  = [slot  EXCEPT ![n] = None]
    /\ place' = [place EXCEPT ![slot[n]] = None]
    /\ AddPatch("remove", n, None)
    /\ UNCHANGED <<field, setting>>

(* dict.clear(), which StoredDict does not override.  clear_history wraps   *)
(* it in @modifier, clear_invoices and clear_requests do not.               *)
Clear(wrapped) ==
    /\ Content # EmptyData
    /\ slot' = [n \in Names |-> None]
    /\ modified' = (modified \/ wrapped)
    /\ UNCHANGED <<place, field, setting, pending>>

(* JsonDB.put with a value that is already there, or cannot be saved. *)
PutNothing ==
    /\ modified' = TRUE
    /\ UNCHANGED <<slot, place, field, setting, pending>>

(* Objects that somebody may still change: those stored, those never stored *)
(* or removed, and, if callers do that, those replaced by another object.   *)
Held(o) == Stored(o) \/ place[o] = None \/ KeepReplaced

(* An object whose chain of parents ends at the root emits a patch. *)
LogChange(o, v) ==
    IF place[o] # None THEN AddPatch("replace", place[o], v)
                       ELSE UNCHANGED <<pending, modified>>

(* A change of a nested StoredDict or StoredList, which holds the lock. *)
ChangeItem(o, v) ==
    /\ Held(o) /\ field[o] # v
    /\ field' = [field EXCEPT ![o] = v]
    /\ LogChange(o, v)
    /\ UNCHANGED <<slot, place, setting>>

(* StoredObject.__setattr__ holds no lock: the patch comes first ...  *)
StartSetAttr(o, v) ==
    /\ setting = None
    /\ Held(o) /\ field[o] # v
    /\ setting' = [obj |-> o, to |-> v]
    /\ LogChange(o, v)
    /\ UNCHANGED <<slot, place, field>>

(* ... and the assignment after it. *)
FinishSetAttr ==
    /\ setting # None
    /\ field' = [field EXCEPT ![setting.obj] = setting.to]
    /\ setting' = None
    /\ UNCHANGED <<slot, place, pending, modified>>

(* JsonDB.__init__: new objects for the data that was read. *)
Attach(data) ==
    LET f == CHOOSE g \in [DOMAIN data -> Objects] : IsInjective(g)
        Holds(n, o) == n \in DOMAIN data /\ f[n] = o
    IN  /\ slot'  = [n \in Names |-> IF n \in DOMAIN data THEN f[n] ELSE None]
        /\ place' = [o \in Objects |->
                        IF \E n \in Names : Holds(n, o)
                          THEN CHOOSE n \in Names : Holds(n, o) ELSE None]
        /\ field' = [o \in Objects |->
                        IF \E n \in Names : Holds(n, o)
                          THEN data[CHOOSE n \in Names : Holds(n, o)]
                          ELSE CHOOSE v \in Values : TRUE]
        /\ setting' = None

(* The memory of a process that is not running. *)
Forget ==
    /\ Attach(EmptyData)
    /\ pending' = << >>
    /\ modified' = FALSE

Blank ==
    /\ slot = [n \in Names |-> None]
    /\ place = [o \in Objects |-> None]
    /\ field = [o \in Objects |-> CHOOSE v \in Values : TRUE]
    /\ setting = None
    /\ pending = << >>
    /\ modified = FALSE
=============================================================================
