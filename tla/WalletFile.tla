----------------------------- MODULE WalletFile -----------------------------
(***************************************************************************)
(* The wallet file: JsonDB (json_db.py) over WalletStorage (storage.py).   *)
(*                                                                         *)
(* A full write replaces the file at once (os.replace of a temporary one). *)
(* A partial write, if the configuration allows it, appends the pending    *)
(* patches to a file that is not encrypted, and may be cut short.  Reading *)
(* applies the patches, as far as the file can be parsed.                  *)
(***************************************************************************)
EXTENDS StoredTree

CONSTANTS
    Modes,          \* the settings of WALLET_PARTIAL_WRITES that processes run with
    Cases,          \* the hard cases that this instance includes
    BaseSize,       \* size of a file without patches; a patch has size 1
    MaxTail         \* bound: patches in the file

HardCases == { "threads",    \* steps of other threads between two statements
               "clear",      \* clear_invoices, clear_requests
               "history",    \* clear_history, of a process that writes in full
               "cut",        \* a crash leaves a part of a patch
               "comma",      \* a crash leaves a part of the separator
               "noSpace" }   \* a write raises, of a process that writes in full

ASSUME ModesAreBoolean == Modes \subseteq BOOLEAN
ASSUME CasesAreHard == Cases \subseteq HardCases
ASSUME BaseSizeIsPositive == BaseSize \in Nat \ {0}
ASSUME MaxTailIsNat == MaxTail \in Nat

VARIABLES
    file,       \* the file: [sealed, base, tail], or None
    encrypted,  \* WalletStorage.is_encrypted()
    pos,        \* WalletStorage.pos: the size the file should have
    initPos,    \* WalletStorage.init_pos: its size when it was opened
    partial,    \* WalletStorage._allow_partial_writes
    changing,   \* is update_password between its two writes?
    running,    \* is there a process that has the wallet open?
    since       \* history: contents since the last write() that returned

fileVars == <<file, encrypted, pos, initPos, partial>>
vars == <<treeVars, fileVars, changing, running, since>>

Torn == {[op |-> "cut"], [op |-> "comma"]}
Data == UNION {[D -> Values] : D \in SUBSET Names}
Files == [sealed : BOOLEAN, base : Data, tail : Seq(Patch \cup Torn)]

ASSUME NoneIsNoFile == None \notin Files

FileTypeOK ==
    /\ TreeTypeOK
    /\ file \in Files \cup {None}
    /\ encrypted \in BOOLEAN
    /\ pos \in Nat /\ initPos \in Nat
    /\ partial \in Modes
    /\ changing \in BOOLEAN /\ running \in BOOLEAN
    /\ since \subseteq Data

Size(f) == IF f = None THEN 0 ELSE BaseSize + Len(f.tail)

-----------------------------------------------------------------------------
(*                                Reading                                  *)

Unreadable == [ok |-> FALSE, data |-> EmptyData, patched |-> FALSE]

FirstOf(tail, op) == SelectInSeq(tail, LAMBDA c : c.op = op)

(* Where reading stops: the first patch that was cut.  The braces that it   *)
(* leaves open hide everything that was appended behind it.                 *)
Readable(tail) == LET cut == FirstOf(tail, "cut")
                  IN  IF cut = 0 THEN tail ELSE SubSeq(tail, 1, cut - 1)

(* JsonDB.load_data with maybe_load_incomplete_data, and whether it has set *)
(* _modified.  Two separators in a row are not JSON, nor is one at the end, *)
(* and they leave no brace open; patches behind an encrypted content do not *)
(* make it readable.                                                        *)
Loaded(f) ==
    LET tail == Readable(f.tail)
        doc  == Replay(f.base, tail)
    IN  CASE f.tail = << >> -> [ok |-> TRUE, data |-> f.base, patched |-> FALSE]
          [] f.tail # << >> /\ (f.sealed \/ FirstOf(tail, "comma") # 0) -> Unreadable
          [] OTHER -> [ok |-> doc.ok, data |-> doc.data, patched |-> tail # << >>]

-----------------------------------------------------------------------------
(*                                Writing                                  *)

ShouldWriteAllIfPlain ==                \* mutant: forgets is_encrypted
    \/ file = None
    \/ pos > 2 * initPos
    \/ ~ partial

(* WalletStorage.should_do_full_write_next *)
ShouldWriteAll ==
    \/ file = None
    \/ encrypted
    \/ pos > 2 * initPos
    \/ ~ partial

WriteAllKeepPending ==                  \* mutant: pending changes stay
    /\ file' = [sealed |-> encrypted, base |-> Content, tail |-> << >>]
    /\ pos' = BaseSize
    /\ modified' = FALSE
    /\ since' = {Content}
    /\ UNCHANGED <<slot, place, field, setting, pending, encrypted, initPos, partial>>

(* write_and_force_consolidation when it succeeds. *)
WriteAll ==
    /\ file' = [sealed |-> encrypted, base |-> Content, tail |-> << >>]
    /\ pos' = BaseSize
    /\ pending' = << >>
    /\ modified' = FALSE
    /\ since' = {Content}
    /\ UNCHANGED <<slot, place, field, setting, encrypted, initPos, partial>>

(* A full write that raises before os.replace: pos may be set already. *)
WriteAllRaises ==
    /\ pos' \in {pos, BaseSize}
    /\ UNCHANGED <<treeVars, file, encrypted, initPos, partial, since>>

(* _append_pending_changes *)
AppendPending ==
    /\ Len(file.tail) + Len(pending) <= MaxTail
    /\ pos = Size(file)
    /\ file' = [file EXCEPT !.tail = @ \o pending]
    /\ pos' = Size(file')
    /\ pending' = << >>
    /\ since' = {Content}
    /\ UNCHANGED <<slot, place, field, setting, modified, encrypted, initPos, partial>>

(* What a partial write may leave behind: some of the patches, then perhaps *)
(* a part of the next.                                                      *)
PartlyAppended ==
    LET Ends == {<< >>} \cup {<<t>> : t \in {t \in Torn : t.op \in Cases}}
    IN  {file.tail \o SubSeq(pending, 1, k) \o t :
            k \in 0 .. Len(pending) - 1, t \in Ends}

-----------------------------------------------------------------------------
(*                                Actions                                  *)

(* A statement of a method that another thread may not enter. *)
Undisturbed == "threads" \in Cases \/ (setting = None /\ ~ changing)

Remember(A) ==
    /\ running
    /\ Undisturbed
    /\ A
    /\ since' = since \cup {Content'}
    /\ UNCHANGED <<fileVars, changing, running>>

(* A change of the database by the wallet. *)
Change ==
    \/ \E n \in Names, o \in Objects, v \in Values : Remember(SetItem(n, o, v))
    \/ \E n \in Names : Remember(DelItem(n))
    \/ \E o \in Objects, v \in Values : Remember(ChangeItem(o, v))
    \/ \E o \in Objects, v \in Values : Remember(StartSetAttr(o, v))
    \/ Remember(PutNothing)
    \/ \E wrapped \in BOOLEAN :
           /\ "clear" \in Cases \/ (wrapped /\ "history" \in Cases /\ ~ partial)
           /\ Remember(Clear(wrapped))

EndSetAttr ==
    /\ running
    /\ FinishSetAttr
    /\ since' = since \cup {Content'}
    /\ UNCHANGED <<fileVars, changing, running>>

(* JsonDB.write() *)
WriteNothing ==
    /\ IF ShouldWriteAll THEN ~ modified ELSE pending = << >>
    /\ since' = {Content}
    /\ UNCHANGED <<treeVars, fileVars>>

Save ==
    /\ running
    /\ Undisturbed
    /\ \/ WriteNothing
       \/ ShouldWriteAll /\ modified /\ WriteAll
       \/ ~ ShouldWriteAll /\ pending # << >> /\ AppendPending
    /\ UNCHANGED <<changing, running>>

SaveRaises ==
    /\ running
    /\ Undisturbed
    /\ "noSpace" \in Cases /\ ~ partial
    /\ modified
    /\ WriteAllRaises
    /\ UNCHANGED <<changing, running>>

(* update_password up to set_password, which changes what the storage says *)
(* of itself, not yet the file ...                                         *)
StartUpdatePassword(e) ==
    /\ running
    /\ Undisturbed
    /\ ~ changing
    /\ changing' = TRUE
    /\ encrypted' = e
    /\ UNCHANGED <<treeVars, file, pos, initPos, partial, running, since>>

(* ... and from set_modified to the end. *)
EndUpdatePassword ==
    /\ running
    /\ changing
    /\ changing' = FALSE
    /\ IF file # None
         THEN \/ WriteAll
              \/ /\ "noSpace" \in Cases /\ ~ partial
                 /\ pos' \in {pos, BaseSize}
                 /\ modified' = TRUE
                 /\ UNCHANGED <<slot, place, field, setting, pending, file,
                                encrypted, initPos, partial, since>>
         ELSE /\ modified' = TRUE
              /\ UNCHANGED <<slot, place, field, setting, pending, fileVars, since>>
    /\ UNCHANGED running

(* The process ends, by itself or by a crash.  In a partial write, what has *)
(* reached the file stays there.                                            *)
Exit ==
    /\ running
    /\ running' = FALSE
    /\ Forget
    /\ changing' = FALSE
    /\ UNCHANGED <<fileVars, since>>

ExitInAppend ==
    /\ running
    /\ Undisturbed
    /\ ~ ShouldWriteAll
    /\ Len(file.tail) + Len(pending) <= MaxTail
    /\ pos = Size(file)
    /\ \E tail \in PartlyAppended : file' = [file EXCEPT !.tail = tail]
    /\ running' = FALSE
    /\ Forget
    /\ changing' = FALSE
    /\ UNCHANGED <<encrypted, pos, initPos, partial, since>>

(* WalletStorage.__init__ and JsonDB.__init__ of a new wallet ... *)
Create ==
    /\ ~ running /\ file = None
    /\ running' = TRUE
    /\ partial' \in Modes
    /\ encrypted' \in BOOLEAN
    /\ pos' = 0 /\ initPos' = 0
    /\ since' = {EmptyData}
    /\ UNCHANGED <<treeVars, file, changing>>

(* ... and of one that exists, if it can be read.  Patches that were found *)
(* are consolidated at once.                                               *)
Open ==
    /\ ~ running /\ file # None
    /\ LET doc == Loaded(file)
       IN  /\ doc.ok
           /\ Attach(doc.data)
           /\ file' = IF doc.patched
                        THEN [sealed |-> file.sealed, base |-> doc.data, tail |-> << >>]
                        ELSE file
           /\ since' = {doc.data}
    /\ running' = TRUE
    /\ partial' \in Modes
    /\ encrypted' = file.sealed
    /\ initPos' = Size(file)
    /\ pos' = Size(file')
    /\ UNCHANGED <<pending, modified, changing>>

Init ==
    /\ Blank
    /\ file = None
    /\ encrypted = FALSE
    /\ pos = 0 /\ initPos = 0
    /\ partial \in Modes
    /\ changing = FALSE
    /\ running = FALSE
    /\ since = {EmptyData}

Next ==
    \/ Change \/ EndSetAttr
    \/ Save \/ SaveRaises
    \/ \E e \in BOOLEAN : StartUpdatePassword(e)
    \/ EndUpdatePassword
    \/ Exit \/ ExitInAppend
    \/ Create \/ Open

Spec == Init /\ [][Next]_vars

-----------------------------------------------------------------------------
(*                               Properties                                *)

(* What is in memory when the wallet is opened was there at some moment, no *)
(* earlier than the last write() that returned, before the wallet was       *)
(* closed: nothing saved is lost, and nothing is half there.                *)
NothingSavedIsLost == [][~ running /\ running' => Content' \in since]_vars

(* A wallet file can always be opened (load_data raises no exception). *)
CanBeOpened == file # None => Loaded(file).ok

(* The file and the pending patches together are the database in memory:    *)
(* the next partial write, or its beginning, leaves a file that is right.   *)
PendingBringsUpToDate ==
    running /\ partial /\ file # None /\ setting = None /\ ~ encrypted /\ ~ changing =>
        Replay(Loaded(file).data, pending) = [ok |-> TRUE, data |-> Content]

(* Patches are appended only to a file that is not encrypted (the docstring *)
(* of WalletStorage.append).                                                *)
AppendsOnlyToPlain == file # None /\ file.sealed => file.tail = << >>

(* A partial write finds the file at the size it expects, so that it does   *)
(* not take its own file for one that somebody else has changed.            *)
KnowsItsSize == running /\ file # None /\ ~ ShouldWriteAll => pos = Size(file)

(* The wallet file is a durable map. *)
Durable == INSTANCE DurableMap
             WITH Maps <- Data, Empty <- EmptyData, now <- Content

IsDurable == Durable!Spec
=============================================================================
