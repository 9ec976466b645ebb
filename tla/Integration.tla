----------------------------- MODULE Integration -----------------------------
(***************************************************************************)
(* Registration with the operating system: generated files and registry    *)
(* values, the binfmt rule, and the ownership record that lets an           *)
(* interrupted update be repeated or undone.                                *)
(*                                                                         *)
(* A file and a registry value are both an entry with a content; a content  *)
(* stands for its digest.  Other programs may edit entries and the rule at  *)
(* any time.  A process may stop, or fail with an error, between any two    *)
(* steps.  Cache refreshes only warn and change nothing modelled.           *)
(***************************************************************************)
EXTENDS Naturals, Sequences, FiniteSets, SequencesExt

CONSTANTS Proc,      \* processes of one registration scope
          Entry,     \* paths and registry values
          Options,   \* the ways to call register
          Generated, \* contents register generates
          Plan,      \* Plan[o]: the files and registry values to generate, and binfmt
          Foreign,   \* a content nobody here generates
          NoProc,
          MaxEdits,  \* edits by other programs
          MaxRecord  \* manifests that interrupted updates may pile up in the record

Absent == "absent"
Rule == "rule"
Unregister == "unregister"

Item == Entry \X Generated

IntegrationAssumption ==
    /\ NoProc \notin Proc
    /\ Unregister \notin Options /\ Rule \notin Entry
    /\ Foreign # Absent /\ {Absent, Foreign} \cap Generated = {}
    /\ Plan \in [Options -> [files : Seq(Item), registry : Seq(Item), binfmt : BOOLEAN]]
    /\ MaxEdits \in Nat /\ MaxRecord \in Nat \ {0}

VARIABLES
    disk,      \* the content of every entry
    rule,      \* the binfmt rule named janex: "absent", "janex" or "foreign"
    record,    \* the manifests of the ownership record, empty when there is none
    lock,      \* the process that holds the lock file
    pc,
    command,   \* what a process was asked to do
    loaded,    \* its record in memory, the desired manifest appended; what remove_obsolete has left of it
    todo,      \* entries it has still to write or to remove
    edits,     \* edits so far
    edited     \* what others edited since the holder of the lock looked at it

vars == <<disk, rule, record, lock, pc, command, loaded, todo, edits, edited>>

Init ==
    /\ disk \in [Entry -> {Absent, Foreign}]
    /\ rule \in {"absent", "foreign"}
    /\ record = << >>
    /\ lock = NoProc
    /\ pc = [p \in Proc |-> "idle"]
    /\ command = [p \in Proc |-> Unregister]
    /\ loaded = [p \in Proc |-> << >>]
    /\ todo = [p \in Proc |-> << >>]
    /\ edits = 0
    /\ edited = {}

-----------------------------------------------------------------------------
\* All entries a manifest records, as <<entry, content>>.
Items(manifest) == ToSet(manifest.files) \cup ToSet(manifest.registry)
Recorded(manifests) == UNION {Items(m) : m \in ToSet(manifests)}
WithRule(manifests) == \E m \in ToSet(manifests) : m.binfmt

\* Tests only the entries of the desired manifest, against itself.
OwnedByDesired(manifests) ==
    \A m \in ToSet(manifests) : m = manifests[Len(manifests)] =>
       \A i \in Items(m) : disk[i[1]] \in {Absent, i[2]}

\* preflight: what exists under a recorded name has one of its recorded contents.
Owned(manifests) ==
    \A i \in Recorded(manifests) :
       disk[i[1]] = Absent \/ <<i[1], disk[i[1]]>> \in Recorded(manifests)

\* What remove_obsolete goes through in a manifest: files, then the registry values
\* from the last to the first.
Removals(manifest) == manifest.files \o Reverse(manifest.registry)

Names(manifest) == {i[1] : i \in Items(manifest)}

\* The names that remove_obsolete passes over.
Kept(p) == IF command[p] = Unregister THEN {} ELSE Names(Plan[command[p]])

Goto(p, label) == pc' = [pc EXCEPT ![p] = label]

\* The call returns; the lock goes with its file.
Return(p) ==
    /\ Goto(p, "idle")
    /\ lock' = IF lock = p THEN NoProc ELSE lock
    /\ loaded' = [loaded EXCEPT ![p] = << >>]
    /\ todo' = [todo EXCEPT ![p] = << >>]
    /\ edited' = IF lock = p THEN {} ELSE edited
    /\ UNCHANGED command

-----------------------------------------------------------------------------
\* register and unregister up to the lock.  unregister looks for the record first.
CallRegister(p, o) ==
    /\ pc[p] = "idle"
    /\ command' = [command EXCEPT ![p] = o]
    /\ Goto(p, "lock")
    /\ UNCHANGED <<disk, rule, record, lock, loaded, todo, edits, edited>>

CallUnregister(p) ==
    /\ pc[p] = "idle"
    /\ record # << >>
    /\ command' = [command EXCEPT ![p] = Unregister]
    /\ Goto(p, "lock")
    /\ UNCHANGED <<disk, rule, record, lock, loaded, todo, edits, edited>>

\* lock and load; register appends the desired manifest and checks the rule.
Lock(p) ==
    LET manifests == IF command[p] = Unregister THEN record
                     ELSE Append(record, Plan[command[p]])
    IN /\ pc[p] = "lock"
       /\ lock = NoProc
       /\ Len(manifests) <= MaxRecord
       /\ IF command[p] # Unregister /\ WithRule(manifests) /\ rule = "foreign"
          THEN Return(p)
          ELSE /\ lock' = p
               /\ loaded' = [loaded EXCEPT ![p] = manifests]
               /\ Goto(p, "preflight")
               /\ edited' = edited \ {Rule}
               /\ UNCHANGED <<command, todo>>
       /\ UNCHANGED <<disk, rule, record, edits>>

\* preflight; unregister checks the rule after it.
Preflight(p) ==
    /\ pc[p] = "preflight"
    /\ IF \/ ~Owned(loaded[p])
          \/ command[p] = Unregister /\ WithRule(loaded[p]) /\ rule = "foreign"
       THEN Return(p)
       ELSE /\ Goto(p, IF command[p] = Unregister THEN "rule" ELSE "save")
            /\ edited' = IF command[p] = Unregister THEN {} ELSE edited \ Entry
            /\ UNCHANGED <<lock, command, loaded, todo>>
    /\ UNCHANGED <<disk, rule, record, edits>>

\* The recovery record forgets what is being replaced.
SaveDesired(p) ==
    /\ pc[p] = "save"
    /\ record' = <<Plan[command[p]]>>
    /\ todo' = [todo EXCEPT ![p] = Plan[command[p]].files \o Plan[command[p]].registry]
    /\ Goto(p, "write")
    /\ UNCHANGED <<disk, rule, lock, command, loaded, edits, edited>>

\* The first save of register: previous and desired manifests.
Save(p) ==
    /\ pc[p] = "save"
    /\ record' = loaded[p]
    /\ todo' = [todo EXCEPT ![p] = Plan[command[p]].files \o Plan[command[p]].registry]
    /\ Goto(p, "write")
    /\ UNCHANGED <<disk, rule, lock, command, loaded, edits, edited>>

\* write or registry_set of the next entry.
WriteEntry(p) ==
    /\ pc[p] = "write"
    /\ todo[p] # << >>
    /\ disk' = [disk EXCEPT ![Head(todo[p])[1]] = Head(todo[p])[2]]
    /\ todo' = [todo EXCEPT ![p] = Tail(@)]
    /\ UNCHANGED <<rule, record, lock, pc, command, loaded, edits, edited>>

\* remove_binfmt: the rule of that name goes, whoever made it.
RemoveRule(p) ==
    /\ \/ pc[p] = "write" /\ todo[p] = << >>
       \/ pc[p] = "rule" /\ command[p] = Unregister
    /\ rule' = IF WithRule(loaded[p]) THEN "absent" ELSE rule
    /\ Goto(p, IF command[p] = Unregister THEN "obsolete" ELSE "rule")
    /\ UNCHANGED <<disk, record, lock, command, loaded, todo, edits, edited>>

\* The new rule; the kernel refuses a second one of the name, and register fails.
AddRule(p) ==
    LET desired == Plan[command[p]] IN
    /\ pc[p] = "rule"
    /\ command[p] # Unregister
    /\ desired.binfmt => rule = "absent"
    /\ rule' = IF desired.binfmt THEN "janex" ELSE rule
    /\ Goto(p, "obsolete")
    /\ UNCHANGED <<disk, record, lock, command, loaded, todo, edits, edited>>

\* remove_obsolete goes on with the next manifest.
NextManifest(p) ==
    /\ pc[p] = "obsolete"
    /\ todo[p] = << >>
    /\ loaded[p] # << >>
    /\ todo' = [todo EXCEPT ![p] = Removals(Head(loaded[p]))]
    /\ loaded' = [loaded EXCEPT ![p] = Tail(@)]
    /\ UNCHANGED <<disk, rule, record, lock, pc, command, edits, edited>>

\* One removal of remove_obsolete; absence is no error.
RemoveEntry(p) ==
    /\ pc[p] = "obsolete"
    /\ todo[p] # << >>
    /\ disk' = IF Head(todo[p])[1] \in Kept(p) THEN disk
               ELSE [disk EXCEPT ![Head(todo[p])[1]] = Absent]
    /\ todo' = [todo EXCEPT ![p] = Tail(@)]
    /\ UNCHANGED <<rule, record, lock, pc, command, loaded, edits, edited>>

\* The last save of register, or the removal of the record.
Finish(p) ==
    /\ pc[p] = "obsolete"
    /\ todo[p] = << >> /\ loaded[p] = << >>
    /\ record' = IF command[p] = Unregister THEN << >> ELSE <<Plan[command[p]]>>
    /\ Return(p)
    /\ UNCHANGED <<disk, rule, edits>>

\* An error of the step that is due, or the end of the process.
Fails(p) ==
    /\ pc[p] # "idle"
    /\ Return(p)
    /\ UNCHANGED <<disk, rule, record, edits>>

-----------------------------------------------------------------------------
\* Other programs.
Edit(e) ==
    /\ edits < MaxEdits
    /\ edits' = edits + 1
    /\ disk' = [disk EXCEPT ![e] = IF @ = Foreign THEN Absent ELSE Foreign]
    /\ edited' = IF lock = NoProc THEN {} ELSE edited \cup {e}
    /\ UNCHANGED <<rule, record, lock, pc, command, loaded, todo>>

EditRule ==
    /\ edits < MaxEdits
    /\ edits' = edits + 1
    /\ rule' = IF rule = "foreign" THEN "absent" ELSE "foreign"
    /\ edited' = IF lock = NoProc THEN {} ELSE edited \cup {Rule}
    /\ UNCHANGED <<disk, record, lock, pc, command, loaded, todo>>

Step(p) ==
    \/ \E o \in Options : CallRegister(p, o)
    \/ CallUnregister(p) \/ Lock(p) \/ Preflight(p) \/ Save(p) \/ WriteEntry(p)
    \/ RemoveRule(p) \/ AddRule(p) \/ NextManifest(p) \/ RemoveEntry(p) \/ Finish(p) \/ Fails(p)

Next == (\E p \in Proc : Step(p)) \/ (\E e \in Entry : Edit(e)) \/ EditRule

Spec == Init /\ [][Next]_vars

-----------------------------------------------------------------------------
\* status, as far as it depends on the record and what it names.
StatusComplete ==
    /\ Len(record) = 1
    /\ \A i \in Items(record[1]) : disk[i[1]] = i[2]
    /\ record[1].binfmt => rule = "janex"

\* "Interrupted updates retain their recovery record so register or unregister can be
\* retried": in every state, between any two steps and after any failure, whatever was
\* generated and is still there is in the record, so that the next call recognises it;
\* and a registration that status calls complete has left nothing else behind.
EntriesRecorded ==
    /\ \A e \in Entry : disk[e] \in {Absent, Foreign} \/ <<e, disk[e]>> \in Recorded(record)
    /\ rule = "janex" => WithRule(record)
    /\ StatusComplete => \A e \in Entry :
          disk[e] \in {Absent, Foreign} \/ <<e, disk[e]>> \in Items(record[1])

\* "Refuses to overwrite or remove entries whose contents are not in the recovery
\* record": a content somebody else put there is replaced or removed only if it appeared
\* after the call had looked.
ForeignKept ==
    [][ edits' = edits =>
          /\ \A e \in Entry : disk[e] = Foreign /\ disk'[e] # Foreign => e \in edited
          /\ rule = "foreign" /\ rule' # "foreign" => Rule \in edited ]_vars
=============================================================================
