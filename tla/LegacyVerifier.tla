--------------------------- MODULE LegacyVerifier ---------------------------
(***************************************************************************)
(* tools/verify_legacy.py, verify: the manifest and then every legacy file *)
(* are read, one system call at a time, while other processes write to     *)
(* them or put other files in their places; then the contracts of          *)
(* LegacyContracts are checked on what was read.                           *)
(*                                                                         *)
(* The content of the manifest is one fragment, the JSON value it holds;   *)
(* anything shorter or longer is no JSON.                                  *)
(***************************************************************************)
EXTENDS LegacyContracts

CONSTANTS ManifestName,
          HtmlLike,       \* names whose suffix is ".html" in any case
          MaxManifest,    \* MAX_MANIFEST_BYTES
          Starts,         \* the directories the tool may be started in
          Cells,          \* what other processes write to the legacy files
          Drafts,         \* and to the manifest
          MaxChanges      \* bound: how often they do

Names == {ManifestName, Site} \cup HtmlLike

ASSUME NamesAssumption ==
    /\ Html \subseteq HtmlLike /\ HtmlLike \subseteq Nat \ {Site}
    /\ ManifestName \notin HtmlLike \cup {Site}

VARIABLES
    root,       \* name |-> kind and data of the file, kind "absent" if there is none
    changes,    \* what the other processes did
    pc,
    target,     \* the file _read_regular_file_bounded is reading
    stream,     \* the file behind the open stream
    attached,   \* it is still the one the name stands for
    payload,    \* what was read of it
    manifest,
    k,          \* position in the inventory
    total,      \* actual_total_bytes
    contents,
    verdict,    \* "PENDING", "PASS" or a failure code
    alone       \* history: no other process did anything, no call failed

directory == <<root, changes>>
reader == <<target, stream, attached, payload>>
loop == <<manifest, k, total, contents>>
vars == <<directory, pc, reader, loop, verdict, alone>>

Absent == [kind |-> "absent", data |-> << >>]

Kinds == {"absent", "regular", "symlink", "fifo", "directory"}

(* Where the decoder of the manifest expects numbers and lists, there are  *)
(* numbers and lists or values of a wrong type.                            *)
IsArray(value) == Len(value) \in Nat /\ value = [i \in 1..Len(value) |-> value[i]]

IsEntry(value) == value = WrongType \/ value.bytes \in Int \cup {WrongType}

IsSnapshot(value) ==
    value = WrongType \/
    /\ value.total \in Int \cup {WrongType}
    /\ value.inventory = WrongType \/ (IsArray(value.inventory)
                                         /\ \A x \in Range(value.inventory) : IsEntry(x))

IsManifest(value) == value = WrongType \/ IsSnapshot(value.snapshot)

(* How decoding a data URI may end.                                        *)
IsFragment(value) == value.flaw \in {"", "embedded_media_invalid", "resource_limit_exceeded"}

IsContent(name, data) ==
    /\ IsArray(data)
    /\ \A x \in Range(data) : IF name = ManifestName THEN IsManifest(x) ELSE IsFragment(x)

IsFile(name, file) ==
    /\ file = [kind |-> file.kind, data |-> file.data]
    /\ file.kind \in Kinds /\ IsContent(name, file.data)

IsDirectory(files) ==
    /\ files = [name \in Names |-> files[name]]
    /\ \A name \in Names : IsFile(name, files[name])

ASSUME LimitsAssumption ==
    MaxFile \in Nat /\ MaxTotal \in Nat /\ MaxManifest \in Nat \ {0}

ASSUME FilesAssumption ==
    /\ \A start \in Starts : IsDirectory(start.root)
    /\ \A c \in Cells : IsFragment(c)
    /\ \A m \in Drafts : IsManifest(m)

Inventory == manifest.snapshot.inventory

Entry == Inventory[k]

-----------------------------------------------------------------------------
(* The other processes write a file in place, or replace it by a file of   *)
(* any kind.  A symbolic link has the data of the file it leads to.        *)

Contents(name) ==
    IF name = ManifestName
    THEN {<< >>} \cup {<<m>> : m \in Drafts}
    ELSE {d \in UNION {[1..n -> Cells \cup Range(root[name].data)] : n \in 0..(MaxFile + 2)} :
             \A i \in DOMAIN d : d[i] \in Cells \/ (i \in DOMAIN root[name].data
                                                   /\ d[i] = root[name].data[i])}

Write ==
    \E name \in Names : \E data \in Contents(name) \ {root[name].data} :
        /\ root[name].kind = "regular"
        /\ root' = [root EXCEPT ![name].data = data]
        /\ stream' = IF attached /\ name = target THEN [stream EXCEPT !.data = data] ELSE stream
        /\ UNCHANGED attached

Replace ==
    \E name \in Names, kind \in Kinds :
    \E data \in IF kind \in {"regular", "symlink"} THEN Contents(name) \cup {root[name].data}
                                                   ELSE {<< >>} :
        /\ root' = [root EXCEPT ![name] = [kind |-> kind, data |-> data]]
        /\ attached' = (attached /\ name # target)
        /\ UNCHANGED stream

Disturb ==
    /\ changes < MaxChanges /\ verdict = "PENDING"
    /\ Write \/ Replace
    /\ changes' = changes + 1 /\ alone' = FALSE
    /\ UNCHANGED <<pc, target, payload, loop, verdict>>

(* A writer opens the FIFO the reader is waiting at.                       *)
Connect ==
    /\ pc = "waiting" /\ changes < MaxChanges
    /\ changes' = changes + 1 /\ pc' = "fstat" /\ alone' = FALSE
    /\ UNCHANGED <<root, reader, loop, verdict>>

-----------------------------------------------------------------------------
Init ==
    /\ \E start \in Starts : root = start.root /\ changes = MaxChanges - start.changes
    /\ pc = "lstat" /\ target = ManifestName
    /\ stream = Absent /\ attached = FALSE /\ payload = << >>
    /\ manifest = WrongType /\ k = 1 /\ total = 0 /\ contents = << >>
    /\ verdict = "PENDING" /\ alone = TRUE

(* One check after another, at the place here; then what comes next.       *)
Check(here, fault) ==
    /\ pc = here
    /\ fault # {}
    /\ \E code \in fault : verdict' = code
    /\ pc' = "done" /\ stream' = Absent /\ attached' = FALSE
    /\ UNCHANGED <<directory, target, payload, loop, alone>>

Passes(here, fault, next) ==
    pc = here /\ fault = {} /\ pc' = next /\ UNCHANGED <<directory, verdict, alone>>

-----------------------------------------------------------------------------
(* _read_regular_file_bounded                                              *)

Unreadable == IF target = ManifestName THEN "manifest_unreadable" ELSE "inventory_unreadable"

MaxBytes == IF target = ManifestName THEN MaxManifest ELSE MaxFile

ReadAtMostAll == Len(stream.data)

(* stream.read(max_bytes + 1)                                              *)
ReadAtMost == MaxBytes + 1

SystemFails ==
    /\ pc \in {"lstat", "open", "fstat", "read", "list", "entry"}
    /\ pc = "entry" => k \in DOMAIN Inventory
    /\ alone' = FALSE
    /\ verdict' = IF pc \in {"list", "entry"} THEN "inventory_unreadable" ELSE Unreadable
    /\ pc' = "done" /\ stream' = Absent /\ attached' = FALSE
    /\ UNCHANGED <<directory, target, payload, loop>>

SizeFault(file) == Limit(Len(file.data) > MaxBytes)

KindAndSizeFault(file) ==
    Blame(file.kind # "regular", Unreadable) ?? Limit(Len(file.data) > MaxBytes)

Lstat ==
    \/ Check("lstat", KindAndSizeFault(root[target]))
    \/ Passes("lstat", KindAndSizeFault(root[target]), "open") /\ UNCHANGED <<reader, loop>>

(* Plain open follows a symbolic link and waits at a FIFO for a writer.    *)
Open ==
    LET file  == root[target]
        fault == Blame(file.kind \in {"absent", "directory"}, Unreadable)
    IN  \/ Check("open", fault)
        \/ /\ Passes("open", fault, IF file.kind = "fifo" THEN "waiting" ELSE "fstat")
           /\ stream' = IF file.kind = "symlink" THEN [file EXCEPT !.kind = "regular"] ELSE file
           /\ attached' = (file.kind # "symlink")
           /\ payload' = << >>
           /\ UNCHANGED <<target, loop>>

Fstat ==
    \/ Check("fstat", KindAndSizeFault(stream))
    \/ Passes("fstat", KindAndSizeFault(stream), "read") /\ UNCHANGED <<reader, loop>>

(* The stream reads what is there, perhaps in several chunks ...           *)
ReadSome ==
    /\ pc = "read"
    /\ \E n \in (Len(payload) + 1)..Min({ReadAtMost, Len(stream.data)}) :
          payload' = payload \o SubSeq(stream.data, Len(payload) + 1, n)
    /\ UNCHANGED <<directory, pc, target, stream, attached, loop, verdict, alone>>

(* ... until the file ends or enough was read.                             *)
ReadEnds ==
    LET ended == Len(payload) >= Min({ReadAtMost, Len(stream.data)})
        fault == Limit(Len(payload) > MaxBytes)
    IN  \/ ended /\ Check("read", fault)
        \/ /\ ended /\ Passes("read", fault, IF target = ManifestName THEN "parse" ELSE "compare")
           /\ stream' = Absent /\ attached' = FALSE
           /\ UNCHANGED <<target, payload, loop>>

-----------------------------------------------------------------------------
(* _read_manifest, the schema, and _verify_inventory.                      *)

ParseManifest ==
    LET fault == Blame(Len(payload) # 1, "manifest_unreadable") ??
                 Schema(payload[1] = WrongType) ?? Schema(payload[1].schema_version # 1) ??
                 InventoryFault(payload[1].snapshot)
    IN  \/ Check("parse", fault)
        \/ /\ Passes("parse", fault, "list")
           /\ manifest' = payload[1]
           /\ UNCHANGED <<reader, k, total, contents>>

DiscoversHtml(name) == name \in Html /\ root[name].kind # "absent"

(* path.suffix.casefold() == ".html", an entry of any kind.                 *)
Discovers(name) == name \in HtmlLike /\ root[name].kind # "absent"

ListDirectory ==
    LET discovered == {name \in Names : Discovers(name)} \cup {Site}
        fault      == Blame(discovered # Range(PathsOf(Inventory)), "inventory_mismatch")
    IN  \/ Check("list", fault)
        \/ Passes("list", fault, "entry") /\ UNCHANGED <<reader, loop>>

(* The loop's own lstat, before the reader's.                              *)
ExamineEntry ==
    /\ pc = "entry" /\ k \in DOMAIN Inventory
    /\ LET file  == root[Entry.path]
           size  == Len(file.data)
           fault == Blame(file.kind = "absent", "inventory_unreadable") ??
                    Blame(file.kind # "regular", "inventory_mismatch") ??
                    Limit(size > MaxFile \/ total + size > MaxTotal) ??
                    Blame(size # Entry.bytes, "size_mismatch")
       IN  \/ Check("entry", fault)
           \/ /\ Passes("entry", fault, "lstat")
              /\ target' = Entry.path
              /\ UNCHANGED <<stream, attached, payload, loop>>

EntryContentFaultBySize == Blame(Len(payload) # Entry.bytes, "size_mismatch")

EntryContentFault ==
    Blame(Len(payload) # Entry.bytes, "size_mismatch") ??
    Blame(payload # Entry.sha256, "checksum_mismatch")

CompareEntry ==
    \/ Check("compare", EntryContentFault)
    \/ /\ Passes("compare", EntryContentFault, "entry")
       /\ total' = total + Len(payload)
       /\ contents' = [path \in DOMAIN contents \cup {target} |->
                          IF path = target THEN payload ELSE contents[path]]
       /\ k' = k + 1
       /\ UNCHANGED <<reader, manifest>>

CompareTotal ==
    /\ pc = "entry" /\ k \notin DOMAIN Inventory
    /\ LET fault == Blame(total # manifest.snapshot.total, "size_mismatch")
       IN  Check("entry", fault) \/ (Passes("entry", fault, "contracts") /\ UNCHANGED <<reader, loop>>)

CheckContracts ==
    /\ pc = "contracts"
    /\ LET fault == ContractsFault(manifest, contents)
       IN  \/ Check("contracts", fault)
           \/ /\ fault = {} /\ verdict' = "PASS" /\ pc' = "done"
              /\ UNCHANGED <<directory, reader, loop, alone>>

Verify == Lstat \/ Open \/ Fstat \/ ReadSome \/ ReadEnds \/ SystemFails \/ ParseManifest
          \/ ListDirectory \/ ExamineEntry \/ CompareEntry \/ CompareTotal \/ CheckContracts

Next == Disturb \/ Connect \/ Verify

Spec == Init /\ [][Next]_vars

-----------------------------------------------------------------------------
(* What the tool holds in memory stays within its limits however the files *)
(* grow behind its back: one cell past the file limit while it reads, the  *)
(* declared bytes of the entries it has finished, and so the total limit.  *)
BudgetHolds ==
    /\ Len(payload) <= MaxBytes + 1
    /\ total = Cardinality(Places(contents))
    /\ total <= MaxTotal
    /\ pc = "contracts" => total = DeclaredBytes(Inventory)

(* PASS attests what the documents say it attests, of the very bytes the   *)
(* manifest lists, whatever happened to the files meanwhile: no file but   *)
(* site.json has a JPEG, every JPEG of it is listed in the manifest, the   *)
(* settings of site.json have each as often as the manifest says, and the  *)
(* risk counts are the manifest's.                                         *)
PassIsTrueOfTheManifestsBytes ==
    verdict = "PASS" =>
        /\ DOMAIN contents = Range(PathsOf(Inventory))
        /\ \A i \in DOMAIN Inventory : contents[Inventory[i].path] = Inventory[i].sha256
        /\ \A x \in Places(contents) :
              Fragment(contents, x).mime = "image/jpeg" =>
                  /\ x[1] = Site
                  /\ \E p \in Range(manifest.jpegs.payloads) :
                        p.sha256 = Fragment(contents, x).payload.digest
        /\ \A p \in Range(manifest.jpegs.payloads) :
              p.locations[1].occurrences =
                  Cardinality({x \in InSettings(contents, "image/jpeg") :
                                  Fragment(contents, x).payload.digest = p.sha256})
        /\ Risk(contents) = manifest.risk

(* What the directory has to be.                                           *)
Intact ==
    LET file == root[ManifestName] IN
    /\ file.kind = "regular" /\ Len(file.data) = 1 /\ file.data[1] # WrongType
    /\ LET m         == file.data[1]
           entries   == Range(m.snapshot.inventory)
           listed    == [path \in {e.path : e \in entries} |->
                            (CHOOSE e \in entries : e.path = path).sha256]
       IN  /\ m.schema_version = 1 /\ InventoryFault(m.snapshot) = {}
           /\ \A e \in entries : Len(e.sha256) = e.bytes
           /\ DOMAIN listed = {Site} \cup {name \in HtmlLike : root[name].kind # "absent"}
           /\ \A path \in DOMAIN listed : root[path] = [kind |-> "regular", data |-> listed[path]]
           /\ ContractsFault(m, listed) = {}

(* Undisturbed, the tool passes exactly the directories that are as the    *)
(* manifest says, with no legacy file more or less.                        *)
UndisturbedVerdictIsRight ==
    pc = "done" /\ alone => (verdict = "PASS" <=> Intact)

(* The tool opens files so that it would wait at a FIFO.  It never does at *)
(* one it was given, only at one that took a file's name after that was    *)
(* examined.                                                               *)
WaitsOnlyIfRaced == pc = "waiting" => ~alone
=============================================================================
