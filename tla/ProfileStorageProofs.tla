------------------------ MODULE ProfileStorageProofs ------------------------
(***************************************************************************)
(* What holds of the files of an enrolled user for any number of keys and  *)
(* whatever programs write beside the daemon: their types, that a manifest *)
(* and a reported commit are never without their profile, and that Forget  *)
(* Me leaves nothing that can be decrypted.                                *)
(***************************************************************************)
EXTENDS ProfileStorage, TLAPS

Profile(k) == [kind |-> "real", key |-> k]

\* A commit that is writing has a key to write with, and only then a file.
CommitHasKey ==
  /\ stage \in {"idle", "look", "read"} => file = "key"
  /\ stage \in {"temp", "rename", "sync"} => commitKey # 0

\* A power loss may leave what programs see.
SeenMayLast ==
  /\ dir.key \in durable.key
  /\ dir.template \in durable.template
  /\ dir.manifest \in durable.manifest

\* Every key that is on the disk or about to be has been generated.
KeysAreOld ==
  /\ \A k \in durable.key \cup strays.key \cup {commitKey} : k < nextKey
  /\ \A t \in strays.template : t.key < nextKey

\* The key a commit has generated and not yet put in its place: nothing on the disk is
\* of it.
NewKey == file = "key" /\ stage \in {"temp", "rename"}

\* A key left under a temporary name has never been in its place, so no template was
\* ever encrypted with it.
StraysAreApart ==
  /\ strays.key \cap durable.key = {}
  /\ 0 \notin strays.key /\ commitKey \notin strays.key
  /\ \A t \in strays.template : t.key \notin strays.key
  /\ NewKey => /\ commitKey \notin durable.key
               /\ \A t \in strays.template : t.key # commitKey

\* As long as only the daemon has written, whatever a power loss leaves of each file,
\* a real manifest comes with the key and the template it speaks of.
BackedForGood ==
  trust # "none" /\ "real" \in durable.manifest =>
    /\ dir.key # 0 /\ durable.key = {dir.key}
    /\ durable.template = {Profile(dir.key)}

\* How far a commit that nobody disturbs has come.
CommitProceeds ==
  /\ trust # "none" => commitAlone
  /\ trust # "none" /\ file = "key" /\ stage \in {"temp", "rename", "sync"} =>
       "real" \notin durable.manifest
  /\ commitAlone =>
       /\ file = "key" /\ stage = "sync" => dir.key = commitKey
       /\ file = "template" => dir.key = commitKey
       /\ file = "template" /\ stage = "sync" => dir.template = Profile(commitKey)
       /\ file = "manifest" =>
            /\ dir.key = commitKey /\ durable.key = {commitKey}
            /\ dir.template = Profile(commitKey)
            /\ durable.template = {Profile(commitKey)}
       /\ file = "manifest" /\ stage = "sync" => dir.manifest = "real"

CommitIsDurable == trust = "committed" => durable.manifest = {"real"}

\* What Forget Me has removed is gone for as long as nothing that writes has begun.
ForgetProceeds ==
  forgotten = "alone" =>
    /\ stage = "idle"
    /\ forget # "template" => dir.template = NoTemplate
    /\ forget = "idle" => dir.key = 0

IInv ==
  /\ TypeOK /\ CommitHasKey /\ SeenMayLast
  /\ KeysAreOld /\ StraysAreApart
  /\ BackedForGood /\ CommitProceeds /\ CommitIsDurable
  /\ ForgetProceeds

----------------------------------------------------------------------------
(* The files, one by one. *)

LEMMA ReplaceKey ==
  ASSUME TypeOK, NEW k \in Keys, Replace("key", k)
  PROVE  /\ dir' \in [key : Keys, template : Templates, manifest : Manifests]
         /\ durable' \in [key : SUBSET Keys, template : SUBSET Templates,
                          manifest : SUBSET Manifests]
         /\ dir'.key = k /\ dir'.template = dir.template
         /\ dir'.manifest = dir.manifest
         /\ durable'.key = durable.key \cup {k}
         /\ durable'.template = durable.template
         /\ durable'.manifest = durable.manifest
  BY DEF TypeOK, Replace

LEMMA ReplaceTemplate ==
  ASSUME TypeOK, NEW t \in Templates, Replace("template", t)
  PROVE  /\ dir' \in [key : Keys, template : Templates, manifest : Manifests]
         /\ durable' \in [key : SUBSET Keys, template : SUBSET Templates,
                          manifest : SUBSET Manifests]
         /\ dir'.key = dir.key /\ dir'.template = t
         /\ dir'.manifest = dir.manifest
         /\ durable'.key = durable.key
         /\ durable'.template = durable.template \cup {t}
         /\ durable'.manifest = durable.manifest
  BY DEF TypeOK, Replace

LEMMA ReplaceManifest ==
  ASSUME TypeOK, NEW m \in Manifests, Replace("manifest", m)
  PROVE  /\ dir' \in [key : Keys, template : Templates, manifest : Manifests]
         /\ durable' \in [key : SUBSET Keys, template : SUBSET Templates,
                          manifest : SUBSET Manifests]
         /\ dir'.key = dir.key /\ dir'.template = dir.template
         /\ dir'.manifest = m
         /\ durable'.key = durable.key
         /\ durable'.template = durable.template
         /\ durable'.manifest = durable.manifest \cup {m}
  BY DEF TypeOK, Replace

LEMMA SyncedParts ==
  ASSUME NEW d \in [key : Keys, template : Templates, manifest : Manifests]
  PROVE  /\ Synced(d) \in [key : SUBSET Keys, template : SUBSET Templates,
                           manifest : SUBSET Manifests]
         /\ Synced(d).key = {d.key} /\ Synced(d).template = {d.template}
         /\ Synced(d).manifest = {d.manifest}
  BY DEF Synced, Files

LEMMA EmptyParts ==
  /\ Empty.key = 0 /\ Empty.template = NoTemplate /\ Empty.manifest = "none"
  /\ 0 \in Keys /\ NoTemplate \in Templates /\ Placeholder \in Templates
  /\ "none" \in Manifests /\ "real" \in Manifests /\ "placeholder" \in Manifests
  /\ \A k \in Keys : k # 0 => Profile(k) \in Templates
  /\ \A k : Profile(k).kind = "real" /\ Profile(k).key = k
  /\ NoTemplate.key = 0 /\ Placeholder.key = 0
  BY StorageAssumption
     DEF StorageAssumption, Empty, Keys, Templates, Manifests, Profile, NoTemplate, Placeholder

LEMMA TemplateKeys == \A t \in Templates : t.key \in Keys
  BY EmptyParts DEF Templates

LEMMA InitHolds == Init => IInv
<1> SUFFICES ASSUME Init PROVE IInv
  OBVIOUS
<1>1. dir \in [key : Keys, template : Templates, manifest : Manifests]
  BY EmptyParts DEF Init, Empty
<1>2. durable = Synced(dir)
  BY DEF Init, Synced
<1>3. TypeOK
  <2>1. home \in {"missing", "made", "lasting"}
    BY DEF Init
  <2> QED
    BY <1>1, <1>2, <2>1, SyncedParts, EmptyParts, StorageAssumption
       DEF StorageAssumption, Init, TypeOK, Files, Keys
<1>4. CommitHasKey /\ SeenMayLast /\ KeysAreOld
  BY <1>1, <1>2, SyncedParts, EmptyParts
     DEF Init, CommitHasKey, SeenMayLast, KeysAreOld
<1>5. StraysAreApart /\ BackedForGood
  BY <1>1, <1>2, SyncedParts, EmptyParts
     DEF Init, StraysAreApart, NewKey, BackedForGood
<1>6. CommitProceeds /\ CommitIsDurable /\ ForgetProceeds
  BY DEF Init, CommitProceeds, CommitIsDurable, ForgetProceeds
<1> QED
  BY <1>3, <1>4, <1>5, <1>6 DEF IInv

----------------------------------------------------------------------------
(* The programs beside the daemon. *)

\* The invariant without the types and Forget Me's part.
FilesInv ==
  /\ CommitHasKey /\ SeenMayLast /\ KeysAreOld /\ StraysAreApart
  /\ BackedForGood /\ CommitProceeds /\ CommitIsDurable

\* What the files hold counts no more once another program has written; what is left
\* to keep is that it writes no key that lies under a temporary name.
LEMMA OthersKeepFiles ==
  ASSUME TypeOK, FilesInv, OtherWrites, UNCHANGED <<strays, stage, file, commitKey>>,
         \/ \E k \in Keys : /\ Replace("key", k)
                            /\ \/ k = 0 /\ UNCHANGED nextKey
                               \/ k = nextKey /\ nextKey' = nextKey + 1
         \/ \E t \in Templates : Replace("template", t) /\ UNCHANGED nextKey
         \/ \E m \in Manifests : Replace("manifest", m) /\ UNCHANGED nextKey
  PROVE  FilesInv'
<1>1. trust' = "none" /\ (commitAlone' => stage = "idle")
  BY DEF OtherWrites
<1>2. nextKey \in Nat /\ nextKey # 0 /\ strays.key \subseteq Nat /\ durable.key \subseteq Nat
      /\ commitKey \in Nat /\ \A t \in strays.template : t.key \in Nat
  BY TemplateKeys DEF TypeOK, Keys
<1>3. CommitHasKey' /\ BackedForGood' /\ CommitIsDurable'
  BY <1>1 DEF FilesInv, CommitHasKey, BackedForGood, CommitIsDurable
<1>4. CommitProceeds'
  BY <1>1 DEF FilesInv, CommitHasKey, CommitProceeds
<1>5. SeenMayLast'
  BY ReplaceKey, ReplaceTemplate, ReplaceManifest DEF FilesInv, SeenMayLast
<1>6. KeysAreOld' /\ StraysAreApart'
  <2>1. ASSUME NEW k \in Keys, Replace("key", k),
               \/ k = 0 /\ UNCHANGED nextKey
               \/ k = nextKey /\ nextKey' = nextKey + 1
        PROVE  KeysAreOld' /\ StraysAreApart'
    <3>1. durable'.key = durable.key \cup {k}
      BY <2>1, ReplaceKey
    <3>2. KeysAreOld'
      BY <1>2, <2>1, <3>1 DEF FilesInv, KeysAreOld
    <3>3. k \notin strays.key /\ (NewKey => commitKey # k)
      BY <1>2, <2>1 DEF FilesInv, KeysAreOld, StraysAreApart, CommitHasKey, NewKey
    <3> QED
      BY <3>1, <3>2, <3>3 DEF FilesInv, StraysAreApart, NewKey
  <2>2. ASSUME durable'.key = durable.key, UNCHANGED nextKey
        PROVE  KeysAreOld' /\ StraysAreApart'
    BY <2>2 DEF FilesInv, KeysAreOld, StraysAreApart, NewKey
  <2> QED
    BY <2>1, <2>2, ReplaceTemplate, ReplaceManifest
<1> QED
  BY <1>3, <1>4, <1>5, <1>6 DEF FilesInv

LEMMA QuietKeepsFiles ==
  ASSUME FilesInv, UNCHANGED <<dir, durable, strays, nextKey, stage, file, commitKey>>,
         UNCHANGED <<trust, commitAlone>>
  PROVE  FilesInv'
  BY DEF FilesInv, CommitHasKey, SeenMayLast, KeysAreOld, StraysAreApart, NewKey,
         BackedForGood, CommitProceeds, CommitIsDurable

LEMMA WriterBeginsStep ==
  ASSUME TypeOK, WriterBegins
  PROVE  forgotten' \in {"no", "alone", "shared", "unknown"} /\ forgotten' # "alone"
  BY DEF WriterBegins, TypeOK

LEMMA HomeStep ==
  ASSUME TypeOK, MakesHome
  PROVE  home' \in {"missing", "made", "lasting"}
  BY DEF MakesHome, TypeOK

LEMMA KeyToolStep ==
  ASSUME IInv, KeyTool
  PROVE  IInv'
<1> USE EmptyParts
<1>1. ASSUME NEW overwrite \in BOOLEAN, KeyToolCreates(overwrite)
      PROVE  IInv'
  <2>1. FilesInv'
    BY <1>1, QuietKeepsFiles DEF IInv, FilesInv, KeyToolCreates, daemonVars, historyVars
  <2>2. TypeOK' /\ ForgetProceeds'
    BY <1>1, HomeStep
       DEF IInv, TypeOK, ForgetProceeds, KeyToolCreates, daemonVars, historyVars
  <2> QED
    BY <2>1, <2>2 DEF IInv, FilesInv
<1>2. CASE KeyOtherWrites
  <2>1. FilesInv'
    BY <1>2, OthersKeepFiles DEF IInv, FilesInv, KeyOtherWrites, daemonVars
  <2>2. TypeOK'
    <3>1. nextKey' \in 1..(MaxKeys + 1)
      BY <1>2, StorageAssumption DEF StorageAssumption, IInv, TypeOK, KeyOtherWrites, Keys
    <3>2. trust' = "none" /\ commitAlone' \in BOOLEAN
      BY <1>2 DEF KeyOtherWrites, OtherWrites
    <3> QED
      BY <1>2, <3>1, <3>2, ReplaceKey, WriterBeginsStep
         DEF IInv, TypeOK, KeyOtherWrites, daemonVars
  <2>3. ForgetProceeds'
    BY <1>2, WriterBeginsStep DEF IInv, ForgetProceeds, KeyOtherWrites
  <2> QED
    BY <2>1, <2>2, <2>3 DEF IInv, FilesInv
<1>3. CASE KeyToolDeletes
  <2>0. Replace("key", 0)
    BY <1>3 DEF KeyToolDeletes, Remove, Empty
  <2>1. FilesInv'
    BY <1>3, <2>0, OthersKeepFiles DEF IInv, FilesInv, KeyToolDeletes, daemonVars
  <2>2. TypeOK'
    <3>1. trust' = "none" /\ commitAlone' \in BOOLEAN
      BY <1>3 DEF KeyToolDeletes, OtherWrites
    <3> QED
      BY <1>3, <2>0, <3>1, ReplaceKey DEF IInv, TypeOK, KeyToolDeletes, daemonVars, toolVars
  <2>3. ForgetProceeds'
    BY <1>3, <2>0, ReplaceKey DEF IInv, ForgetProceeds, KeyToolDeletes, daemonVars
  <2> QED
    BY <2>1, <2>2, <2>3 DEF IInv, FilesInv
<1> QED
  BY <1>1, <1>2, <1>3 DEF KeyTool

LEMMA TemplateToolStep ==
  ASSUME IInv, TemplateTool
  PROVE  IInv'
<1> USE EmptyParts
<1>1. ASSUME NEW overwrite \in BOOLEAN, PlaceholderBegins(overwrite)
      PROVE  IInv'
  <2>1. FilesInv'
    BY <1>1, QuietKeepsFiles
       DEF IInv, FilesInv, PlaceholderBegins, daemonVars, historyVars
  <2>2. TypeOK' /\ ForgetProceeds'
    BY <1>1, HomeStep
       DEF IInv, TypeOK, ForgetProceeds, PlaceholderBegins, daemonVars, historyVars
  <2> QED
    BY <2>1, <2>2 DEF IInv, FilesInv
<1>2. CASE PlaceholderWrites
  <2>0. \/ Replace("template", Placeholder)
        \/ Replace("manifest", "placeholder")
    BY <1>2 DEF PlaceholderWrites
  <2>1. FilesInv'
    BY <1>2, <2>0, OthersKeepFiles DEF IInv, FilesInv, PlaceholderWrites, daemonVars
  <2>2. TypeOK'
    <3>1. trust' = "none" /\ commitAlone' \in BOOLEAN
          /\ placeholder' \in {"idle", "template", "manifest", "delete"}
      BY <1>2 DEF PlaceholderWrites, OtherWrites
    <3> QED
      BY <1>2, <2>0, <3>1, ReplaceTemplate, ReplaceManifest, WriterBeginsStep
         DEF IInv, TypeOK, PlaceholderWrites, daemonVars
  <2>3. ForgetProceeds'
    BY <1>2, WriterBeginsStep DEF IInv, ForgetProceeds, PlaceholderWrites
  <2> QED
    BY <2>1, <2>2, <2>3 DEF IInv, FilesInv
<1>3. CASE TemplateToolDeletes
  <2>0. \/ Replace("template", NoTemplate)
        \/ Replace("manifest", "none")
    BY <1>3 DEF TemplateToolDeletes, Remove, Empty
  <2>1. FilesInv'
    BY <1>3, <2>0, OthersKeepFiles DEF IInv, FilesInv, TemplateToolDeletes, daemonVars
  <2>2. TypeOK'
    <3>1. trust' = "none" /\ commitAlone' \in BOOLEAN
          /\ placeholder' \in {"idle", "template", "manifest", "delete"}
      BY <1>3 DEF TemplateToolDeletes, OtherWrites
    <3> QED
      BY <1>3, <2>0, <3>1, ReplaceTemplate, ReplaceManifest
         DEF IInv, TypeOK, TemplateToolDeletes, daemonVars
  <2>3. ForgetProceeds'
    BY <1>3, <2>0, ReplaceTemplate, ReplaceManifest
       DEF IInv, ForgetProceeds, TemplateToolDeletes, daemonVars
  <2> QED
    BY <2>1, <2>2, <2>3 DEF IInv, FilesInv
<1> QED
  BY <1>1, <1>2, <1>3 DEF TemplateTool

LEMMA ToolStopsStep ==
  ASSUME IInv, ToolStops
  PROVE  IInv'
<1>1. FilesInv'
  BY QuietKeepsFiles DEF IInv, FilesInv, ToolStops, diskVars, daemonVars, historyVars
<1>2. TypeOK' /\ ForgetProceeds'
  BY DEF IInv, TypeOK, ForgetProceeds, ToolStops, diskVars, daemonVars, historyVars
<1> QED
  BY <1>1, <1>2 DEF IInv, FilesInv

LEMMA ForgetMeStep ==
  ASSUME IInv, ForgetMe
  PROVE  IInv'
<1> USE EmptyParts
<1>1. CASE ForgetBegins
  <2>1. FilesInv'
    BY <1>1, QuietKeepsFiles DEF IInv, FilesInv, ForgetBegins, diskVars, daemonVars
  <2>2. TypeOK' /\ ForgetProceeds'
    BY <1>1 DEF IInv, TypeOK, ForgetProceeds, ForgetBegins, diskVars, daemonVars, toolVars
  <2> QED
    BY <2>1, <2>2 DEF IInv, FilesInv
<1>2. CASE ForgetRemoves
  <2>0. \/ forget = "template" /\ forget' = "manifest" /\ Replace("template", NoTemplate)
        \/ forget = "manifest" /\ forget' = "key" /\ Replace("manifest", "none")
        \/ forget = "key" /\ forget' = "idle" /\ Replace("key", 0)
    BY <1>2 DEF IInv, TypeOK, ForgetRemoves, ForgetAfter, Remove, Empty
  <2>1. FilesInv'
    BY <1>2, <2>0, OthersKeepFiles DEF IInv, FilesInv, ForgetRemoves, daemonVars
  <2>2. TypeOK'
    <3>1. trust' = "none" /\ commitAlone' \in BOOLEAN
      BY <1>2 DEF ForgetRemoves, OtherWrites
    <3> QED
      BY <1>2, <2>0, <3>1, ReplaceKey, ReplaceTemplate, ReplaceManifest
         DEF IInv, TypeOK, ForgetRemoves, daemonVars, toolVars
  <2>3. ForgetProceeds'
    BY <1>2, <2>0, ReplaceKey, ReplaceTemplate, ReplaceManifest
       DEF IInv, ForgetProceeds, ForgetRemoves, daemonVars
  <2> QED
    BY <2>1, <2>2, <2>3 DEF IInv, FilesInv
<1>3. CASE ForgetFails
  <2>1. FilesInv'
    BY <1>3, QuietKeepsFiles DEF IInv, FilesInv, ForgetFails, diskVars, daemonVars
  <2>2. TypeOK' /\ ForgetProceeds'
    BY <1>3 DEF IInv, TypeOK, ForgetProceeds, ForgetFails, ForgetAfter, diskVars, daemonVars, toolVars
  <2> QED
    BY <2>1, <2>2 DEF IInv, FilesInv
<1> QED
  BY <1>1, <1>2, <1>3 DEF ForgetMe

----------------------------------------------------------------------------
(* The commit. *)

LEMMA CommitEndsStep ==
  ASSUME TypeOK, FilesInv, CommitEnds, UNCHANGED <<dir, durable, nextKey, trust>>,
         \/ UNCHANGED strays
         \/ strays' = TemporaryStays
  PROVE  FilesInv' /\ strays' \in [key : SUBSET Keys, template : SUBSET Templates]
<1> USE EmptyParts
<1>1. stage' = "idle" /\ file' = "key" /\ commitKey' = 0 /\ commitAlone' = TRUE
  BY DEF CommitEnds
<1>2. CommitHasKey' /\ SeenMayLast' /\ BackedForGood' /\ CommitIsDurable' /\ CommitProceeds'
  BY <1>1
     DEF FilesInv, CommitHasKey, SeenMayLast, BackedForGood, CommitIsDurable, CommitProceeds
<1>3. 0 < nextKey /\ ~NewKey'
  BY <1>1, StorageAssumption DEF StorageAssumption, TypeOK, NewKey
<1>4. CASE UNCHANGED strays
  BY <1>1, <1>2, <1>3, <1>4 DEF TypeOK, FilesInv, KeysAreOld, StraysAreApart
<1>5. CASE stage = "rename" /\ file = "key" /\ strays' = TemporaryStays
  <2>1. /\ strays' \in [key : SUBSET Keys, template : SUBSET Templates]
        /\ strays'.key = strays.key \cup {commitKey} /\ strays'.template = strays.template
    BY <1>5 DEF TemporaryStays, Content, TypeOK
  <2>2. NewKey /\ commitKey # 0
    BY <1>5 DEF NewKey, FilesInv, CommitHasKey
  <2>3. KeysAreOld'
    BY <1>1, <1>3, <2>1 DEF FilesInv, KeysAreOld
  <2>4. StraysAreApart'
    BY <1>1, <1>3, <2>1, <2>2 DEF FilesInv, StraysAreApart
  <2> QED
    BY <1>2, <2>1, <2>3, <2>4 DEF FilesInv
<1>6. CASE stage = "rename" /\ file = "template" /\ strays' = TemporaryStays
  <2>1. Profile(commitKey) \in Templates
    BY <1>6 DEF TypeOK, FilesInv, CommitHasKey
  <2>2. TemporaryStays = [strays EXCEPT !.template = @ \cup {Profile(commitKey)}]
    BY <1>6 DEF TemporaryStays, Content, Profile
  <2>3. /\ strays' \in [key : SUBSET Keys, template : SUBSET Templates]
        /\ strays'.key = strays.key
        /\ strays'.template = strays.template \cup {Profile(commitKey)}
    BY <1>6, <2>1, <2>2 DEF TypeOK
  <2>4. KeysAreOld'
    BY <1>1, <1>3, <2>3 DEF FilesInv, KeysAreOld
  <2>5. StraysAreApart'
    BY <1>1, <1>3, <2>3 DEF FilesInv, StraysAreApart
  <2> QED
    BY <1>2, <2>3, <2>4, <2>5 DEF FilesInv
<1>7. CASE ~(stage = "rename" /\ file # "manifest") /\ strays' = TemporaryStays
  BY <1>1, <1>2, <1>3, <1>7
     DEF TemporaryStays, TypeOK, FilesInv, KeysAreOld, StraysAreApart
<1> QED
  BY <1>4, <1>5, <1>6, <1>7 DEF TypeOK, Files, FilesInv

LEMMA CommitEndsTypes ==
  ASSUME CommitEnds
  PROVE  stage' = "idle" /\ file' \in Files /\ commitKey' \in Keys /\ commitAlone' \in BOOLEAN
  BY EmptyParts DEF CommitEnds, Files

\* The key of a commit, once it has one.
LEMMA LookForKeyStep ==
  ASSUME IInv, LookForKey
  PROVE  IInv'
<1> USE EmptyParts
<1>0. UNCHANGED <<dir, durable, strays, home, trust, commitAlone, forgotten>>
  BY DEF LookForKey, diskVars, historyVars
<1>1. stage = "look" /\ file = "key" /\ nextKey \in Nat /\ nextKey # 0
  BY StorageAssumption
     DEF StorageAssumption, IInv, TypeOK, CommitHasKey, LookForKey
<1>2. ForgetProceeds' /\ SeenMayLast' /\ BackedForGood' /\ CommitIsDurable'
  BY <1>0, <1>1
     DEF IInv, ForgetProceeds, SeenMayLast, BackedForGood, CommitIsDurable
<1>3. CASE stage' = "read" /\ UNCHANGED <<nextKey, file, commitKey>>
  <2>1. TypeOK'
    BY <1>0, <1>3 DEF LookForKey, IInv, TypeOK, toolVars
  <2>2. CommitHasKey' /\ KeysAreOld' /\ StraysAreApart' /\ CommitProceeds'
    BY <1>0, <1>1, <1>3
       DEF IInv, CommitHasKey, KeysAreOld, StraysAreApart, NewKey, CommitProceeds
  <2> QED
    BY <1>2, <2>1, <2>2 DEF IInv
<1>4. CASE /\ Missing("key") /\ nextKey \in Keys
           /\ stage' = "temp" /\ file' = "key" /\ commitKey' = nextKey
           /\ nextKey' = nextKey + 1
  <2>1. TypeOK'
    <3>1. nextKey' \in 1..(MaxKeys + 1) /\ file' \in Files
      BY <1>4, StorageAssumption DEF StorageAssumption, Keys, IInv, TypeOK, Files
    <3> QED
      BY <1>0, <1>4, <3>1 DEF LookForKey, IInv, TypeOK, toolVars
  <2>2. dir.key = 0
    BY <1>4 DEF Missing
  <2>3. CommitHasKey' /\ CommitProceeds'
    BY <1>0, <1>1, <1>4, <2>2
       DEF IInv, CommitHasKey, CommitProceeds, BackedForGood
  <2>4. /\ strays.key \subseteq Nat /\ durable.key \subseteq Nat /\ commitKey \in Nat
        /\ \A t \in strays.template : t.key \in Nat
    BY TemplateKeys DEF IInv, TypeOK, Keys
  <2>5. KeysAreOld'
    BY <1>0, <1>1, <1>4, <2>4 DEF IInv, KeysAreOld
  <2>6. nextKey \notin durable.key \cup strays.key
    BY <1>1, <2>4 DEF IInv, KeysAreOld
  <2>7. \A t \in strays.template : t.key # nextKey
    BY <1>1, TemplateKeys DEF IInv, TypeOK, Keys, KeysAreOld
  <2>8. StraysAreApart'
    BY <1>0, <1>1, <1>4, <2>6, <2>7 DEF IInv, StraysAreApart
  <2> QED
    BY <1>2, <2>1, <2>3, <2>5, <2>8 DEF IInv
<1> QED
  BY <1>3, <1>4 DEF LookForKey

\* Any key that is in its place will do, whoever put it there.
LEMMA ReadKeyStep ==
  ASSUME IInv, ReadKey
  PROVE  IInv'
<1>0. /\ UNCHANGED <<dir, durable, strays, home, nextKey, trust, commitAlone, forgotten>>
      /\ stage = "read" /\ stage' = "temp" /\ file' = "template"
      /\ commitKey' = dir.key /\ dir.key # 0
  BY EmptyParts DEF ReadKey, diskVars, historyVars, Missing
<1>1. TypeOK'
  BY <1>0 DEF ReadKey, IInv, TypeOK, toolVars, Files
<1>2. CommitHasKey' /\ SeenMayLast' /\ BackedForGood' /\ CommitIsDurable' /\ CommitProceeds'
  BY <1>0
     DEF IInv, CommitHasKey, SeenMayLast, BackedForGood, CommitIsDurable, CommitProceeds
<1>3. KeysAreOld' /\ StraysAreApart'
  BY <1>0 DEF IInv, SeenMayLast, KeysAreOld, StraysAreApart, NewKey
<1>4. ForgetProceeds'
  BY <1>0 DEF IInv, ForgetProceeds
<1> QED
  BY <1>1, <1>2, <1>3, <1>4 DEF IInv

LEMMA WriteTemporaryStep ==
  ASSUME IInv, WriteTemporary
  PROVE  IInv'
<1>0. /\ UNCHANGED <<dir, durable, strays, home, nextKey, file, commitKey>>
      /\ UNCHANGED <<trust, commitAlone, forgotten>>
      /\ stage = "temp" /\ stage' = "rename"
  BY DEF WriteTemporary, diskVars, historyVars
<1>1. TypeOK'
  BY <1>0 DEF WriteTemporary, IInv, TypeOK, toolVars
<1>2. CommitHasKey' /\ SeenMayLast' /\ BackedForGood' /\ CommitIsDurable' /\ CommitProceeds'
  BY <1>0
     DEF IInv, CommitHasKey, SeenMayLast, BackedForGood, CommitIsDurable, CommitProceeds
<1>3. KeysAreOld' /\ StraysAreApart' /\ ForgetProceeds'
  BY <1>0 DEF IInv, KeysAreOld, StraysAreApart, NewKey, ForgetProceeds
<1> QED
  BY <1>1, <1>2, <1>3 DEF IInv

LEMMA RenameTemporaryStep ==
  ASSUME IInv, RenameTemporary
  PROVE  IInv'
<1> USE EmptyParts
<1>0. /\ UNCHANGED <<strays, nextKey, file, commitKey, trust, commitAlone, forgotten>>
      /\ stage = "rename" /\ stage' = "sync" /\ commitKey # 0
  BY DEF RenameTemporary, historyVars, IInv, CommitHasKey
<1>1. ~NewKey' /\ ForgetProceeds'
  BY <1>0 DEF NewKey, IInv, ForgetProceeds
<1>2. ASSUME file = "key"
      PROVE  IInv'
  <2>1. Replace("key", commitKey)
    BY <1>2 DEF RenameTemporary, Content
  <2>2. TypeOK'
    BY <1>0, <2>1, ReplaceKey DEF RenameTemporary, IInv, TypeOK, toolVars
  <2>3. CommitHasKey' /\ SeenMayLast' /\ KeysAreOld' /\ StraysAreApart'
    BY <1>0, <1>1, <1>2, <2>1, ReplaceKey
       DEF IInv, TypeOK, CommitHasKey, SeenMayLast, KeysAreOld, StraysAreApart, NewKey
  <2>4. BackedForGood' /\ CommitIsDurable' /\ CommitProceeds'
    BY <1>0, <1>2, <2>1, ReplaceKey
       DEF IInv, TypeOK, BackedForGood, CommitIsDurable, CommitProceeds
  <2> QED
    BY <1>1, <2>2, <2>3, <2>4 DEF IInv
<1>3. ASSUME file = "template"
      PROVE  IInv'
  <2>1. Replace("template", Profile(commitKey)) /\ Profile(commitKey) \in Templates
    BY <1>0, <1>3 DEF RenameTemporary, Content, Profile, IInv, TypeOK
  <2>2. TypeOK'
    BY <1>0, <2>1, ReplaceTemplate DEF RenameTemporary, IInv, TypeOK, toolVars
  <2>3. CommitHasKey' /\ SeenMayLast' /\ KeysAreOld' /\ StraysAreApart'
    BY <1>0, <1>1, <1>3, <2>1, ReplaceTemplate
       DEF IInv, CommitHasKey, SeenMayLast, KeysAreOld, StraysAreApart
  <2>4. BackedForGood' /\ CommitIsDurable' /\ CommitProceeds'
    BY <1>0, <1>3, <2>1, ReplaceTemplate
       DEF IInv, SeenMayLast, BackedForGood, CommitIsDurable, CommitProceeds
  <2> QED
    BY <1>1, <2>2, <2>3, <2>4 DEF IInv
<1>4. ASSUME file = "manifest"
      PROVE  IInv'
  <2>1. Replace("manifest", "real")
    BY <1>4 DEF RenameTemporary, Content
  <2>2. TypeOK'
    BY <1>0, <2>1, ReplaceManifest DEF RenameTemporary, IInv, TypeOK, toolVars
  <2>3. CommitHasKey' /\ SeenMayLast' /\ KeysAreOld' /\ StraysAreApart'
    BY <1>0, <1>1, <1>4, <2>1, ReplaceManifest
       DEF IInv, CommitHasKey, SeenMayLast, KeysAreOld, StraysAreApart
  <2>4. BackedForGood' /\ CommitIsDurable' /\ CommitProceeds'
    BY <1>0, <1>4, <2>1, ReplaceManifest
       DEF IInv, BackedForGood, CommitIsDurable, CommitProceeds
  <2> QED
    BY <1>1, <2>2, <2>3, <2>4 DEF IInv
<1> QED
  BY <1>2, <1>3, <1>4 DEF IInv, TypeOK, Files

LEMMA SyncDirectoryStep ==
  ASSUME IInv, SyncDirectory
  PROVE  IInv'
<1> USE EmptyParts
<1>0. /\ UNCHANGED <<dir, strays, nextKey, forgotten>> /\ stage = "sync"
      /\ commitKey # 0
  BY DEF SyncDirectory, IInv, CommitHasKey
<1>1. /\ durable' \in [key : SUBSET Keys, template : SUBSET Templates,
                       manifest : SUBSET Manifests]
      /\ durable'.key = {dir.key} /\ durable'.template = {dir.template}
      /\ durable'.manifest = {dir.manifest}
  BY SyncedParts DEF SyncDirectory, IInv, TypeOK
<1>2. SeenMayLast' /\ ForgetProceeds' /\ dir.key \in durable.key
  BY <1>0, <1>1 DEF IInv, SeenMayLast, ForgetProceeds
<1>3. CASE file = "manifest"
  <2>1. /\ trust' = IF commitAlone THEN "committed" ELSE trust
        /\ stage' = "idle" /\ file' = "key" /\ commitKey' = 0 /\ commitAlone' = TRUE
    BY <1>3 DEF SyncDirectory, NextFile, CommitEnds
  <2>2. TypeOK'
    BY <1>0, <1>1, <2>1 DEF SyncDirectory, IInv, TypeOK, toolVars, Files
  <2>3. CommitHasKey' /\ CommitProceeds' /\ ~NewKey'
    BY <2>1 DEF CommitHasKey, CommitProceeds, NewKey
  <2>4. KeysAreOld' /\ StraysAreApart'
    BY <1>0, <1>1, <1>2, <2>1, <2>3, StorageAssumption
       DEF StorageAssumption, IInv, TypeOK, KeysAreOld, StraysAreApart
  <2>5. BackedForGood' /\ CommitIsDurable'
    <3>1. trust' # "none" => /\ dir.key = commitKey /\ dir.template = Profile(commitKey)
                             /\ dir.manifest = "real"
      BY <1>0, <1>3, <2>1 DEF IInv, CommitProceeds
    <3> QED
      BY <1>0, <1>1, <3>1 DEF BackedForGood, CommitIsDurable
  <2> QED
    BY <1>2, <2>2, <2>3, <2>4, <2>5 DEF IInv
<1>4. CASE file \in {"key", "template"}
  <2>1. /\ UNCHANGED <<commitKey, trust, commitAlone>> /\ stage' = "temp"
        /\ file = "key" => file' = "template"
        /\ file = "template" => file' = "manifest"
    BY <1>4 DEF SyncDirectory, NextFile
  <2>2. TypeOK'
    BY <1>0, <1>1, <1>4, <2>1 DEF SyncDirectory, IInv, TypeOK, toolVars, Files
  <2>3. CommitHasKey' /\ ~NewKey'
    BY <1>0, <1>4, <2>1 DEF CommitHasKey, NewKey
  <2>4. KeysAreOld' /\ StraysAreApart'
    BY <1>0, <1>1, <1>2, <2>1, <2>3
       DEF IInv, KeysAreOld, StraysAreApart
  <2>5. BackedForGood' /\ CommitIsDurable' /\ CommitProceeds'
    BY <1>0, <1>1, <1>4, <2>1
       DEF IInv, SeenMayLast, BackedForGood, CommitIsDurable, CommitProceeds
  <2> QED
    BY <1>2, <2>2, <2>3, <2>4, <2>5 DEF IInv
<1> QED
  BY <1>3, <1>4 DEF IInv, TypeOK, Files

LEMMA CommitStep ==
  ASSUME IInv, Commit
  PROVE  IInv'
<1>1. CASE CommitBegins
  <2>1. /\ UNCHANGED <<dir, durable, strays, nextKey, file, commitKey, trust, commitAlone>>
        /\ stage = "idle" /\ stage' = "look"
    BY <1>1 DEF CommitBegins
  <2>2. TypeOK' /\ ForgetProceeds'
    BY <1>1, <2>1, WriterBeginsStep, HomeStep
       DEF CommitBegins, IInv, TypeOK, ForgetProceeds, toolVars
  <2>3. CommitHasKey' /\ SeenMayLast' /\ KeysAreOld' /\ StraysAreApart'
    BY <2>1 DEF IInv, CommitHasKey, SeenMayLast, KeysAreOld, StraysAreApart, NewKey
  <2>4. BackedForGood' /\ CommitIsDurable' /\ CommitProceeds'
    BY <2>1 DEF IInv, CommitHasKey, BackedForGood, CommitIsDurable, CommitProceeds
  <2> QED
    BY <2>2, <2>3, <2>4 DEF IInv
<1>2. CASE CommitFails \/ DaemonDies
  <2>1. /\ CommitEnds
        /\ UNCHANGED <<dir, durable, home, nextKey, trust, toolVars, forget, forgotten>>
        /\ UNCHANGED strays \/ strays' = TemporaryStays
        /\ stage # "idle"
    BY <1>2 DEF CommitFails, DaemonDies, diskVars
  <2>2. FilesInv' /\ strays' \in [key : SUBSET Keys, template : SUBSET Templates]
    BY <2>1, CommitEndsStep DEF IInv, FilesInv
  <2>3. TypeOK' /\ ForgetProceeds'
    BY <2>1, <2>2, CommitEndsTypes DEF IInv, TypeOK, ForgetProceeds, toolVars
  <2> QED
    BY <2>2, <2>3 DEF IInv, FilesInv
<1> QED
  BY <1>1, <1>2, LookForKeyStep, ReadKeyStep, WriteTemporaryStep, RenameTemporaryStep,
     SyncDirectoryStep DEF Commit

----------------------------------------------------------------------------
(* The power. *)

LEMMA PowerLossStep ==
  ASSUME IInv, PowerLoss
  PROVE  IInv'
<1> USE EmptyParts
<1>1. /\ stage' = "idle" /\ file' = "key" /\ commitKey' = 0 /\ commitAlone' = TRUE
      /\ UNCHANGED nextKey /\ forgotten' = "unknown"
      /\ strays'.key = {} /\ strays'.template = {}
  BY DEF PowerLoss, CommitEnds
<1>2. /\ trust' \in {"fresh", "committed", "lost", "none"}
      /\ home' \in {"missing", "made", "lasting"}
      /\ trust' # "none" => trust # "none"
  BY DEF PowerLoss, IInv, TypeOK
<1>3. \/ /\ trust' = trust
         /\ \E k \in durable.key, t \in durable.template, m \in durable.manifest :
              dir' = [key |-> k, template |-> t, manifest |-> m]
      \/ trust' # "committed" /\ dir' = Empty
  BY DEF PowerLoss
<1>4. /\ dir' \in [key : Keys, template : Templates, manifest : Manifests]
      /\ dir'.key \in durable.key \/ dir'.key = 0
  BY <1>3 DEF IInv, TypeOK, Empty
<1>5. /\ durable' \in [key : SUBSET Keys, template : SUBSET Templates,
                       manifest : SUBSET Manifests]
      /\ durable'.key = {dir'.key} /\ durable'.template = {dir'.template}
      /\ durable'.manifest = {dir'.manifest}
  BY <1>4, SyncedParts DEF PowerLoss
<1>6. TypeOK'
  BY <1>1, <1>2, <1>4, <1>5 DEF PowerLoss, IInv, TypeOK, Files
<1>7. CommitHasKey' /\ SeenMayLast' /\ ForgetProceeds'
  BY <1>1, <1>5 DEF CommitHasKey, SeenMayLast, ForgetProceeds
<1>8. CommitProceeds'
  BY <1>1 DEF CommitProceeds
<1>9. KeysAreOld' /\ StraysAreApart'
  BY <1>1, <1>4, <1>5, StorageAssumption
     DEF StorageAssumption, IInv, TypeOK, KeysAreOld, StraysAreApart, NewKey
<1>10. BackedForGood' /\ CommitIsDurable'
  <2>1. CASE trust' # "committed" /\ dir' = Empty
    BY <1>5, <2>1 DEF BackedForGood, CommitIsDurable
  <2>2. ASSUME trust' = trust,
               NEW k \in durable.key, NEW t \in durable.template,
               NEW m \in durable.manifest,
               dir' = [key |-> k, template |-> t, manifest |-> m]
        PROVE  BackedForGood' /\ CommitIsDurable'
    BY <1>5, <2>2 DEF IInv, BackedForGood, CommitIsDurable
  <2> QED
    BY <1>3, <2>1, <2>2
<1> QED
  BY <1>6, <1>7, <1>8, <1>9, <1>10 DEF IInv

LEMMA StepKeepsIInv == IInv /\ [Next]_vars => IInv'
<1> SUFFICES ASSUME IInv, [Next]_vars PROVE IInv'
  OBVIOUS
<1>1. CASE Next
  BY <1>1, CommitStep, KeyToolStep, TemplateToolStep, ToolStopsStep, ForgetMeStep, PowerLossStep
     DEF Next
<1>2. CASE UNCHANGED vars
  <2>1. FilesInv'
    BY <1>2, QuietKeepsFiles DEF IInv, FilesInv, vars, diskVars, daemonVars, historyVars
  <2>2. TypeOK' /\ ForgetProceeds'
    BY <1>2
       DEF IInv, TypeOK, ForgetProceeds, vars, diskVars, daemonVars, toolVars, historyVars
  <2> QED
    BY <2>1, <2>2 DEF IInv, FilesInv
<1> QED
  BY <1>1, <1>2

----------------------------------------------------------------------------
\* Every variable keeps its type; with it no template is ever written without a key
\* (profile_storage.cpp:234-260).
THEOREM TypeCorrect == Spec => []TypeOK
<1>1. IInv => TypeOK
  BY DEF IInv
<1> QED
  BY InitHolds, StepKeepsIInv, <1>1, PTL DEF Spec

\* As long as only the daemon writes, a manifest that says "real" has a profile behind
\* it that the key file opens, at every moment and after any crash
\* (profile_storage.cpp:234-260, template_crypto.cpp:153-245).
THEOREM ManifestIsAlwaysBacked == Spec => []ManifestIsBacked
<1>1. IInv => ManifestIsBacked
  BY EmptyParts DEF IInv, SeenMayLast, BackedForGood, ManifestIsBacked, Readable
<1> QED
  BY InitHolds, StepKeepsIInv, <1>1, PTL DEF Spec

\* What was reported as committed is there, and can be opened, whatever fails later
\* (profile_storage.cpp:207-271).
THEOREM CommittedIsAlwaysKept == Spec => []CommittedIsKept
<1>1. IInv => CommittedIsKept
  BY EmptyParts
     DEF IInv, SeenMayLast, BackedForGood, CommitIsDurable, CommittedIsKept, Readable
<1> QED
  BY InitHolds, StepKeepsIInv, <1>1, PTL DEF Spec

\* Once Forget Me has gone through with the files to itself, nothing that is left can
\* be decrypted, temporary files included (gui/src/main.cpp:341-347).
THEOREM ForgetMeIsThorough == Spec => []NothingReadableIsLeft
<1>1. IInv => NothingReadableIsLeft
  BY EmptyParts DEF IInv, StraysAreApart, ForgetProceeds, NothingReadableIsLeft
<1> QED
  BY InitHolds, StepKeepsIInv, <1>1, PTL DEF Spec
=============================================================================
