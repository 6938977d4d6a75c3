------------------------ MODULE ProviderSettingsProofs ------------------------
(***************************************************************************)
(* Proofs about ProviderSettings, for any ids, handlers, contents of the   *)
(* form, catalog and stored profiles.                                      *)
(***************************************************************************)
EXTENDS ProviderSettings, TLAPS

Types ==
  /\ profiles \in Profiles /\ view \in Profiles
  /\ default \in Settings \cup {None} /\ shownDefault \in Settings \cup {None}
  /\ policy \in BOOLEAN /\ shownPolicy \in BOOLEAN
  /\ used \subseteq Ids /\ recent \subseteq Settings
  /\ form \in Form /\ selected \in Ids \cup {None}
  /\ threads \in [Threads -> Thread]

\* What a handler has when it does its next step: a profile to work on, settings
\* to send, and, before it replaces the row, a list it has checked.
Sound(h) ==
  /\ h.create => h.kind = "save"
  /\ h.kind \in {"delete", "reverify", "activate"} => h.id \in Ids
  /\ h.kind \in {"save", "activate", "default", "probe"} => h.settings \in Settings
  /\ h.kind = "save" /\ ~h.create => h.id \in Ids
  /\ h.create /\ h.pc \in {"probe", "begin"} => h.id = None
  /\ h.pc = "probe" => h.kind \in {"save", "activate", "probe"}
  /\ h.pc = "begin" =>
       h.kind \in {"save", "delete", "reverify", "activate", "default", "policy"}
  /\ h.pc = "write" =>
       /\ h.kind \in {"save", "delete", "activate"} /\ h.id \in Ids
       /\ Unique(h.list)
       /\ h.kind = "save" => NameIsFree(h.settings.label, h.id, h.list)
       /\ h.kind = "save" /\ ~h.create => h.list[h.id] # None
  /\ h.pc = "reread" => h.kind \in {"save", "reverify", "activate"} /\ h.id \in Ids
  /\ h.pc = "record" =>
       /\ h.kind \in {"save", "reverify", "activate"} /\ h.id \in Ids
       /\ Unique(h.list) /\ h.list[h.id] # None

\* What is asked of a list with settings old.
Asked(h, old) ==
  CASE h.kind = "save" -> [old EXCEPT ![h.id] = h.settings]
    [] h.kind = "delete" -> [old EXCEPT ![h.id] = None]
    [] OTHER -> old

\* What the first commit makes of the row and the default.
FirstCommit(h, row, def) ==
  IF h.kind = "save" THEN row = Saved(h, h.before) /\ def = h.was
  ELSE /\ row = h.before
       /\ def = IF h.kind = "activate" THEN h.before[h.id].settings ELSE h.was

\* Between its two commits the row holds what was asked, with settings probed.
HalfDone(h, row, def, probed) ==
  /\ FirstCommit(h, row, def)
  /\ SettingsOf(row) = Asked(h, SettingsOf(h.before))
  /\ row[h.id] # None /\ row[h.id].settings = h.settings
  /\ h.settings \in probed

\* How far a request has got, when no other has changed the row under it.
Exact(h, row, def, probed) ==
  h.kind \in {"save", "delete", "reverify", "activate"} =>
    /\ h.pc \in {"probe", "begin", "refused"} => row = h.before /\ def = h.was
    /\ h.pc = "write" =>
         /\ row = h.before /\ def = h.was /\ h.list = row
         /\ h.kind \in {"save", "activate"} => h.settings \in probed
         /\ h.kind = "activate" => row[h.id] # None /\ row[h.id].settings = h.settings
    /\ h.pc = "reread" => HalfDone(h, row, def, probed)
    /\ h.pc = "record" => HalfDone(h, row, def, probed) /\ h.list = row
    /\ h.pc = "failed" => (row = h.before /\ def = h.was) \/ FirstCommit(h, row, def)
    /\ h.pc = "done" =>
         /\ SettingsOf(row) = Asked(h, SettingsOf(h.before))
         /\ h.kind # "delete" => Fresh(row, h.id)
         /\ def = IF h.kind = "activate" THEN h.before[h.id].settings ELSE h.was

Solo ==
  \A t \in Threads :
    threads[t].pc # "idle" /\ threads[t].alone =>
      /\ \A u \in Threads \ {t} : threads[u].pc = "idle"
      /\ Exact(threads[t], profiles, default, recent)

SettingsInv == Types /\ NamesUnique /\ (\A t \in Threads : Sound(threads[t])) /\ Solo

-----------------------------------------------------------------------------
(* The form and the settings.                                              *)

\* Settings the form can keep.
LoadsBack(s) ==
  /\ s \in Settings
  /\ s.label # "null" /\ s.style \in FormStyles
  /\ s.deployment # "" /\ (s.style # "azure" => s.deployment = "null")
  /\ s.key # "" /\ s.retries # 0 /\ s.limit = "default"

\* The form is sent as settings that it can keep.
LEMMA BuiltSettings ==
  ASSUME NEW f \in Form
  PROVE  /\ buildCustomProviderSettings(f) \in Settings
         /\ LoadsBack(buildCustomProviderSettings(f))
         /\ buildCustomProviderSettings(f).label = f.label
<1>. DEFINE deployment == IF f.style = "azure" THEN OrNull(f.deployment) ELSE "null"
            key == OrNull(f.key)
            retries == IF f.retries = 0 THEN DefaultRetries ELSE f.retries
            s == buildCustomProviderSettings(f)
<1>1. /\ f.label \in Written /\ f.type \in Written /\ f.style \in FormStyles
      /\ f.external \in BOOLEAN /\ f.deployment \in Written /\ f.key \in Written
      /\ f.retries \in Nat
  BY DEF Form
<1>2. deployment \in Texts /\ deployment # "" /\ (f.style # "azure" => deployment = "null")
  BY <1>1, ConstantsAssumption DEF OrNull, Written
<1>3. key \in Texts /\ key # ""
  BY <1>1, ConstantsAssumption DEF OrNull, Written
<1>4. retries \in Nat /\ retries # 0
  BY <1>1 DEF DefaultRetries
<1>5. s = [label |-> f.label, type |-> f.type, style |-> f.style, external |-> f.external,
           deployment |-> deployment, key |-> key, retries |-> retries,
           limit |-> "default"]
  BY DEF buildCustomProviderSettings
<1>. HIDE DEF deployment, key, retries, s
<1>6. s \in Settings
  BY <1>1, <1>2, <1>3, <1>4, <1>5 DEF Settings, Written
<1>7. s.label = f.label /\ s.style = f.style
  BY <1>5
<1>8. LoadsBack(s)
  BY <1>1, <1>2, <1>3, <1>4, <1>5, <1>6 DEF LoadsBack, Written
<1>. QED BY <1>6, <1>7, <1>8 DEF s

\* The form loaded from settings.
LEMMA LoadedForm ==
  ASSUME NEW s \in Settings
  PROVE  LET d == buildCustomProviderDraftFromSettings(s)
         IN /\ d \in Form
            /\ d.label = IF s.label = "null" THEN s.type ELSE s.label
            /\ d.type = s.type /\ d.external = s.external /\ d.retries = s.retries
            /\ d.style = IF s.style = "azure" THEN "azure" ELSE "openai"
            /\ d.deployment = OrBlank(s.deployment) /\ d.key = OrBlank(s.key)
<1>1. /\ s.label \in Texts /\ s.type \in Written /\ s.external \in BOOLEAN
      /\ s.deployment \in Texts /\ s.key \in Texts /\ s.retries \in Nat
  BY DEF Settings
<1>2. OrBlank(s.deployment) \in Written /\ OrBlank(s.key) \in Written
  BY <1>1, ConstantsAssumption DEF Written, OrBlank
<1>3. (IF s.label = "null" THEN s.type ELSE s.label) \in Written
  BY <1>1 DEF Written
<1>4. (IF s.style = "azure" THEN "azure" ELSE "openai") \in FormStyles
  BY DEF FormStyles
<1>. QED BY <1>1, <1>2, <1>3, <1>4 DEF Form, buildCustomProviderDraftFromSettings

\* The form loaded from settings, and the one left after a reload, are forms.
LEMMA FormsStayForms ==
  /\ \A s \in Settings : buildCustomProviderDraftFromSettings(s) \in Form
  /\ \A f \in Form : Persisted(f) \in Form
<1>1. ASSUME NEW f \in Form PROVE Persisted(f) \in Form
  BY ConstantsAssumption DEF Form, Persisted, Written
<1>. QED BY <1>1, LoadedForm

\* Settings loaded into the form and sent again, part by part.
Loaded(s) == buildCustomProviderSettings(buildCustomProviderDraftFromSettings(s))

LEMMA LoadedParts ==
  ASSUME NEW s \in Settings
  PROVE  /\ Loaded(s) \in Settings /\ LoadsBack(Loaded(s))
         /\ Loaded(s).label = IF s.label = "null" THEN s.type ELSE s.label
         /\ Loaded(s).type = s.type /\ Loaded(s).external = s.external
         /\ Loaded(s).style = IF s.style = "azure" THEN "azure" ELSE "openai"
         /\ Loaded(s).deployment = IF s.style = "azure" THEN OrNull(OrBlank(s.deployment))
                                   ELSE "null"
         /\ Loaded(s).key = OrNull(OrBlank(s.key))
         /\ Loaded(s).retries = IF s.retries = 0 THEN DefaultRetries ELSE s.retries
         /\ Loaded(s).limit = "default"
<1>. DEFINE d == buildCustomProviderDraftFromSettings(s)
<1>1. /\ d \in Form
      /\ d.label = IF s.label = "null" THEN s.type ELSE s.label
      /\ d.type = s.type /\ d.external = s.external /\ d.retries = s.retries
      /\ d.style = IF s.style = "azure" THEN "azure" ELSE "openai"
      /\ d.deployment = OrBlank(s.deployment) /\ d.key = OrBlank(s.key)
  BY LoadedForm
<1>. HIDE DEF d
<1>2. buildCustomProviderSettings(d) \in Settings /\ LoadsBack(buildCustomProviderSettings(d))
  BY <1>1, BuiltSettings
<1>3. Loaded(s) = buildCustomProviderSettings(d)
  BY DEF Loaded, d
<1>4. (d.style = "azure") <=> (s.style = "azure")
  BY <1>1
<1>. QED BY <1>1, <1>2, <1>3, <1>4 DEF buildCustomProviderSettings

\* Two settings are the same when their parts are.
LEMMA SameSettings ==
  ASSUME NEW s \in Settings, NEW r \in Settings,
         r.label = s.label, r.type = s.type, r.style = s.style,
         r.external = s.external, r.deployment = s.deployment, r.key = s.key,
         r.retries = s.retries, r.limit = s.limit
  PROVE  r = s
BY DEF Settings

\* Settings the form can keep come back as they were.
LEMMA RoundTrip ==
  ASSUME NEW s, LoadsBack(s)
  PROVE  Loaded(s) = s
<1>1. /\ s \in Settings /\ s.label # "null" /\ s.style \in FormStyles
      /\ s.deployment # "" /\ (s.style # "azure" => s.deployment = "null")
      /\ s.key # "" /\ s.retries # 0 /\ s.limit = "default"
  BY DEF LoadsBack
<1>. DEFINE r == Loaded(s)
<1>2. /\ r \in Settings
      /\ r.label = IF s.label = "null" THEN s.type ELSE s.label
      /\ r.type = s.type /\ r.external = s.external
      /\ r.style = IF s.style = "azure" THEN "azure" ELSE "openai"
      /\ r.deployment = IF s.style = "azure" THEN OrNull(OrBlank(s.deployment)) ELSE "null"
      /\ r.key = OrNull(OrBlank(s.key))
      /\ r.retries = IF s.retries = 0 THEN DefaultRetries ELSE s.retries
      /\ r.limit = "default"
  BY <1>1, LoadedParts
<1>. HIDE DEF r
<1>3. r.label = s.label /\ r.retries = s.retries
  BY <1>1, <1>2
<1>4. r.style = s.style
  BY <1>1, <1>2 DEF FormStyles
<1>5. r.deployment = s.deployment /\ r.key = s.key
  BY <1>1, <1>2 DEF OrNull, OrBlank
<1>6. r = s
  BY <1>1, <1>2, <1>3, <1>4, <1>5, SameSettings
<1>. QED BY <1>6 DEF r

\* Only the parts listed in Lossy may come back different.
LEMMA LossyParts ==
  ASSUME NEW s \in Settings, NEW part \in DOMAIN s, Loaded(s)[part] # s[part]
  PROVE  part \in Lossy(s)
<1>. DEFINE r == Loaded(s)
<1>1. /\ r.label = IF s.label = "null" THEN s.type ELSE s.label
      /\ r.type = s.type /\ r.external = s.external
      /\ r.style = IF s.style = "azure" THEN "azure" ELSE "openai"
      /\ r.deployment = IF s.style = "azure" THEN OrNull(OrBlank(s.deployment)) ELSE "null"
      /\ r.key = OrNull(OrBlank(s.key))
      /\ r.retries = IF s.retries = 0 THEN DefaultRetries ELSE s.retries
      /\ r.limit = "default"
  BY LoadedParts
<1>. HIDE DEF r
<1>2. part \in {"label", "type", "style", "external", "deployment", "key", "retries", "limit"}
  BY DEF Settings
<1>3. r[part] # s[part]
  BY DEF r
<1>4. CASE part \in {"type", "external"}
  BY <1>1, <1>3, <1>4
<1>5. CASE part = "label"
  BY <1>1, <1>3, <1>5 DEF Lossy
<1>6. CASE part = "style"
  <2>1. s.style \notin FormStyles
    BY <1>1, <1>3, <1>6 DEF FormStyles
  <2>. QED BY <2>1, <1>6 DEF Lossy
<1>7. CASE part = "deployment"
  <2>1. s.style # "azure" \/ s.deployment = ""
    BY <1>1, <1>3, <1>7 DEF OrNull, OrBlank
  <2>. QED BY <2>1, <1>7 DEF Lossy
<1>8. CASE part = "key"
  <2>1. s.key = ""
    BY <1>1, <1>3, <1>8 DEF OrNull, OrBlank
  <2>. QED BY <2>1, <1>8 DEF Lossy
<1>9. CASE part = "retries"
  BY <1>1, <1>3, <1>9 DEF Lossy
<1>10. CASE part = "limit"
  BY <1>1, <1>3, <1>10 DEF Lossy
<1>. QED BY <1>2, <1>4, <1>5, <1>6, <1>7, <1>8, <1>9, <1>10

\* What the page offers as a default provider.
LEMMA ChoicesAreSettings ==
  ASSUME form \in Form
  PROVE  Choices \subseteq Settings
BY BuiltSettings, ConstantsAssumption DEF Choices

-----------------------------------------------------------------------------
(* Lists of profiles.                                                      *)

\* The settings of a profile of a list.
LEMMA ProfileFields ==
  ASSUME NEW list \in Profiles, NEW i \in Ids, list[i] # None
  PROVE  /\ list[i] \in Profile
         /\ list[i].name \in Texts
         /\ list[i].settings \in Settings /\ list[i].probe \in {"none", "fresh", "old"}
         /\ list[i] = [name |-> list[i].name, settings |-> list[i].settings,
                       probe |-> list[i].probe]
BY DEF Profiles, Profile

\* A list in which one place is emptied, or gets a profile whose name is free,
\* still has no name twice.
LEMMA ChangedUnique ==
  ASSUME NEW list \in Profiles, Unique(list), NEW id \in Ids, NEW p \in Profile \cup {None},
         p # None => NameIsFree(Name(p), id, list)
  PROVE  /\ [list EXCEPT ![id] = p] \in Profiles
         /\ Unique([list EXCEPT ![id] = p])
<1>. DEFINE new == [list EXCEPT ![id] = p]
<1>1. new \in Profiles /\ new[id] = p /\ \A i \in Ids \ {id} : new[i] = list[i]
  BY DEF Profiles
<1>2. ASSUME NEW i \in Ids, NEW j \in Ids,
             new[i] # None, new[j] # None, Name(new[i]) = Name(new[j])
      PROVE  i = j
  BY <1>1, <1>2 DEF Unique, NameIsFree
<1>. HIDE DEF new
<1>3. Unique(new)
  BY <1>2 DEF Unique
<1>. QED BY <1>1, <1>3 DEF new

\* Recording a probe keeps the settings of every profile.
LEMMA RecordedList ==
  ASSUME NEW h \in Thread, h.id \in Ids, h.list[h.id] # None
  PROVE  /\ Recorded(h) \in Profiles
         /\ \A i \in Ids \ {h.id} : Recorded(h)[i] = h.list[i]
         /\ Recorded(h)[h.id] = [name |-> h.list[h.id].name,
                                 settings |-> h.list[h.id].settings, probe |-> "fresh"]
         /\ Recorded(h)[h.id] # None
         /\ Unique(h.list) => Unique(Recorded(h))
         /\ SettingsOf(Recorded(h)) = SettingsOf(h.list)
<1>. DEFINE p == [name |-> h.list[h.id].name, settings |-> h.list[h.id].settings,
                  probe |-> "fresh"]
<1>1. h.list \in Profiles
  BY DEF Thread
<1>2. /\ h.list[h.id] = [name |-> h.list[h.id].name, settings |-> h.list[h.id].settings,
                         probe |-> h.list[h.id].probe]
      /\ h.list[h.id].settings \in Settings /\ h.list[h.id].name \in Texts
  BY <1>1, ProfileFields
<1>3. p \in Profile /\ p # None
  BY <1>2, NoneAssumption DEF Profile
<1>4. [h.list[h.id] EXCEPT !.probe = "fresh"] = p
  BY <1>2
<1>5. Recorded(h) = [h.list EXCEPT ![h.id] = p]
  BY <1>4 DEF Recorded
<1>6. /\ Recorded(h) \in Profiles
      /\ \A i \in Ids \ {h.id} : Recorded(h)[i] = h.list[i]
      /\ Recorded(h)[h.id] = p
  BY <1>1, <1>3, <1>5 DEF Profiles
<1>7. SettingsOf(Recorded(h)) = SettingsOf(h.list)
  BY <1>3, <1>6 DEF SettingsOf
<1>8. ASSUME Unique(h.list) PROVE Unique(Recorded(h))
  <2>1. NameIsFree(Name(p), h.id, h.list)
    BY <1>8 DEF NameIsFree, Unique, Name
  <2>. QED BY <2>1, <1>1, <1>3, <1>5, <1>8, ChangedUnique
<1>. QED BY <1>3, <1>6, <1>7, <1>8

\* What a save or a deletion makes of a list it has checked.
LEMMA ChangedList ==
  ASSUME NEW h \in Thread, Sound(h), h.pc = "write", h.kind # "activate"
  PROVE  /\ Changed(h) \in Profiles /\ Unique(Changed(h))
         /\ \A i \in Ids \ {h.id} : Changed(h)[i] = h.list[i]
         /\ h.kind = "delete" => Changed(h)[h.id] = None
         /\ h.kind = "save" => /\ Changed(h)[h.id] # None
                               /\ Changed(h)[h.id].settings = h.settings
                               /\ Changed(h)[h.id].name = h.settings.label
         /\ SettingsOf(Changed(h)) = Asked(h, SettingsOf(h.list))
<1>1. /\ h.list \in Profiles /\ h.id \in Ids /\ Unique(h.list)
      /\ h.kind \in {"save", "delete"}
  BY DEF Thread, Sound
<1>2. CASE h.kind = "delete"
  <2>1. Changed(h) = [h.list EXCEPT ![h.id] = None]
    BY <1>2 DEF Changed
  <2>2. Changed(h) \in Profiles /\ Unique(Changed(h))
    BY <1>1, <2>1, ChangedUnique
  <2>3. Changed(h)[h.id] = None /\ \A i \in Ids \ {h.id} : Changed(h)[i] = h.list[i]
    BY <1>1, <2>1 DEF Profiles
  <2>4. SettingsOf(Changed(h)) = [SettingsOf(h.list) EXCEPT ![h.id] = None]
    BY <2>3, <1>1 DEF SettingsOf
  <2>. QED BY <2>2, <2>3, <2>4, <1>2 DEF Asked
<1>3. CASE h.kind = "save"
  <2>. DEFINE p == [name |-> h.settings.label, settings |-> h.settings,
                    probe |-> IF h.create THEN "none" ELSE h.list[h.id].probe]
  <2>1. h.settings \in Settings /\ NameIsFree(h.settings.label, h.id, h.list)
    BY <1>3 DEF Sound
  <2>2. ~h.create => h.list[h.id].probe \in {"none", "fresh", "old"}
    BY <1>1, <1>3, ProfileFields DEF Sound
  <2>3. p \in Profile /\ p # None
    BY <2>1, <2>2, NoneAssumption DEF Profile, Settings
  <2>4. p.name = h.settings.label /\ Name(p) = h.settings.label /\ p.settings = h.settings
    BY DEF Name
  <2>5. Changed(h) = [h.list EXCEPT ![h.id] = p]
    BY <1>3 DEF Changed
  <2>. HIDE DEF p
  <2>6. Changed(h) \in Profiles /\ Unique(Changed(h))
    BY <1>1, <2>1, <2>3, <2>4, <2>5, ChangedUnique
  <2>7. Changed(h)[h.id] = p /\ \A i \in Ids \ {h.id} : Changed(h)[i] = h.list[i]
    BY <1>1, <2>5 DEF Profiles
  <2>8. SettingsOf(Changed(h)) = [SettingsOf(h.list) EXCEPT ![h.id] = h.settings]
    BY <2>3, <2>4, <2>7, <1>1 DEF SettingsOf
  <2>. QED BY <2>3, <2>4, <2>6, <2>7, <2>8, <1>3 DEF Asked
<1>. QED BY <1>1, <1>2, <1>3

\* A list grown old.
LEMMA AgedList ==
  ASSUME NEW list \in Profiles
  PROVE  /\ Aged(list) \in Profiles
         /\ \A i \in Ids : ~Fresh(Aged(list), i)
         /\ \A i \in Ids : Aged(list)[i] # None =>
              /\ list[i] # None /\ Name(Aged(list)[i]) = Name(list[i])
              /\ Aged(list)[i].settings = list[i].settings
<1>. SUFFICES ASSUME NEW i \in Ids
              PROVE  /\ Aged(list)[i] \in Profile \cup {None}
                     /\ ~Fresh(Aged(list), i)
                     /\ Aged(list)[i] # None =>
                          /\ list[i] # None /\ Name(Aged(list)[i]) = Name(list[i])
                          /\ Aged(list)[i].settings = list[i].settings
  BY DEF Profiles, Aged
<1>1. CASE list[i] # None /\ list[i].probe = "fresh"
  <2>1. /\ list[i] = [name |-> list[i].name, settings |-> list[i].settings,
                      probe |-> list[i].probe]
        /\ list[i].settings \in Settings /\ list[i].name \in Texts
    BY <1>1, ProfileFields
  <2>2. Aged(list)[i] = [list[i] EXCEPT !.probe = "old"]
    BY <1>1 DEF Aged
  <2>3. Aged(list)[i] = [name |-> list[i].name, settings |-> list[i].settings,
                         probe |-> "old"]
    BY <2>1, <2>2
  <2>. QED BY <1>1, <2>1, <2>3 DEF Profile, Fresh, Name
<1>2. CASE ~(list[i] # None /\ list[i].probe = "fresh")
  <2>1. Aged(list)[i] = list[i]
    BY <1>2 DEF Aged
  <2>. QED BY <1>2, <2>1 DEF Profiles, Fresh
<1>. QED BY <1>1, <1>2

-----------------------------------------------------------------------------
(* Handlers.                                                               *)

\* A handler that is idle.
LEMMA IdleHandler ==
  /\ Idle \in Thread /\ Sound(Idle) /\ Idle.pc = "idle"
  /\ Idle.kind = None /\ Idle.create = FALSE /\ Idle.id = None /\ Idle.settings = None
<1>1. NoProfiles \in Profiles
  BY DEF NoProfiles, Profiles
<1>2. [default |-> None, policy |-> FALSE] \in Reading
  BY DEF Reading
<1>3. Idle \in Thread
  BY <1>1, <1>2 DEF Idle, Thread, Steps
<1>4. Sound(Idle)
  BY NoneAssumption DEF Sound, Idle, Kinds
<1>. QED BY <1>3, <1>4 DEF Idle

\* A step of one handler that is under way: the others are as they were, and
\* when it is alone they are idle.
LEMMA OwnStep ==
  ASSUME SettingsInv, NEW t \in Threads, threads[t].pc # "idle",
         NEW r \in Thread, Sound(r), threads' = [threads EXCEPT ![t] = r],
         r.pc # "idle" => r.alone = threads[t].alone,
         r.pc # "idle" /\ r.alone => Exact(r, profiles', default', recent')
  PROVE  /\ threads' \in [Threads -> Thread]
         /\ \A u \in Threads : Sound(threads'[u])
         /\ Solo'
<1>1. threads \in [Threads -> Thread]
  BY DEF SettingsInv, Types
<1>2. threads'[t] = r /\ \A u \in Threads \ {t} : threads'[u] = threads[u]
  BY <1>1
<1>3. \A u \in Threads : Sound(threads'[u])
  BY <1>2 DEF SettingsInv
<1>4. ASSUME NEW u \in Threads, threads'[u].pc # "idle", threads'[u].alone
      PROVE  /\ \A w \in Threads \ {u} : threads'[w].pc = "idle"
             /\ Exact(threads'[u], profiles', default', recent')
  <2>1. CASE u = t
    BY <2>1, <1>2, <1>4 DEF SettingsInv, Solo
  <2>2. CASE u # t
    BY <2>2, <1>2, <1>4 DEF SettingsInv, Solo
  <2>. QED BY <2>1, <2>2
<1>. QED BY <1>1, <1>3, <1>4 DEF Solo

\* A step of one handler to another place, which keeps all else of it.
LEMMA GotoKeeps ==
  ASSUME SettingsInv, NEW t \in Threads, NEW pc \in Steps
  PROVE  LET r == [threads[t] EXCEPT !.pc = pc]
         IN /\ r \in Thread /\ r.pc = pc
            /\ r.kind = threads[t].kind /\ r.id = threads[t].id
            /\ r.create = threads[t].create /\ r.settings = threads[t].settings
            /\ r.list = threads[t].list /\ r.before = threads[t].before
            /\ r.alone = threads[t].alone /\ r.was = threads[t].was
            /\ Goto(t, pc) <=> threads' = [threads EXCEPT ![t] = r]
<1>1. threads[t] \in Thread
  BY DEF SettingsInv, Types
<1>. QED BY <1>1 DEF Thread, Goto

\* A new handler: nobody is alone any more, unless all others are idle.
LEMMA SentStep ==
  ASSUME SettingsInv, NEW t \in Threads, threads[t].pc = "idle",
         NEW r \in Thread, Sound(r), r.pc \in {"probe", "begin", "lists"},
         Sent(t, r), UNCHANGED <<profiles, default>>
  PROVE  /\ threads' \in [Threads -> Thread]
         /\ \A u \in Threads : Sound(threads'[u])
         /\ Solo'
<1>. DEFINE q == [r EXCEPT !.seen = selected, !.before = profiles, !.was = default,
                           !.alone = Others(t) = {}]
            g(u) == [threads[u] EXCEPT !.alone = FALSE]
<1>1. threads' = [u \in Threads |-> IF u = t THEN q ELSE g(u)]
  BY DEF Sent
<1>2. /\ q \in Thread /\ q.pc = r.pc /\ q.before = profiles /\ q.was = default
      /\ q.kind = r.kind /\ q.id = r.id /\ q.create = r.create
      /\ q.settings = r.settings /\ q.list = r.list /\ q.alone = (Others(t) = {})
  <2>. DEFINE lonely == Others(t) = {}
  <2>1. /\ selected \in Ids \cup {None} /\ profiles \in Profiles
        /\ default \in Settings \cup {None} /\ lonely \in BOOLEAN
    BY DEF SettingsInv, Types
  <2>2. q = [r EXCEPT !.seen = selected, !.before = profiles, !.was = default,
                      !.alone = lonely]
    OBVIOUS
  <2>. HIDE DEF lonely, q
  <2>3. q \in Thread
    BY <2>1, <2>2 DEF Thread
  <2>4. /\ q.pc = r.pc /\ q.before = profiles /\ q.was = default
        /\ q.kind = r.kind /\ q.id = r.id /\ q.create = r.create
        /\ q.settings = r.settings /\ q.list = r.list /\ q.alone = lonely
    BY <2>2 DEF Thread
  <2>. QED BY <2>3, <2>4 DEF lonely
<1>3. ASSUME NEW u \in Threads
      PROVE  /\ g(u) \in Thread /\ g(u).pc = threads[u].pc /\ ~g(u).alone
             /\ g(u).kind = threads[u].kind /\ g(u).id = threads[u].id
             /\ g(u).create = threads[u].create /\ g(u).list = threads[u].list
             /\ g(u).settings = threads[u].settings
  BY DEF Thread, SettingsInv, Types
<1>. HIDE DEF q, g
<1>4. Sound(q)
  BY <1>2 DEF Sound
<1>5. ASSUME NEW u \in Threads PROVE Sound(g(u))
  BY <1>3 DEF Sound, SettingsInv
<1>6. Exact(q, profiles', default', recent')
  BY <1>2 DEF Exact
<1>7. ASSUME NEW u \in Threads, threads'[u].pc # "idle", threads'[u].alone
      PROVE  /\ \A w \in Threads \ {u} : threads'[w].pc = "idle"
             /\ Exact(threads'[u], profiles', default', recent')
  <2>1. u = t /\ Others(t) = {}
    BY <1>1, <1>2, <1>3, <1>7
  <2>2. \A w \in Threads \ {t} : threads[w].pc = "idle"
    BY <2>1 DEF Others
  <2>. QED BY <2>1, <2>2, <1>1, <1>3, <1>6
<1>. QED BY <1>1, <1>2, <1>3, <1>4, <1>5, <1>7 DEF Solo

-----------------------------------------------------------------------------
(* The page.                                                               *)

\* A click that starts a handler and changes nothing else but busyAction.
LEMMA ClickKeeps ==
  ASSUME SettingsInv, NEW t \in Threads, NEW r \in Thread, NEW key,
         Sound(r), r.pc \in {"probe", "begin", "lists"},
         Click(t, r, key), UNCHANGED <<server, form, selected, shown, recent>>
  PROVE  SettingsInv'
<1>1. /\ threads' \in [Threads -> Thread]
      /\ \A u \in Threads : Sound(threads'[u])
      /\ Solo'
  BY SentStep DEF Click, server
<1>2. Types' /\ NamesUnique'
  BY <1>1 DEF SettingsInv, Types, NamesUnique, server, shown
<1>. QED BY <1>1, <1>2 DEF SettingsInv

\* The settings on a card.
LEMMA CardSettings ==
  ASSUME SettingsInv, NEW i \in Ids, HasCard(i)
  PROVE  view[i].settings \in Settings
BY ProfileFields DEF SettingsInv, Types, HasCard

\* The clicks on the cards and on the form.
LEMMA ClicksKeep ==
  ASSUME SettingsInv, NEW t \in Threads,
         \/ ClickSave(t) \/ ClickPolicy(t)
         \/ \E i \in Ids : ClickActivate(t, i) \/ ClickReverify(t, i) \/ ClickDelete(t, i)
         \/ \E s \in Choices : ClickDefault(t, s) \/ ClickProbe(t, s)
  PROVE  SettingsInv'
<1>. USE IdleHandler
<1>1. CASE ClickSave(t)
  <2>. DEFINE r == [Idle EXCEPT !.pc = "probe", !.kind = "save", !.id = selected,
                           !.create = selected = None,
                           !.settings = buildCustomProviderSettings(form)]
  <2>1. /\ buildCustomProviderSettings(form) \in Settings
        /\ selected \in Ids \cup {None}
    BY <1>1, BuiltSettings DEF ClickSave, SettingsInv, Types
  <2>2. /\ r \in Thread /\ r.pc = "probe" /\ r.kind = "save" /\ r.id = selected
        /\ r.create = (selected = None)
        /\ r.settings = buildCustomProviderSettings(form)
    BY <2>1 DEF Thread, Steps, Kinds
  <2>3. Click(t, r, Key("probe", selected))
        /\ UNCHANGED <<server, form, selected, shown, recent>>
    BY <1>1 DEF ClickSave
  <2>. HIDE DEF r
  <2>4. Sound(r)
    BY <2>1, <2>2 DEF Sound
  <2>. QED BY <2>2, <2>3, <2>4, ClickKeeps
<1>2. CASE ClickPolicy(t)
  <2>. DEFINE r == [Idle EXCEPT !.pc = "begin", !.kind = "policy", !.flag = ~shownPolicy]
  <2>1. r \in Thread /\ r.pc = "begin" /\ r.kind = "policy" /\ r.create = FALSE
    BY DEF SettingsInv, Types, Thread, Steps, Kinds
  <2>2. Click(t, r, Key("policy", None))
        /\ UNCHANGED <<server, form, selected, shown, recent>>
    BY <1>2 DEF ClickPolicy
  <2>. HIDE DEF r
  <2>3. Sound(r)
    BY <2>1 DEF Sound
  <2>. QED BY <2>1, <2>2, <2>3, ClickKeeps
<1>3. ASSUME NEW i \in Ids, ClickActivate(t, i) PROVE SettingsInv'
  <2>. DEFINE r == [Idle EXCEPT !.pc = "probe", !.kind = "activate", !.id = i,
                           !.settings = view[i].settings]
  <2>1. view[i].settings \in Settings
    BY <1>3, CardSettings DEF ClickActivate
  <2>2. /\ r \in Thread /\ r.pc = "probe" /\ r.kind = "activate" /\ r.id = i
        /\ r.create = FALSE /\ r.settings = view[i].settings
    BY <2>1 DEF Thread, Steps, Kinds
  <2>3. Click(t, r, Key("probe", i)) /\ UNCHANGED <<server, form, selected, shown, recent>>
    BY <1>3 DEF ClickActivate
  <2>. HIDE DEF r
  <2>4. Sound(r)
    BY <2>1, <2>2 DEF Sound
  <2>. QED BY <2>2, <2>3, <2>4, ClickKeeps
<1>4. ASSUME NEW i \in Ids, NEW kind \in {"reverify", "delete"},
             Click(t, [Idle EXCEPT !.pc = "begin", !.kind = kind, !.id = i], Key(kind, i)),
             UNCHANGED <<server, form, selected, shown, recent>>
      PROVE  SettingsInv'
  <2>. DEFINE r == [Idle EXCEPT !.pc = "begin", !.kind = kind, !.id = i]
  <2>1. /\ r \in Thread /\ r.pc = "begin" /\ r.kind = kind /\ r.id = i
        /\ r.create = FALSE
    BY DEF Thread, Steps, Kinds
  <2>2. Click(t, r, Key(kind, i))
    BY <1>4
  <2>. HIDE DEF r
  <2>3. Sound(r)
    BY <2>1 DEF Sound
  <2>. QED BY <1>4, <2>1, <2>2, <2>3, ClickKeeps
<1>5. ASSUME NEW s \in Choices, NEW pc \in {"begin", "probe"}, NEW kind,
             \/ kind = "default" /\ pc = "begin"
             \/ kind = "probe" /\ pc = "probe",
             Click(t, [Idle EXCEPT !.pc = pc, !.kind = kind, !.settings = s], Key(kind, None)),
             UNCHANGED <<server, form, selected, shown, recent>>
      PROVE  SettingsInv'
  <2>. DEFINE r == [Idle EXCEPT !.pc = pc, !.kind = kind, !.settings = s]
  <2>1. s \in Settings
    BY ChoicesAreSettings DEF SettingsInv, Types
  <2>2. /\ r \in Thread /\ r.pc = pc /\ r.kind = kind /\ r.create = FALSE
        /\ r.settings = s
    BY <1>5, <2>1 DEF Thread, Steps, Kinds
  <2>3. Click(t, r, Key(kind, None))
    BY <1>5
  <2>. HIDE DEF r
  <2>4. Sound(r)
    BY <1>5, <2>1, <2>2 DEF Sound
  <2>. QED BY <1>5, <2>2, <2>3, <2>4, ClickKeeps
<1>6. ASSUME NEW i \in Ids, ClickReverify(t, i) \/ ClickDelete(t, i) PROVE SettingsInv'
  BY <1>4, <1>6 DEF ClickReverify, ClickDelete
<1>7. ASSUME NEW s \in Choices, ClickDefault(t, s) \/ ClickProbe(t, s) PROVE SettingsInv'
  BY <1>5, <1>7 DEF ClickDefault, ClickProbe
<1>. QED BY <1>1, <1>2, <1>3, <1>6, <1>7

\* The refresh of the poll timer.
LEMMA PollTickKeeps ==
  ASSUME SettingsInv, NEW t \in Threads, PollTick(t)
  PROVE  SettingsInv'
<1>. DEFINE r == [Idle EXCEPT !.pc = "lists", !.kind = "refresh"]
<1>0. r \in Thread /\ r.pc = "lists" /\ r.kind = "refresh" /\ r.create = FALSE
  BY IdleHandler DEF Thread, Steps, Kinds
<1>2. Sent(t, r) /\ threads[t].pc = "idle" /\ UNCHANGED <<server, page, recent>>
  BY DEF PollTick
<1>. HIDE DEF r
<1>1. r \in Thread /\ Sound(r) /\ r.pc = "lists"
  BY <1>0 DEF Sound
<1>3. /\ threads' \in [Threads -> Thread]
      /\ \A u \in Threads : Sound(threads'[u])
      /\ Solo'
  BY <1>1, <1>2, SentStep DEF server
<1>4. Types' /\ NamesUnique'
  BY <1>2, <1>3 DEF SettingsInv, Types, NamesUnique, server, page, shown
<1>. QED BY <1>3, <1>4 DEF SettingsInv

\* A reload of the page: handlers that go on without it are not alone.
LEMMA ReloadKeeps ==
  ASSUME SettingsInv, NEW t \in Threads, Reload(t)
  PROVE  SettingsInv'
<1>. DEFINE onPage(u) == threads[u].pc \in {"probe", "lists", "show"}
            kept == {u \in Threads \ {t} : threads[u].pc # "idle" /\ ~onPage(u)}
            r == [Idle EXCEPT !.pc = "lists", !.kind = "refresh",
                              !.before = profiles, !.was = default,
                              !.alone = kept = {}]
            g(u) == [threads[u] EXCEPT !.page = FALSE, !.alone = FALSE]
<1>1. threads' = [u \in Threads |-> IF u = t THEN r
                                   ELSE IF u \in kept THEN g(u) ELSE Idle]
  BY DEF Reload
<1>. HIDE DEF kept
<1>0. /\ r \in Thread /\ r.pc = "lists" /\ r.kind = "refresh" /\ r.create = FALSE
      /\ r.alone = (kept = {})
  BY IdleHandler DEF Thread, Steps, Kinds, SettingsInv, Types
<1>3. ASSUME NEW u \in Threads
      PROVE  /\ g(u) \in Thread /\ g(u).pc = threads[u].pc /\ ~g(u).alone
             /\ g(u).kind = threads[u].kind /\ g(u).id = threads[u].id
             /\ g(u).create = threads[u].create /\ g(u).list = threads[u].list
             /\ g(u).settings = threads[u].settings
  BY DEF Thread, SettingsInv, Types
<1>. HIDE DEF r, g
<1>2. r \in Thread /\ Sound(r) /\ r.pc = "lists" /\ r.alone = (kept = {})
  BY <1>0 DEF Sound
<1>4. Exact(r, profiles', default', recent')
  BY <1>0 DEF Exact
<1>5. ASSUME NEW u \in Threads PROVE Sound(g(u))
  BY <1>3 DEF Sound, SettingsInv
<1>6. /\ threads' \in [Threads -> Thread]
      /\ \A u \in Threads : Sound(threads'[u])
  BY <1>1, <1>2, <1>3, <1>5, IdleHandler
<1>7. ASSUME NEW u \in Threads, threads'[u].pc # "idle", threads'[u].alone
      PROVE  /\ \A w \in Threads \ {u} : threads'[w].pc = "idle"
             /\ Exact(threads'[u], profiles', default', recent')
  <2>1. u = t /\ kept = {}
    BY <1>1, <1>2, <1>3, <1>7, IdleHandler
  <2>. QED BY <2>1, <1>1, <1>4, IdleHandler
<1>8. Types' /\ NamesUnique'
  <2>1. form' \in Form
    BY FormsStayForms DEF Reload, SettingsInv, Types
  <2>2. view' \in Profiles /\ shownDefault' = None /\ shownPolicy' = FALSE /\ selected' = None
    BY DEF Reload, NoProfiles, Profiles
  <2>3. UNCHANGED <<server, recent>>
    BY DEF Reload
  <2>. QED BY <1>6, <2>1, <2>2, <2>3 DEF SettingsInv, Types, NamesUnique, server
<1>. QED BY <1>6, <1>7, <1>8 DEF SettingsInv, Solo

\* The form, and a profile loaded into it.
LEMMA FormKeeps ==
  ASSUME SettingsInv,
         (\E f \in Typed : Edit(f)) \/ \E i \in Ids : Load(i)
  PROVE  SettingsInv'
<1>1. UNCHANGED <<server, shown, threads, recent>>
  BY DEF Edit, Load
<1>2. form' \in Form /\ selected' \in Ids \cup {None}
  <2>1. ASSUME NEW f \in Typed, Edit(f) PROVE form' \in Form /\ selected' \in Ids \cup {None}
    BY <2>1, ConstantsAssumption DEF Edit, SettingsInv, Types
  <2>2. ASSUME NEW i \in Ids, Load(i) PROVE form' \in Form /\ selected' \in Ids \cup {None}
    BY <2>2, CardSettings, FormsStayForms DEF Load
  <2>. QED BY <2>1, <2>2
<1>3. Types' /\ NamesUnique' /\ Solo' /\ \A u \in Threads : Sound(threads'[u])
  BY <1>1, <1>2 DEF SettingsInv, Types, NamesUnique, Solo, server, shown
<1>. QED BY <1>3 DEF SettingsInv

-----------------------------------------------------------------------------
(* Probes, requests and answers.                                           *)

\* A handler that ends, and changes no row.
LEMMA EndedKeeps ==
  ASSUME SettingsInv, NEW t \in Threads, threads[t].pc # "idle", Ended(t),
         UNCHANGED profiles
  PROVE  /\ threads' \in [Threads -> Thread]
         /\ \A u \in Threads : Sound(threads'[u])
         /\ Solo'
BY IdleHandler, OwnStep DEF Ended

\* What a probe that the handler waits for makes of it.
LEMMA ProbeAnsweredKeeps ==
  ASSUME SettingsInv, NEW t \in Threads, NEW reachable \in BOOLEAN,
         ProbeAnswered(t, reachable)
  PROVE  SettingsInv'
<1>. DEFINE h == threads[t]
            r == [h EXCEPT !.pc = "begin"]
<1>1. h \in Thread /\ Sound(h) /\ h.pc = "probe"
  BY DEF SettingsInv, Types, ProbeAnswered
<1>2. h.settings \in Settings
  BY <1>1 DEF Sound
<1>3. UNCHANGED <<server, form, selected, shown>>
      /\ recent' = IF reachable THEN recent \cup {h.settings} ELSE recent
  BY DEF ProbeAnswered
<1>4. /\ threads' \in [Threads -> Thread]
      /\ \A u \in Threads : Sound(threads'[u])
      /\ Solo'
  <2>1. CASE reachable /\ h.kind # "probe"
    <3>1. Goto(t, "begin")
      BY <2>1 DEF ProbeAnswered
    <3>2. /\ r \in Thread /\ r.pc = "begin" /\ r.kind = h.kind /\ r.id = h.id
          /\ r.create = h.create /\ r.settings = h.settings /\ r.list = h.list
          /\ r.before = h.before /\ r.was = h.was /\ r.alone = h.alone
          /\ threads' = [threads EXCEPT ![t] = r]
      <4>1. "begin" \in Steps
        BY DEF Steps
      <4>. QED BY <3>1, <4>1, GotoKeeps
    <3>. HIDE DEF r
    <3>3. Sound(r)
      BY <1>1, <2>1, <3>2 DEF Sound
    <3>4. r.alone => Exact(r, profiles', default', recent')
      BY <1>1, <1>3, <3>2 DEF Exact, SettingsInv, Solo, server
    <3>. QED BY <1>1, <3>2, <3>3, <3>4, OwnStep
  <2>2. CASE ~(reachable /\ h.kind # "probe")
    BY <1>1, <1>3, <2>2, EndedKeeps DEF ProbeAnswered, server
  <2>. QED BY <2>1, <2>2
<1>5. Types' /\ NamesUnique'
  BY <1>2, <1>3, <1>4 DEF SettingsInv, Types, NamesUnique, server, shown
<1>. QED BY <1>4, <1>5 DEF SettingsInv

\* What the checks of a request establish of the list it has read.
LEMMA AcceptedFacts ==
  ASSUME SettingsInv, NEW h \in Thread, Sound(h), h.pc = "begin",
         Accepted(h, Target(h))
  PROVE  /\ Target(h) \in Settings \cup {None}
         /\ h.kind \in {"save", "reverify", "activate", "default"} => Target(h) \in Settings
         /\ h.kind \in {"reverify", "delete", "activate"} => profiles[h.id] # None
         /\ h.kind \in {"reverify", "activate"} => Target(h) = profiles[h.id].settings
         /\ h.kind \notin {"reverify", "activate"} => Target(h) = h.settings
         /\ h.kind = "save" => NameIsFree(Target(h).label, h.id, profiles)
         /\ h.kind = "save" /\ ~h.create => profiles[h.id] # None
<1>1. profiles \in Profiles /\ h.settings \in Settings \cup {None}
  BY DEF SettingsInv, Types, Thread
<1>2. CASE h.kind \in {"reverify", "activate"}
  <2>1. h.id \in Ids /\ profiles[h.id] # None
    BY <1>2 DEF Sound, Accepted
  <2>2. Target(h) = profiles[h.id].settings
    BY <1>2, <2>1 DEF Target
  <2>3. profiles[h.id].settings \in Settings
    BY <1>1, <2>1, ProfileFields
  <2>. QED BY <1>2, <2>1, <2>2, <2>3
<1>3. CASE h.kind \notin {"reverify", "activate"}
  <2>1. Target(h) = h.settings
    BY <1>3 DEF Target
  <2>. QED BY <1>1, <1>3, <2>1 DEF Sound, Accepted
<1>. QED BY <1>2, <1>3

\* The request is accepted: it goes on with the list it has read.
LEMMA AcceptKeeps ==
  ASSUME SettingsInv, NEW t \in Threads, Accept(t)
  PROVE  SettingsInv'
<1>. DEFINE h == threads[t]
<1>1. h \in Thread /\ Sound(h) /\ h.pc = "begin" /\ Accepted(h, Target(h))
  BY DEF SettingsInv, Types, Accept
<1>2. PICK id \in IF h.create THEN Ids \ used ELSE {h.id} :
        /\ threads' = [threads EXCEPT ![t] =
             [h EXCEPT !.id = id, !.list = profiles, !.settings = Target(h),
                       !.pc = CASE h.kind \in {"default", "policy"} -> "done"
                                [] h.kind = "reverify" -> "reread"
                                [] OTHER -> "write"]]
        /\ used' = IF h.create THEN used \cup {id} ELSE used
  BY DEF Accept
<1>. DEFINE pc == CASE h.kind \in {"default", "policy"} -> "done"
                    [] h.kind = "reverify" -> "reread"
                    [] OTHER -> "write"
            r == [h EXCEPT !.id = id, !.list = profiles, !.settings = Target(h),
                           !.pc = pc]
<1>3. /\ Target(h) \in Settings \cup {None}
      /\ h.kind \in {"save", "reverify", "activate", "default"} => Target(h) \in Settings
      /\ h.kind \in {"reverify", "delete", "activate"} => profiles[h.id] # None
      /\ h.kind \in {"reverify", "activate"} => Target(h) = profiles[h.id].settings
      /\ h.kind = "save" => NameIsFree(Target(h).label, h.id, profiles)
      /\ h.kind = "save" /\ ~h.create => profiles[h.id] # None
  BY <1>1, AcceptedFacts
<1>4. /\ id \in Ids \cup {None} /\ h.create => id \in Ids \ used
      /\ ~h.create => id = h.id
  BY <1>1, <1>2 DEF Thread
<1>5. /\ profiles \in Profiles /\ Unique(profiles)
      /\ used' \subseteq Ids
  BY <1>2, <1>4 DEF SettingsInv, Types, NamesUnique
<1>6. pc \in {"done", "reread", "write"}
  OBVIOUS
<1>7. /\ r \in Thread /\ r.pc = pc /\ r.kind = h.kind /\ r.id = id
      /\ r.create = h.create /\ r.settings = Target(h) /\ r.list = profiles
      /\ r.before = h.before /\ r.was = h.was /\ r.alone = h.alone
      /\ threads' = [threads EXCEPT ![t] = r]
  BY <1>1, <1>2, <1>3, <1>4, <1>5, <1>6 DEF Thread, Steps
<1>8. /\ recent' = IF h.kind \in {"save", "reverify", "activate"}
                   THEN recent \cup {Target(h)} ELSE recent
      /\ default' = IF h.kind = "default" THEN h.settings ELSE default
      /\ policy' = IF h.kind = "policy" THEN h.flag ELSE policy
      /\ UNCHANGED <<profiles, page>>
  BY DEF Accept
<1>9. /\ pc = "done" <=> h.kind \in {"default", "policy"}
      /\ pc = "reread" <=> h.kind = "reverify"
      /\ pc = "write" <=> h.kind \in {"save", "delete", "activate"}
  BY <1>1 DEF Sound
<1>. HIDE DEF r, pc
<1>10. h.kind = "save" \/ h.kind = "activate" \/ h.kind = "delete" \/ h.kind = "reverify" => id \in Ids
  BY <1>1, <1>4 DEF Sound
<1>14. NameIsFree(Target(h).label, h.id, profiles) =>
         (h.kind = "save" => NameIsFree(Target(h).label, id, profiles))
  BY <1>1, <1>4, NoneAssumption DEF NameIsFree, Sound
<1>11. Sound(r)
  <2>1. /\ r.create => r.kind = "save"
        /\ r.kind \in {"delete", "reverify", "activate"} => r.id \in Ids
        /\ r.kind \in {"save", "activate", "default", "probe"} => r.settings \in Settings
        /\ r.kind = "save" /\ ~r.create => r.id \in Ids
        /\ r.pc \notin {"probe", "begin", "record"}
    BY <1>1, <1>3, <1>6, <1>7, <1>10 DEF Sound
  <2>2. r.pc = "write" =>
          /\ r.kind \in {"save", "delete", "activate"} /\ r.id \in Ids
          /\ Unique(r.list)
          /\ r.kind = "save" => NameIsFree(r.settings.label, r.id, r.list)
          /\ r.kind = "save" /\ ~r.create => r.list[r.id] # None
    BY <1>3, <1>4, <1>5, <1>7, <1>9, <1>10, <1>14
  <2>3. r.pc = "reread" => r.kind \in {"save", "reverify", "activate"} /\ r.id \in Ids
    BY <1>7, <1>9, <1>10
  <2>. QED BY <2>1, <2>2, <2>3 DEF Sound
<1>12. r.alone => Exact(r, profiles', default', recent')
  <2>1. SUFFICES ASSUME r.alone, r.kind \in {"save", "delete", "reverify", "activate"}
                 PROVE  Exact(r, profiles, default, recent')
    BY <1>8, <1>7 DEF Exact
  <2>2. profiles = h.before /\ default = h.was
    BY <1>1, <1>7, <2>1 DEF SettingsInv, Solo, Exact
  <2>3. pc = "write" =>
          /\ r.kind \in {"save", "activate"} => r.settings \in recent'
          /\ r.kind = "activate" => profiles[r.id] # None /\ profiles[r.id].settings = r.settings
    BY <1>1, <1>3, <1>4, <1>7, <1>8 DEF Sound
  <2>4. pc = "reread" => HalfDone(r, profiles, default, recent')
    <3>1. SUFFICES ASSUME pc = "reread"
                   PROVE  HalfDone(r, profiles, default, recent')
      OBVIOUS
    <3>2. h.kind = "reverify" /\ id = h.id
      BY <1>1, <1>4, <1>9, <3>1 DEF Sound
    <3>3. /\ profiles[r.id] # None /\ profiles[r.id].settings = r.settings
          /\ r.settings \in recent'
      BY <1>3, <1>7, <1>8, <3>2
    <3>4. SettingsOf(profiles) = Asked(r, SettingsOf(r.before))
      BY <1>7, <2>2, <3>2 DEF Asked
    <3>5. FirstCommit(r, profiles, default)
      BY <1>7, <2>2, <3>2 DEF FirstCommit
    <3>. QED BY <1>7, <3>2, <3>3, <3>4, <3>5 DEF HalfDone
  <2>. QED BY <1>6, <1>7, <1>9, <2>1, <2>2, <2>3, <2>4 DEF Exact
<1>13. /\ threads' \in [Threads -> Thread]
       /\ \A u \in Threads : Sound(threads'[u])
       /\ Solo'
  BY <1>1, <1>7, <1>11, <1>12, OwnStep
<1>15. default' \in Settings \cup {None} /\ policy' \in BOOLEAN /\ recent' \subseteq Settings
  BY <1>1, <1>3, <1>8 DEF SettingsInv, Types, Thread
<1>16. Types' /\ NamesUnique'
  BY <1>5, <1>8, <1>13, <1>15 DEF SettingsInv, Types, NamesUnique, page, shown
<1>. QED BY <1>13, <1>16 DEF SettingsInv

\* The request is refused.
LEMMA RefuseKeeps ==
  ASSUME SettingsInv, NEW t \in Threads, Refuse(t)
  PROVE  SettingsInv'
<1>. DEFINE h == threads[t]
            r == [h EXCEPT !.pc = "refused"]
<1>1. h \in Thread /\ Sound(h) /\ h.pc = "begin"
  BY DEF SettingsInv, Types, Refuse
<1>2. /\ r \in Thread /\ r.pc = "refused" /\ r.kind = h.kind /\ r.id = h.id
      /\ r.create = h.create /\ r.settings = h.settings /\ r.list = h.list
      /\ r.before = h.before /\ r.was = h.was /\ r.alone = h.alone
      /\ threads' = [threads EXCEPT ![t] = r]
  BY GotoKeeps DEF Steps, Refuse
<1>3. UNCHANGED <<server, page, recent>>
  BY DEF Refuse
<1>. HIDE DEF r
<1>4. Sound(r)
  BY <1>1, <1>2 DEF Sound
<1>5. r.alone => Exact(r, profiles', default', recent')
  BY <1>1, <1>2, <1>3 DEF Exact, SettingsInv, Solo, server
<1>6. /\ threads' \in [Threads -> Thread]
      /\ \A u \in Threads : Sound(threads'[u])
      /\ Solo'
  BY <1>1, <1>2, <1>4, <1>5, OwnStep
<1>7. Types' /\ NamesUnique'
  BY <1>3, <1>6 DEF SettingsInv, Types, NamesUnique, server, page, shown
<1>. QED BY <1>6, <1>7 DEF SettingsInv

\* The request breaks: after its first commit that commit stands.
LEMMA BreaksKeeps ==
  ASSUME SettingsInv, NEW t \in Threads, Breaks(t)
  PROVE  SettingsInv'
<1>. DEFINE h == threads[t]
            r == [h EXCEPT !.pc = "failed"]
<1>1. h \in Thread /\ Sound(h) /\ h.pc \in {"begin", "write", "reread", "record"}
  BY DEF SettingsInv, Types, Breaks
<1>2. /\ r \in Thread /\ r.pc = "failed" /\ r.kind = h.kind /\ r.id = h.id
      /\ r.create = h.create /\ r.settings = h.settings /\ r.list = h.list
      /\ r.before = h.before /\ r.was = h.was /\ r.alone = h.alone
      /\ threads' = [threads EXCEPT ![t] = r]
  BY GotoKeeps DEF Steps, Breaks
<1>3. UNCHANGED <<server, page, recent>>
  BY DEF Breaks
<1>. HIDE DEF r
<1>4. Sound(r)
  BY <1>1, <1>2 DEF Sound
<1>5. ASSUME r.alone, h.kind \in {"save", "delete", "reverify", "activate"}
      PROVE  (profiles = h.before /\ default = h.was) \/ FirstCommit(h, profiles, default)
  BY <1>1, <1>2, <1>5 DEF Exact, HalfDone, SettingsInv, Solo
<1>6. FirstCommit(h, profiles, default) => FirstCommit(r, profiles, default)
  BY <1>2 DEF FirstCommit, Saved
<1>7. r.alone => Exact(r, profiles', default', recent')
  BY <1>2, <1>3, <1>5, <1>6 DEF Exact, server
<1>8. /\ threads' \in [Threads -> Thread]
      /\ \A u \in Threads : Sound(threads'[u])
      /\ Solo'
  BY <1>1, <1>2, <1>4, <1>7, OwnStep
<1>9. Types' /\ NamesUnique'
  BY <1>3, <1>8 DEF SettingsInv, Types, NamesUnique, server, page, shown
<1>. QED BY <1>8, <1>9 DEF SettingsInv

\* The first commit.
LEMMA WriteKeeps ==
  ASSUME SettingsInv, NEW t \in Threads, Write(t)
  PROVE  SettingsInv'
<1>. DEFINE h == threads[t]
            pc == IF h.kind = "delete" THEN "done" ELSE "reread"
            r == [h EXCEPT !.pc = pc]
<1>1. h \in Thread /\ Sound(h) /\ h.pc = "write"
  BY DEF SettingsInv, Types, Write
<1>2. h.id \in Ids /\ h.kind \in {"save", "delete", "activate"}
  BY <1>1 DEF Sound
<1>3. /\ r \in Thread /\ r.pc = pc /\ r.kind = h.kind /\ r.id = h.id
      /\ r.create = h.create /\ r.settings = h.settings /\ r.list = h.list
      /\ r.before = h.before /\ r.was = h.was /\ r.alone = h.alone
      /\ threads' = [threads EXCEPT ![t] = r]
  <2>1. pc \in Steps
    BY DEF Steps
  <2>2. Goto(t, pc)
    BY DEF Write
  <2>. HIDE DEF pc
  <2>. QED BY <2>1, <2>2, GotoKeeps
<1>4. /\ h.kind = "activate" => default' = h.settings /\ profiles' = profiles
      /\ h.kind # "activate" => profiles' = Changed(h) /\ default' = default
      /\ UNCHANGED <<policy, used, page, recent>>
  BY DEF Write
<1>5. h.kind = "activate" => h.settings \in Settings
  BY <1>1 DEF Sound
<1>. HIDE DEF r
<1>6. Sound(r)
  BY <1>1, <1>2, <1>3 DEF Sound
<1>7. ASSUME r.alone PROVE Exact(r, profiles', default', recent')
  <2>1. /\ profiles = h.before /\ default = h.was /\ h.list = profiles
        /\ h.kind \in {"save", "activate"} => h.settings \in recent
        /\ h.kind = "activate" => profiles[h.id] # None /\ profiles[h.id].settings = h.settings
    BY <1>1, <1>2, <1>3, <1>7 DEF SettingsInv, Solo, Exact
  <2>2. SettingsOf(profiles') = Asked(r, SettingsOf(r.before))
    <3>1. CASE h.kind = "activate"
      BY <3>1, <1>3, <1>4, <2>1 DEF Asked
    <3>2. CASE h.kind # "activate"
      <4>1. SettingsOf(Changed(h)) = Asked(h, SettingsOf(h.list))
        BY <1>1, <3>2, ChangedList
      <4>2. Asked(h, SettingsOf(h.list)) = Asked(r, SettingsOf(r.before))
        BY <1>3, <2>1 DEF Asked
      <4>. QED BY <1>4, <3>2, <4>1, <4>2
    <3>. QED BY <3>1, <3>2
  <2>6. FirstCommit(r, profiles', default') \/ h.kind = "delete"
    <3>1. CASE h.kind = "activate"
      BY <3>1, <1>3, <1>4, <2>1 DEF FirstCommit
    <3>2. CASE h.kind = "save"
      <4>1. Changed(h) = Saved(r, r.before)
        BY <3>2, <1>3, <2>1 DEF Changed, Saved
      <4>. QED BY <3>2, <4>1, <1>3, <1>4, <2>1 DEF FirstCommit
    <3>. QED BY <1>2, <3>1, <3>2
  <2>3. ASSUME h.kind # "delete" PROVE HalfDone(r, profiles', default', recent')
    <3>1. CASE h.kind = "activate"
      BY <3>1, <1>3, <1>4, <2>1, <2>2, <2>6 DEF HalfDone, page
    <3>2. CASE h.kind = "save"
      <4>1. Changed(h)[h.id] # None /\ Changed(h)[h.id].settings = h.settings
        BY <1>1, <3>2, ChangedList
      <4>. QED BY <3>2, <4>1, <1>3, <1>4, <2>1, <2>2, <2>6 DEF HalfDone
    <3>. QED BY <1>2, <2>3, <3>1, <3>2
  <2>4. CASE h.kind = "delete"
    BY <1>3, <1>4, <2>1, <2>2, <2>4 DEF Exact
  <2>5. CASE h.kind # "delete"
    BY <1>3, <2>3, <2>5 DEF Exact
  <2>. QED BY <2>4, <2>5
<1>8. /\ threads' \in [Threads -> Thread]
      /\ \A u \in Threads : Sound(threads'[u])
      /\ Solo'
  BY <1>1, <1>3, <1>6, <1>7, OwnStep
<1>9. profiles' \in Profiles /\ Unique(profiles')
  BY <1>1, <1>4, ChangedList DEF SettingsInv, Types, NamesUnique
<1>10. Types' /\ NamesUnique'
  BY <1>4, <1>5, <1>8, <1>9 DEF SettingsInv, Types, NamesUnique, page, shown
<1>. QED BY <1>8, <1>10 DEF SettingsInv

\* The list read again.
LEMMA RereadKeeps ==
  ASSUME SettingsInv, NEW t \in Threads, Reread(t)
  PROVE  SettingsInv'
<1>. DEFINE h == threads[t]
            r == [h EXCEPT !.pc = "record", !.list = profiles]
            f == [h EXCEPT !.pc = "failed"]
<1>1. h \in Thread /\ Sound(h) /\ h.pc = "reread" /\ UNCHANGED <<server, page, recent>>
  BY DEF SettingsInv, Types, Reread
<1>2. h.id \in Ids /\ h.kind \in {"save", "reverify", "activate"}
  BY <1>1 DEF Sound
<1>3. h.alone => HalfDone(h, profiles, default, recent)
  BY <1>1, <1>2 DEF SettingsInv, Solo, Exact
<1>4. profiles \in Profiles /\ Unique(profiles)
  BY DEF SettingsInv, Types, NamesUnique
<1>5. /\ threads' \in [Threads -> Thread]
      /\ \A u \in Threads : Sound(threads'[u])
      /\ Solo'
  <2>1. CASE profiles[h.id] = None
    <3>1. /\ f \in Thread /\ f.pc = "failed" /\ f.kind = h.kind /\ f.id = h.id
          /\ f.create = h.create /\ f.settings = h.settings /\ f.alone = h.alone
          /\ threads' = [threads EXCEPT ![t] = f]
      BY <2>1, GotoKeeps DEF Steps, Reread
    <3>2. ~h.alone
      BY <1>3, <2>1 DEF HalfDone
    <3>. HIDE DEF f
    <3>3. Sound(f)
      BY <1>1, <3>1 DEF Sound
    <3>. QED BY <1>1, <3>1, <3>2, <3>3, OwnStep
  <2>2. CASE profiles[h.id] # None
    <3>1. /\ r \in Thread /\ r.pc = "record" /\ r.kind = h.kind /\ r.id = h.id
          /\ r.create = h.create /\ r.settings = h.settings /\ r.list = profiles
          /\ r.before = h.before /\ r.was = h.was /\ r.alone = h.alone
      BY <1>1, <1>4 DEF Thread, Steps
    <3>2. threads' = [threads EXCEPT ![t] = r]
      BY <2>2 DEF Reread
    <3>. HIDE DEF r
    <3>3. Sound(r)
      BY <1>1, <1>2, <1>4, <2>2, <3>1 DEF Sound
    <3>4. r.alone => Exact(r, profiles', default', recent')
      <4>1. r.alone => HalfDone(r, profiles, default, recent)
        BY <1>3, <3>1 DEF HalfDone, Asked, FirstCommit, Saved
      <4>. QED BY <1>1, <3>1, <4>1 DEF Exact, server
    <3>. QED BY <1>1, <3>1, <3>2, <3>3, <3>4, OwnStep
  <2>. QED BY <2>1, <2>2
<1>6. Types' /\ NamesUnique'
  BY <1>1, <1>5 DEF SettingsInv, Types, NamesUnique, server, page, shown
<1>. QED BY <1>5, <1>6 DEF SettingsInv

\* The second commit.
LEMMA RecordKeeps ==
  ASSUME SettingsInv, NEW t \in Threads, Record(t)
  PROVE  SettingsInv'
<1>. DEFINE h == threads[t]
            r == [h EXCEPT !.pc = "done"]
<1>1. /\ h \in Thread /\ Sound(h) /\ h.pc = "record"
      /\ profiles' = Recorded(h) /\ UNCHANGED <<default, policy, used, page, recent>>
  BY DEF SettingsInv, Types, Record
<1>2. /\ h.id \in Ids /\ h.kind \in {"save", "reverify", "activate"}
      /\ Unique(h.list) /\ h.list[h.id] # None
  BY <1>1 DEF Sound
<1>3. /\ r \in Thread /\ r.pc = "done" /\ r.kind = h.kind /\ r.id = h.id
      /\ r.create = h.create /\ r.settings = h.settings /\ r.list = h.list
      /\ r.before = h.before /\ r.was = h.was /\ r.alone = h.alone
      /\ threads' = [threads EXCEPT ![t] = r]
  BY GotoKeeps DEF Steps, Record
<1>4. /\ Recorded(h) \in Profiles /\ Unique(Recorded(h))
      /\ Recorded(h)[h.id] # None /\ Recorded(h)[h.id].probe = "fresh"
      /\ SettingsOf(Recorded(h)) = SettingsOf(h.list)
  <2>1. Recorded(h)[h.id] = [name |-> h.list[h.id].name,
                             settings |-> h.list[h.id].settings, probe |-> "fresh"]
    BY <1>1, <1>2, RecordedList
  <2>2. Recorded(h)[h.id].probe = "fresh"
    BY <2>1
  <2>3. /\ Recorded(h) \in Profiles /\ Recorded(h)[h.id] # None
        /\ SettingsOf(Recorded(h)) = SettingsOf(h.list)
        /\ Unique(h.list) => Unique(Recorded(h))
    BY <1>1, <1>2, RecordedList
  <2>. QED BY <1>2, <2>2, <2>3
<1>. HIDE DEF r
<1>5. Sound(r)
  BY <1>1, <1>3 DEF Sound
<1>6. ASSUME r.alone PROVE Exact(r, profiles', default', recent')
  <2>1. HalfDone(h, profiles, default, recent) /\ h.list = profiles
    BY <1>1, <1>2, <1>3, <1>6 DEF SettingsInv, Solo, Exact
  <2>2. SettingsOf(profiles') = Asked(r, SettingsOf(r.before))
    BY <1>1, <1>3, <1>4, <2>1 DEF HalfDone, Asked
  <2>3. Fresh(profiles', r.id)
    BY <1>1, <1>3, <1>4 DEF Fresh
  <2>4. default' = IF r.kind = "activate" THEN r.before[r.id].settings ELSE r.was
    BY <1>1, <1>3, <2>1 DEF HalfDone, FirstCommit
  <2>. QED BY <1>3, <2>2, <2>3, <2>4 DEF Exact
<1>7. /\ threads' \in [Threads -> Thread]
      /\ \A u \in Threads : Sound(threads'[u])
      /\ Solo'
  BY <1>1, <1>3, <1>5, <1>6, OwnStep
<1>8. Types' /\ NamesUnique'
  BY <1>1, <1>4, <1>7 DEF SettingsInv, Types, NamesUnique, page, shown
<1>. QED BY <1>7, <1>8 DEF SettingsInv

\* The answer of a request that has succeeded.
LEMMA SucceedsKeeps ==
  ASSUME SettingsInv, NEW t \in Threads, Succeeds(t)
  PROVE  SettingsInv'
<1>. DEFINE h == threads[t]
            r == [h EXCEPT !.pc = "lists"]
<1>1. /\ h \in Thread /\ Sound(h) /\ h.pc = "done"
      /\ UNCHANGED <<server, form, view, recent>>
  BY DEF SettingsInv, Types, Succeeds
<1>2. /\ threads' \in [Threads -> Thread]
      /\ \A u \in Threads : Sound(threads'[u])
      /\ Solo'
  <2>1. CASE h.kind \in {"default", "policy"}
    BY <1>1, <2>1, EndedKeeps DEF Succeeds, server
  <2>2. CASE h.kind \notin {"default", "policy"}
    <3>1. /\ r \in Thread /\ r.pc = "lists" /\ r.kind = h.kind /\ r.id = h.id
          /\ r.create = h.create /\ r.settings = h.settings /\ r.alone = h.alone
          /\ threads' = [threads EXCEPT ![t] = r]
      BY <2>2, GotoKeeps DEF Steps, Succeeds
    <3>. HIDE DEF r
    <3>2. Sound(r) /\ Exact(r, profiles', default', recent')
      BY <1>1, <3>1 DEF Sound, Exact
    <3>. QED BY <1>1, <3>1, <3>2, OwnStep
  <2>. QED BY <2>1, <2>2
<1>3. /\ selected' \in {selected, h.id, None}
      /\ shownDefault' = IF h.kind \in {"default", "activate"} THEN h.settings ELSE shownDefault
      /\ shownPolicy' = IF h.kind = "policy" THEN h.flag ELSE shownPolicy
  BY DEF Succeeds
<1>4. /\ selected' \in Ids \cup {None} /\ shownDefault' \in Settings \cup {None}
      /\ shownPolicy' \in BOOLEAN
  BY <1>1, <1>3 DEF SettingsInv, Types, Thread
<1>5. Types' /\ NamesUnique'
  BY <1>1, <1>2, <1>4 DEF SettingsInv, Types, NamesUnique, server
<1>. QED BY <1>2, <1>5 DEF SettingsInv

\* The refresh that ends a handler, and answers that change nothing.
LEMMA AnswersKeep ==
  ASSUME SettingsInv, NEW t \in Threads, Answer(t)
  PROVE  SettingsInv'
<1>. DEFINE h == threads[t]
<1>1. h \in Thread /\ Sound(h)
  BY DEF SettingsInv, Types
<1>2. CASE Fails(t) \/ Unheard(t) \/ Unhealthy(t)
  <2>1. /\ h.pc # "idle" /\ Ended(t)
        /\ UNCHANGED <<server, form, selected, shown, recent>>
    BY <1>2 DEF Fails, Unheard, Unhealthy, RefreshEnds, page
  <2>2. /\ threads' \in [Threads -> Thread]
        /\ \A u \in Threads : Sound(threads'[u])
        /\ Solo'
    BY <2>1, EndedKeeps DEF server
  <2>3. Types' /\ NamesUnique'
    BY <2>1, <2>2 DEF SettingsInv, Types, NamesUnique, server, shown
  <2>. QED BY <2>2, <2>3 DEF SettingsInv
<1>3. CASE Succeeds(t)
  BY <1>3, SucceedsKeeps
<1>4. CASE ReadLists(t)
  <2>. DEFINE r == [h EXCEPT !.pc = "show", !.list = profiles,
                             !.read = [default |-> default, policy |-> policy]]
  <2>1. h.pc = "lists" /\ threads' = [threads EXCEPT ![t] = r]
        /\ UNCHANGED <<server, page, recent>>
    BY <1>4 DEF ReadLists, SettingsInv, Types
  <2>2. [default |-> default, policy |-> policy] \in Reading
    BY DEF SettingsInv, Types, Reading
  <2>3. /\ r \in Thread /\ r.pc = "show" /\ r.kind = h.kind /\ r.id = h.id
        /\ r.create = h.create /\ r.settings = h.settings /\ r.alone = h.alone
    BY <1>1, <2>2 DEF Thread, Steps, SettingsInv, Types
  <2>. HIDE DEF r
  <2>4. Sound(r) /\ Exact(r, profiles', default', recent')
    BY <1>1, <2>3 DEF Sound, Exact
  <2>5. /\ threads' \in [Threads -> Thread]
        /\ \A u \in Threads : Sound(threads'[u])
        /\ Solo'
    BY <2>1, <2>3, <2>4, OwnStep
  <2>6. Types' /\ NamesUnique'
    BY <2>1, <2>5 DEF SettingsInv, Types, NamesUnique, server, page, shown
  <2>. QED BY <2>5, <2>6 DEF SettingsInv
<1>5. ASSUME NEW failed \in Failures, Show(t, failed) PROVE SettingsInv'
  <2>1. /\ h.pc # "idle" /\ Ended(t) /\ UNCHANGED <<server, form, selected, recent>>
    BY <1>5 DEF Show, RefreshEnds
  <2>2. /\ threads' \in [Threads -> Thread]
        /\ \A u \in Threads : Sound(threads'[u])
        /\ Solo'
    BY <2>1, EndedKeeps DEF server
  <2>3. /\ view' \in {NoProfiles, h.list} /\ shownDefault' \in {None, h.read.default}
        /\ shownPolicy' \in {shownPolicy, h.read.policy}
    BY <1>5 DEF Show
  <2>4. h.list \in Profiles /\ h.read \in Reading /\ NoProfiles \in Profiles
    BY <1>1 DEF Thread, NoProfiles, Profiles
  <2>5. /\ view' \in Profiles /\ shownDefault' \in Settings \cup {None}
        /\ shownPolicy' \in BOOLEAN
    BY <2>3, <2>4 DEF Reading, SettingsInv, Types
  <2>6. Types' /\ NamesUnique'
    BY <2>1, <2>2, <2>5 DEF SettingsInv, Types, NamesUnique, server
  <2>. QED BY <2>2, <2>6 DEF SettingsInv
<1>. QED BY <1>2, <1>3, <1>4, <1>5 DEF Answer

\* Probes go stale while no request is under way.
LEMMA AgeKeeps ==
  ASSUME SettingsInv, Age
  PROVE  SettingsInv'
<1>1. /\ profiles' = Aged(profiles) /\ view' = Aged(view) /\ recent' = {} /\ Quiet
      /\ UNCHANGED <<default, policy, used, form, selected, shownDefault, shownPolicy, threads>>
  BY DEF Age
<1>2. profiles' \in Profiles /\ view' \in Profiles
  BY <1>1, AgedList DEF SettingsInv, Types
<1>3. Unique(profiles')
  <2>1. profiles \in Profiles /\ Unique(profiles)
    BY DEF SettingsInv, Types, NamesUnique
  <2>. QED BY <1>1, <2>1, AgedList DEF Unique
<1>4. Types' /\ NamesUnique'
  BY <1>1, <1>2, <1>3 DEF SettingsInv, Types, NamesUnique
<1>5. Solo' /\ \A u \in Threads : Sound(threads'[u])
  BY <1>1 DEF Solo, Quiet, SettingsInv
<1>. QED BY <1>4, <1>5 DEF SettingsInv

-----------------------------------------------------------------------------
(* The specification.                                                      *)

\* The initial states.
LEMMA InitSettings == Init => SettingsInv
<1>. SUFFICES ASSUME Init PROVE SettingsInv
  OBVIOUS
<1>1. PICK t \in Threads :
        threads = [u \in Threads |->
          IF u = t THEN [Idle EXCEPT !.pc = "lists", !.kind = "refresh", !.before = profiles]
          ELSE Idle]
  BY DEF Init
<1>. DEFINE r == [Idle EXCEPT !.pc = "lists", !.kind = "refresh", !.before = profiles]
<1>2. profiles \in Profiles /\ Unique(profiles)
  BY ConstantsAssumption DEF Init
<1>0. r \in Thread /\ r.pc = "lists" /\ r.kind = "refresh" /\ r.create = FALSE
  BY <1>2, IdleHandler DEF Thread, Steps, Kinds
<1>. HIDE DEF r
<1>3. r \in Thread /\ Sound(r) /\ r.pc = "lists"
  BY <1>0 DEF Sound
<1>4. /\ threads \in [Threads -> Thread]
      /\ \A u \in Threads : Sound(threads[u])
      /\ \A u \in Threads \ {t} : threads[u].pc = "idle"
  BY <1>1, <1>3, IdleHandler DEF r
<1>5. Solo
  <2>1. threads[t] = r /\ Exact(r, profiles, default, recent)
    BY <1>0, <1>1 DEF Exact, r
  <2>. QED BY <2>1, <1>4 DEF Solo
<1>6. recent \subseteq Settings /\ used \subseteq Ids
  BY <1>2, ProfileFields DEF Init
<1>7. Types
  BY <1>2, <1>4, <1>6, ConstantsAssumption DEF Init, Types, NoProfiles, Profiles
<1>. QED BY <1>2, <1>4, <1>5, <1>7 DEF SettingsInv, NamesUnique

\* Every step keeps the invariant.
LEMMA NextSettings == SettingsInv /\ [Next]_vars => SettingsInv'
<1>. SUFFICES ASSUME SettingsInv, [Next]_vars PROVE SettingsInv'
  OBVIOUS
<1>1. CASE \E f \in Typed : Edit(f)
  BY <1>1, FormKeeps
<1>2. CASE \E i \in Ids : Load(i)
  BY <1>2, FormKeeps
<1>3. ASSUME NEW t \in Threads, Clicked(t) PROVE SettingsInv'
  BY <1>3, ClicksKeep, PollTickKeeps, ReloadKeeps DEF Clicked
<1>4. ASSUME NEW t \in Threads, Request(t) PROVE SettingsInv'
  BY <1>4, AcceptKeeps, RefuseKeeps, BreaksKeeps, WriteKeeps, RereadKeeps, RecordKeeps DEF Request
<1>5. ASSUME NEW t \in Threads, Answer(t) PROVE SettingsInv'
  BY <1>5, AnswersKeep
<1>6. ASSUME NEW t \in Threads, NEW reachable \in BOOLEAN, ProbeAnswered(t, reachable)
      PROVE  SettingsInv'
  BY <1>6, ProbeAnsweredKeeps
<1>7. CASE Age
  BY <1>7, AgeKeeps
<1>8. CASE UNCHANGED vars
  <2>1. UNCHANGED <<server, page, threads, recent>>
    BY <1>8 DEF vars
  <2>. QED BY <2>1 DEF SettingsInv, Types, NamesUnique, Solo, server, page, shown
<1>. QED BY <1>1, <1>2, <1>3, <1>4, <1>5, <1>6, <1>7, <1>8 DEF Next

\* The rows, the page and every handler are of their types, no request acts on
\* a list it has not checked, and a request nobody overlaps is as far as its
\* step says (provider_profiles.py, SettingsPage).
THEOREM SettingsInvariant == Spec => []SettingsInv
<1>. QED BY InitSettings, NextSettings, PTL DEF Spec

\* No two profiles have the same name, however create, update, delete and probe
\* requests overlap (provider_profiles.py).
THEOREM NamesAlwaysUnique == Spec => []NamesUnique
<1>1. SettingsInv => NamesUnique
  BY DEF SettingsInv
<1>. QED BY <1>1, SettingsInvariant, PTL

\* A request that no other overlapped has done what was asked and no more, has
\* changed nothing when it was refused, and has left nothing or the whole of its
\* first commit when it broke (create_, update_ and
\* delete_custom_provider_profile and the endpoints that call them).
THEOREM AloneAlwaysExact == Spec => []AloneRequestIsExact
<1>1. ASSUME SettingsInv PROVE AloneRequestIsExact
  <2>. SUFFICES ASSUME NEW t \in Threads, threads[t].alone,
                       threads[t].kind \in {"save", "delete", "reverify", "activate"}
                PROVE  LET h == threads[t]
                           old == h.before
                       IN /\ h.pc = "refused" => profiles = old /\ default = h.was
                          /\ h.pc = "failed" =>
                               \/ profiles = old /\ default = h.was
                               \/ h.kind = "save" /\ profiles = Saved(h, old) /\ default = h.was
                               \/ /\ h.kind = "activate" /\ profiles = old
                                  /\ default = old[h.id].settings
                          /\ h.pc = "done" =>
                               /\ SettingsOf(profiles) = Asked(h, SettingsOf(old))
                               /\ h.kind # "delete" => Fresh(profiles, h.id)
                               /\ default = IF h.kind = "activate" THEN old[h.id].settings
                                            ELSE h.was
    BY DEF AloneRequestIsExact, Asked
  <2>. DEFINE h == threads[t]
  <2>1. h.pc # "idle" => Exact(h, profiles, default, recent)
    BY <1>1 DEF SettingsInv, Solo
  <2>. HIDE DEF h
  <2>2. ASSUME h.pc = "failed", h.kind \in {"save", "delete", "reverify", "activate"}
        PROVE  \/ profiles = h.before /\ default = h.was
               \/ h.kind = "save" /\ profiles = Saved(h, h.before) /\ default = h.was
               \/ /\ h.kind = "activate" /\ profiles = h.before
                  /\ default = h.before[h.id].settings
    BY <2>1, <2>2 DEF Exact, FirstCommit
  <2>. QED BY <2>1, <2>2 DEF Exact, h
<1>. QED BY <1>1, SettingsInvariant, PTL

\* A step marks settings nobody has probed as verified only when it is a commit
\* of a request that another overlapped.
LEMMA FreshStep ==
  ASSUME SettingsInv, [Next]_vars, NEW i \in Ids,
         Fresh(profiles', i), profiles'[i].settings \notin recent'
  PROVE  \/ Fresh(profiles, i) /\ profiles[i].settings = profiles'[i].settings
            /\ profiles[i].settings \notin recent
         \/ \E t \in Threads : threads[t].pc \in {"write", "record"} /\ ~threads[t].alone
<1>1. CASE profiles' = profiles /\ recent \subseteq recent'
  BY <1>1
<1>2. CASE Age
  <2>1. ~Fresh(profiles', i)
    BY <1>2, AgedList DEF Age, SettingsInv, Types
  <2>. QED BY <2>1
<1>3. ASSUME NEW t \in Threads, Write(t), threads[t].alone
      PROVE  Fresh(profiles, i) /\ profiles[i].settings = profiles'[i].settings
             /\ profiles[i].settings \notin recent
  <2>. DEFINE h == threads[t]
  <2>1. /\ h \in Thread /\ Sound(h) /\ h.pc = "write" /\ recent' = recent
    BY <1>3 DEF SettingsInv, Types, Write
  <2>2. h.kind \in {"save", "delete", "activate"} /\ h.id \in Ids
    BY <2>1 DEF Sound
  <2>3. h.list = profiles /\ h.kind = "save" => h.settings \in recent
    BY <1>3, <2>1, <2>2 DEF SettingsInv, Solo, Exact
  <2>4. h.list = profiles
    BY <1>3, <2>1, <2>2 DEF SettingsInv, Solo, Exact
  <2>5. CASE h.kind = "activate"
    BY <1>3, <2>1, <2>5 DEF Write
  <2>6. CASE h.kind # "activate"
    <3>1. /\ \A j \in Ids \ {h.id} : profiles'[j] = profiles[j]
          /\ h.kind = "delete" => profiles'[h.id] = None
          /\ h.kind = "save" => profiles'[h.id].settings = h.settings
      BY <1>3, <2>1, <2>4, <2>6, ChangedList DEF Write
    <3>2. i # h.id
      BY <2>1, <2>2, <2>3, <2>4, <2>6, <3>1 DEF Fresh
    <3>. QED BY <2>1, <3>1, <3>2 DEF Fresh
  <2>. QED BY <2>5, <2>6
<1>4. ASSUME NEW t \in Threads, Record(t), threads[t].alone
      PROVE  Fresh(profiles, i) /\ profiles[i].settings = profiles'[i].settings
             /\ profiles[i].settings \notin recent
  <2>. DEFINE h == threads[t]
  <2>1. /\ h \in Thread /\ Sound(h) /\ h.pc = "record" /\ recent' = recent
        /\ profiles' = Recorded(h)
    BY <1>4 DEF SettingsInv, Types, Record
  <2>2. h.kind \in {"save", "reverify", "activate"} /\ h.id \in Ids /\ h.list[h.id] # None
    BY <2>1 DEF Sound
  <2>3. h.list = profiles /\ profiles[h.id].settings \in recent
    BY <1>4, <2>1, <2>2 DEF SettingsInv, Solo, Exact, HalfDone
  <2>4. Recorded(h)[h.id] = [name |-> h.list[h.id].name,
                             settings |-> h.list[h.id].settings, probe |-> "fresh"]
        /\ \A j \in Ids \ {h.id} : Recorded(h)[j] = h.list[j]
    BY <2>1, <2>2, RecordedList
  <2>5. i # h.id
    BY <2>1, <2>3, <2>4
  <2>. QED BY <2>1, <2>3, <2>4, <2>5 DEF Fresh
<1>5. CASE \E f \in Typed : Edit(f)
  BY <1>1, <1>5 DEF Edit, server
<1>6. CASE \E j \in Ids : Load(j)
  BY <1>1, <1>6 DEF Load, server
<1>7. ASSUME NEW t \in Threads, Clicked(t) PROVE profiles' = profiles /\ recent' = recent
  BY <1>7 DEF Clicked, ClickSave, ClickPolicy, PollTick, Reload, ClickActivate,
       ClickReverify, ClickDelete, ClickDefault, ClickProbe, server
<1>8. ASSUME NEW t \in Threads, Answer(t) PROVE profiles' = profiles /\ recent' = recent
  BY <1>8 DEF Answer, Fails, Succeeds, Unheard, Unhealthy, ReadLists, Show, server
<1>9. ASSUME NEW t \in Threads, NEW reachable \in BOOLEAN, ProbeAnswered(t, reachable)
      PROVE  profiles' = profiles /\ recent \subseteq recent'
  BY <1>9 DEF ProbeAnswered, server
<1>10. ASSUME NEW t \in Threads, Accept(t) \/ Refuse(t) \/ Breaks(t) \/ Reread(t)
       PROVE  profiles' = profiles /\ recent \subseteq recent'
  BY <1>10 DEF Accept, Refuse, Breaks, Reread, server
<1>11. ASSUME NEW t \in Threads, Write(t) \/ Record(t)
       PROVE  threads[t].pc \in {"write", "record"}
  BY <1>11 DEF Write, Record
<1>12. CASE UNCHANGED vars
  BY <1>1, <1>12 DEF vars, server
<1>. QED BY <1>1, <1>2, <1>3, <1>4, <1>5, <1>6, <1>7, <1>8, <1>9, <1>10, <1>11, <1>12
         DEF Next, Request

\* A profile counts as freshly verified with settings nobody has probed only
\* after two requests overlapped (record_custom_provider_profile_probe).
THEOREM UnprobedOnlyByRace == Spec => UnprobedFreshOnlyByRace
<1>1. ASSUME SettingsInv, [Next]_vars
      PROVE  \A i \in Ids :
               Fresh(profiles', i) /\ profiles'[i].settings \notin recent' =>
                 \/ Fresh(profiles, i) /\ profiles[i].settings = profiles'[i].settings
                    /\ profiles[i].settings \notin recent
                 \/ \E t \in Threads :
                      threads[t].pc \in {"write", "record"} /\ ~threads[t].alone
  BY <1>1, FreshStep
<1>. QED BY <1>1, SettingsInvariant, PTL DEF Spec, UnprobedFreshOnlyByRace

-----------------------------------------------------------------------------
(* Loading and saving.                                                     *)

\* A profile as it was stored at the start, or one the form can keep.
FromStart(i, p) ==
  \E list \in StoredAtStart :
    /\ list[i] # None
    /\ p.name = list[i].name /\ p.settings = list[i].settings
Known(i, p) ==
  (LoadsBack(p.settings) /\ p.name = p.settings.label) \/ FromStart(i, p)
KnownList(list) == \A i \in Ids : list[i] # None => Known(i, list[i])

\* A handler holds such profiles, and what it saves came from the form.
Traced(h) == KnownList(h.list) /\ (h.kind = "save" => LoadsBack(h.settings))
SourceInv == KnownList(profiles) /\ \A t \in Threads : Traced(threads[t])

\* Only names and settings matter for where a profile came from.
LEMMA KnownAlike ==
  ASSUME NEW list, NEW new, KnownList(list),
         \A i \in Ids : new[i] # None =>
           /\ list[i] # None /\ new[i].name = list[i].name
           /\ new[i].settings = list[i].settings
  PROVE  KnownList(new)
<1>. SUFFICES ASSUME NEW i \in Ids, new[i] # None PROVE Known(i, new[i])
  BY DEF KnownList
<1>1. Known(i, list[i]) /\ new[i].name = list[i].name /\ new[i].settings = list[i].settings
  BY DEF KnownList
<1>. QED BY <1>1 DEF Known, FromStart

LEMMA IdleTraced == Traced(Idle) /\ KnownList(NoProfiles)
<1>1. KnownList(NoProfiles)
  BY DEF KnownList, NoProfiles
<1>. QED BY <1>1, IdleHandler, NoneAssumption DEF Traced, Idle, Kinds

\* A step of one handler that leaves the row alone.
LEMMA TraceStep ==
  ASSUME SettingsInv, SourceInv, NEW t \in Threads, NEW r, Traced(r),
         threads' = [threads EXCEPT ![t] = r], KnownList(profiles')
  PROVE  SourceInv'
<1>1. \A u \in Threads : threads'[u] = r \/ threads'[u] = threads[u]
  BY DEF SettingsInv, Types
<1>. QED BY <1>1 DEF SourceInv

LEMMA TraceGoto ==
  ASSUME SettingsInv, SourceInv, NEW t \in Threads, NEW pc \in Steps, Goto(t, pc),
         KnownList(profiles')
  PROVE  SourceInv'
<1>. DEFINE r == [threads[t] EXCEPT !.pc = pc]
<1>1. /\ r.kind = threads[t].kind /\ r.settings = threads[t].settings
      /\ r.list = threads[t].list /\ threads' = [threads EXCEPT ![t] = r]
  BY GotoKeeps
<1>. HIDE DEF r
<1>2. Traced(r)
  BY <1>1 DEF SourceInv, Traced
<1>. QED BY <1>1, <1>2, TraceStep

LEMMA TraceEnded ==
  ASSUME SettingsInv, SourceInv, NEW t \in Threads, Ended(t), KnownList(profiles')
  PROVE  SourceInv'
BY IdleTraced, TraceStep DEF Ended

\* A new handler; what it saves is the form.
LEMMA TraceSent ==
  ASSUME SettingsInv, SourceInv, NEW t \in Threads, NEW r \in Thread, Sent(t, r),
         Traced(r), profiles' = profiles
  PROVE  SourceInv'
<1>. DEFINE q == [r EXCEPT !.seen = selected, !.before = profiles, !.was = default,
                           !.alone = Others(t) = {}]
            g(u) == [threads[u] EXCEPT !.alone = FALSE]
<1>1. threads' = [u \in Threads |-> IF u = t THEN q ELSE g(u)]
  BY DEF Sent
<1>2. q.kind = r.kind /\ q.settings = r.settings /\ q.list = r.list
  BY DEF Thread
<1>3. ASSUME NEW u \in Threads
      PROVE  /\ g(u).kind = threads[u].kind /\ g(u).settings = threads[u].settings
             /\ g(u).list = threads[u].list
  BY DEF Thread, SettingsInv, Types
<1>. HIDE DEF q, g
<1>4. Traced(q)
  BY <1>2 DEF Traced
<1>5. ASSUME NEW u \in Threads PROVE Traced(g(u))
  BY <1>3 DEF Traced, SourceInv
<1>6. ASSUME NEW u \in Threads PROVE Traced(threads'[u])
  BY <1>1, <1>4, <1>5
<1>. QED BY <1>6 DEF SourceInv

\* Clicks, the poll timer and a reload.
LEMMA TraceClicked ==
  ASSUME SettingsInv, SourceInv, NEW t \in Threads, Clicked(t)
  PROVE  SourceInv'
<1>. USE IdleHandler, IdleTraced
<1>1. CASE ClickSave(t)
  <2>. DEFINE r == [Idle EXCEPT !.pc = "probe", !.kind = "save", !.id = selected,
                           !.create = selected = None,
                           !.settings = buildCustomProviderSettings(form)]
  <2>1. /\ LoadsBack(buildCustomProviderSettings(form))
        /\ buildCustomProviderSettings(form) \in Settings
        /\ selected \in Ids \cup {None}
    BY <1>1, BuiltSettings DEF ClickSave, SettingsInv, Types
  <2>2. r \in Thread /\ r.settings = buildCustomProviderSettings(form) /\ r.list = Idle.list
    BY <2>1 DEF Thread, Steps, Kinds
  <2>3. Sent(t, r) /\ profiles' = profiles
    BY <1>1 DEF ClickSave, Click, server
  <2>. HIDE DEF r
  <2>. QED BY <2>1, <2>2, <2>3, TraceSent DEF Traced
<1>2. ASSUME NEW r \in Thread, Sent(t, r), r.kind # "save", r.list = Idle.list,
             profiles' = profiles
      PROVE  SourceInv'
  BY <1>2, TraceSent DEF Traced
<1>3. CASE ClickPolicy(t)
  <2>. DEFINE r == [Idle EXCEPT !.pc = "begin", !.kind = "policy", !.flag = ~shownPolicy]
  <2>1. r \in Thread /\ r.kind = "policy" /\ r.list = Idle.list
    BY DEF SettingsInv, Types, Thread, Steps, Kinds
  <2>2. Sent(t, r) /\ profiles' = profiles
    BY <1>3 DEF ClickPolicy, Click, server
  <2>. HIDE DEF r
  <2>. QED BY <1>2, <2>1, <2>2
<1>4. ASSUME NEW i \in Ids, ClickActivate(t, i) PROVE SourceInv'
  <2>. DEFINE r == [Idle EXCEPT !.pc = "probe", !.kind = "activate", !.id = i,
                           !.settings = view[i].settings]
  <2>1. view[i].settings \in Settings
    BY <1>4, CardSettings DEF ClickActivate
  <2>2. r \in Thread /\ r.kind = "activate" /\ r.list = Idle.list
    BY <2>1 DEF Thread, Steps, Kinds
  <2>3. Sent(t, r) /\ profiles' = profiles
    BY <1>4 DEF ClickActivate, Click, server
  <2>. HIDE DEF r
  <2>. QED BY <1>2, <2>2, <2>3
<1>5. ASSUME NEW i \in Ids, NEW kind \in {"reverify", "delete"}, profiles' = profiles,
             Sent(t, [Idle EXCEPT !.pc = "begin", !.kind = kind, !.id = i])
      PROVE  SourceInv'
  <2>. DEFINE r == [Idle EXCEPT !.pc = "begin", !.kind = kind, !.id = i]
  <2>1. r \in Thread /\ r.kind = kind /\ r.list = Idle.list
    BY DEF Thread, Steps, Kinds
  <2>2. Sent(t, r)
    BY <1>5
  <2>. HIDE DEF r
  <2>. QED BY <1>2, <1>5, <2>1, <2>2
<1>6. ASSUME NEW s \in Choices, NEW pc \in {"begin", "probe"},
             NEW kind \in {"default", "probe"}, profiles' = profiles,
             Sent(t, [Idle EXCEPT !.pc = pc, !.kind = kind, !.settings = s])
      PROVE  SourceInv'
  <2>. DEFINE r == [Idle EXCEPT !.pc = pc, !.kind = kind, !.settings = s]
  <2>1. s \in Settings
    BY ChoicesAreSettings DEF SettingsInv, Types
  <2>2. r \in Thread /\ r.kind = kind /\ r.list = Idle.list
    BY <2>1 DEF Thread, Steps, Kinds
  <2>3. Sent(t, r)
    BY <1>6
  <2>. HIDE DEF r
  <2>. QED BY <1>2, <1>6, <2>2, <2>3
<1>7. CASE PollTick(t)
  <2>. DEFINE r == [Idle EXCEPT !.pc = "lists", !.kind = "refresh"]
  <2>1. r \in Thread /\ r.kind = "refresh" /\ r.list = Idle.list
    BY DEF Thread, Steps, Kinds
  <2>2. Sent(t, r) /\ profiles' = profiles
    BY <1>7 DEF PollTick, server
  <2>. HIDE DEF r
  <2>. QED BY <1>2, <2>1, <2>2
<1>8. CASE Reload(t)
  <2>. DEFINE onPage(u) == threads[u].pc \in {"probe", "lists", "show"}
              kept == {u \in Threads \ {t} : threads[u].pc # "idle" /\ ~onPage(u)}
              r == [Idle EXCEPT !.pc = "lists", !.kind = "refresh", !.before = profiles,
                                !.was = default, !.alone = kept = {}]
              g(u) == [threads[u] EXCEPT !.page = FALSE, !.alone = FALSE]
  <2>1. /\ threads' = [u \in Threads |-> IF u = t THEN r
                                         ELSE IF u \in kept THEN g(u) ELSE Idle]
        /\ profiles' = profiles
    BY <1>8 DEF Reload, server
  <2>2. r.kind = "refresh" /\ r.list = Idle.list
    BY DEF Thread
  <2>3. ASSUME NEW u \in Threads
        PROVE  /\ g(u).kind = threads[u].kind /\ g(u).settings = threads[u].settings
               /\ g(u).list = threads[u].list
    BY DEF Thread, SettingsInv, Types
  <2>. HIDE DEF r, g, kept
  <2>4. Traced(r)
    BY <2>2 DEF Traced
  <2>5. ASSUME NEW u \in Threads PROVE Traced(g(u))
    BY <2>3 DEF Traced, SourceInv
  <2>6. ASSUME NEW u \in Threads PROVE Traced(threads'[u])
    BY <2>1, <2>4, <2>5
  <2>. QED BY <2>1, <2>6 DEF SourceInv
<1>. QED BY <1>1, <1>3, <1>4, <1>5, <1>6, <1>7, <1>8
     DEF Clicked, ClickReverify, ClickDelete, ClickDefault, ClickProbe, Click, server

\* The steps of a request: what they write is a list they have read, with what
\* was sent in one place.
LEMMA TraceRequest ==
  ASSUME SettingsInv, SourceInv, NEW t \in Threads, Request(t)
  PROVE  SourceInv'
<1>. DEFINE h == threads[t]
<1>1. h \in Thread /\ Sound(h) /\ Traced(h) /\ KnownList(profiles) /\ profiles \in Profiles
  BY DEF SettingsInv, SourceInv, Types
<1>2. CASE Accept(t)
  <2>1. PICK id, pc : threads' = [threads EXCEPT ![t] =
                        [h EXCEPT !.id = id, !.list = profiles, !.settings = Target(h),
                                  !.pc = pc]]
    BY <1>2 DEF Accept
  <2>. DEFINE r == [h EXCEPT !.id = id, !.list = profiles, !.settings = Target(h), !.pc = pc]
  <2>2. r.kind = h.kind /\ r.settings = Target(h) /\ r.list = profiles
    BY <1>1 DEF Thread
  <2>3. h.kind = "save" => Target(h) = h.settings
    BY DEF Target
  <2>4. threads' = [threads EXCEPT ![t] = r] /\ profiles' = profiles
    BY <1>2, <2>1 DEF Accept
  <2>. HIDE DEF r
  <2>5. Traced(r)
    BY <1>1, <2>2, <2>3 DEF Traced
  <2>. QED BY <1>1, <2>4, <2>5, TraceStep
<1>3. CASE Refuse(t)
  BY <1>1, <1>3, TraceGoto DEF Refuse, server, Steps
<1>4. CASE Breaks(t)
  BY <1>1, <1>4, TraceGoto DEF Breaks, server, Steps
<1>5. CASE Write(t)
  <2>1. PICK pc \in Steps : Goto(t, pc)
    BY <1>5 DEF Write, Steps
  <2>2. CASE h.kind = "activate"
    BY <1>1, <1>5, <2>1, <2>2, TraceGoto DEF Write
  <2>3. CASE h.kind # "activate"
    <3>1. h.pc = "write" /\ profiles' = Changed(h)
      BY <1>5, <2>3 DEF Write
    <3>2. h.id \in Ids /\ h.kind \in {"save", "delete"}
      BY <1>1, <2>3, <3>1 DEF Sound
    <3>3. ASSUME NEW i \in Ids, Changed(h)[i] # None PROVE Known(i, Changed(h)[i])
      <4>1. CASE i # h.id
        BY <1>1, <2>3, <3>1, <3>3, <4>1, ChangedList DEF Traced, KnownList
      <4>2. CASE i = h.id
        <5>1. /\ h.kind = "save" /\ Changed(h)[i].settings = h.settings
              /\ Changed(h)[i].name = h.settings.label
          BY <1>1, <2>3, <3>1, <3>2, <3>3, <4>2, ChangedList
        <5>. QED BY <1>1, <5>1 DEF Traced, Known
      <4>. QED BY <4>1, <4>2
    <3>4. KnownList(profiles')
      BY <3>1, <3>3 DEF KnownList
    <3>. QED BY <2>1, <3>4, TraceGoto
  <2>. QED BY <2>2, <2>3
<1>6. CASE Reread(t)
  <2>1. CASE profiles[h.id] = None
    BY <1>1, <1>6, <2>1, TraceGoto DEF Reread, server, Steps
  <2>2. CASE profiles[h.id] # None
    <3>. DEFINE r == [h EXCEPT !.pc = "record", !.list = profiles]
    <3>1. threads' = [threads EXCEPT ![t] = r] /\ profiles' = profiles
      BY <1>6, <2>2 DEF Reread, server
    <3>2. r.kind = h.kind /\ r.settings = h.settings /\ r.list = profiles
      BY <1>1 DEF Thread
    <3>. HIDE DEF r
    <3>3. Traced(r)
      BY <1>1, <3>2 DEF Traced
    <3>. QED BY <1>1, <3>1, <3>3, TraceStep
  <2>. QED BY <2>1, <2>2
<1>7. CASE Record(t)
  <2>1. h.pc = "record" /\ profiles' = Recorded(h) /\ Goto(t, "done")
    BY <1>7 DEF Record
  <2>2. h.id \in Ids /\ h.list[h.id] # None
    BY <1>1, <2>1 DEF Sound
  <2>3. ASSUME NEW i \in Ids, Recorded(h)[i] # None
        PROVE  /\ h.list[i] # None /\ Recorded(h)[i].name = h.list[i].name
               /\ Recorded(h)[i].settings = h.list[i].settings
    <3>1. CASE i # h.id
      BY <1>1, <2>2, <2>3, <3>1, RecordedList
    <3>2. CASE i = h.id
      <4>1. Recorded(h)[i] = [name |-> h.list[h.id].name,
                              settings |-> h.list[h.id].settings, probe |-> "fresh"]
        BY <1>1, <2>2, <3>2, RecordedList
      <4>. QED BY <2>2, <3>2, <4>1
    <3>. QED BY <3>1, <3>2
  <2>4. KnownList(Recorded(h))
    BY <1>1, <2>3, KnownAlike DEF Traced
  <2>. QED BY <2>1, <2>4, TraceGoto DEF Steps
<1>. QED BY <1>2, <1>3, <1>4, <1>5, <1>6, <1>7 DEF Request

LEMMA TraceAnswer ==
  ASSUME SettingsInv, SourceInv, NEW t \in Threads, Answer(t)
  PROVE  SourceInv'
<1>1. KnownList(profiles) /\ threads[t] \in Thread /\ Traced(threads[t])
  BY DEF SourceInv, SettingsInv, Types
<1>2. CASE Fails(t) \/ Unheard(t) \/ Unhealthy(t) \/ \E failed \in Failures : Show(t, failed)
  <2>1. Ended(t) /\ profiles' = profiles
    BY <1>2 DEF Fails, Unheard, Unhealthy, Show, RefreshEnds, server
  <2>. QED BY <1>1, <2>1, TraceEnded
<1>3. CASE Succeeds(t)
  <2>1. (Ended(t) \/ Goto(t, "lists")) /\ profiles' = profiles
    BY <1>3 DEF Succeeds, server
  <2>. QED BY <1>1, <2>1, TraceEnded, TraceGoto DEF Steps
<1>4. CASE ReadLists(t)
  <2>. DEFINE r == [threads[t] EXCEPT !.pc = "show", !.list = profiles,
                      !.read = [default |-> default, policy |-> policy]]
  <2>1. threads' = [threads EXCEPT ![t] = r] /\ profiles' = profiles
    BY <1>4 DEF ReadLists, server, SettingsInv, Types
  <2>2. /\ r.kind = threads[t].kind /\ r.settings = threads[t].settings
        /\ r.list = profiles
    BY <1>1 DEF Thread
  <2>. HIDE DEF r
  <2>3. Traced(r)
    BY <1>1, <2>2 DEF Traced
  <2>. QED BY <1>1, <2>1, <2>3, TraceStep
<1>. QED BY <1>2, <1>3, <1>4 DEF Answer

LEMMA InitSource == Init => SourceInv
<1>. SUFFICES ASSUME Init PROVE SourceInv
  OBVIOUS
<1>1. \A i \in Ids : profiles[i] # None => FromStart(i, profiles[i])
  BY DEF Init, FromStart
<1>2. KnownList(profiles)
  BY <1>1 DEF KnownList, Known
<1>3. PICK t \in Threads :
        threads = [u \in Threads |->
          IF u = t THEN [Idle EXCEPT !.pc = "lists", !.kind = "refresh", !.before = profiles]
          ELSE Idle]
  BY DEF Init
<1>. DEFINE r == [Idle EXCEPT !.pc = "lists", !.kind = "refresh", !.before = profiles]
<1>4. r.kind = "refresh" /\ r.list = Idle.list
  BY DEF Idle
<1>5. \A u \in Threads : threads[u] = r \/ threads[u] = Idle
  BY <1>3
<1>. HIDE DEF r
<1>6. Traced(r)
  BY <1>4, IdleTraced DEF Traced
<1>. QED BY <1>2, <1>5, <1>6, IdleTraced DEF SourceInv

LEMMA NextSource == SettingsInv /\ SourceInv /\ [Next]_vars => SourceInv'
<1>. SUFFICES ASSUME SettingsInv, SourceInv, [Next]_vars PROVE SourceInv'
  OBVIOUS
<1>1. CASE UNCHANGED vars \/ (\E f \in Typed : Edit(f)) \/ \E i \in Ids : Load(i)
  <2>1. profiles' = profiles /\ threads' = threads
    BY <1>1 DEF vars, server, Edit, Load
  <2>. QED BY <2>1 DEF SourceInv
<1>2. ASSUME NEW t \in Threads, NEW reachable \in BOOLEAN, ProbeAnswered(t, reachable)
      PROVE  SourceInv'
  <2>1. (Ended(t) \/ Goto(t, "begin")) /\ profiles' = profiles
    BY <1>2 DEF ProbeAnswered, server
  <2>. QED BY <2>1, TraceEnded, TraceGoto DEF Steps, SourceInv
<1>3. CASE Age
  <2>1. profiles' = Aged(profiles) /\ threads' = threads
    BY <1>3 DEF Age
  <2>2. KnownList(Aged(profiles))
    BY AgedList, KnownAlike DEF SourceInv, SettingsInv, Types, Name
  <2>. QED BY <2>1, <2>2 DEF SourceInv
<1>. QED BY <1>1, <1>2, <1>3, TraceClicked, TraceRequest, TraceAnswer DEF Next

\* A profile of the row that is loaded and saved without an edit.
LEMMA LoadingKnown ==
  ASSUME SettingsInv, SourceInv, NEW i \in Ids, profiles[i] # None
  PROVE  LET p == profiles[i]
             q == Resaved(p)
         IN /\ q = p \/ FromStart(i, p)
            /\ \A part \in DOMAIN p.settings :
                 q.settings[part] # p.settings[part] => part \in Lossy(p.settings)
            /\ Resaved(q) = q
<1>. DEFINE p == profiles[i]
            q == Resaved(p)
<1>1. /\ p \in Profile /\ p.settings \in Settings
      /\ p = [name |-> p.name, settings |-> p.settings, probe |-> p.probe]
  BY ProfileFields DEF SettingsInv, Types
<1>2. Known(i, p)
  BY DEF SourceInv, KnownList
<1>. HIDE DEF p
<1>. DEFINE s == Loaded(p.settings)
<1>3. q = [name |-> s.label, settings |-> s, probe |-> p.probe]
  <2>1. q = [p EXCEPT !.name = s.label, !.settings = s]
    BY DEF Resaved, Loaded
  <2>. HIDE DEF q, s
  <2>. QED BY <1>1, <2>1
<1>4. LoadsBack(s)
  BY <1>1, LoadedParts
<1>5. ASSUME LoadsBack(p.settings), p.name = p.settings.label PROVE q = p
  BY <1>1, <1>3, <1>5, RoundTrip
<1>6. Loaded(s) = s
  BY <1>4, RoundTrip
<1>7. Resaved(q) = q
  <2>1. Resaved(q) = [q EXCEPT !.name = Loaded(q.settings).label, !.settings = Loaded(q.settings)]
    BY DEF Resaved, Loaded
  <2>. HIDE DEF q, s
  <2>2. q.settings = s /\ q.name = s.label
    BY <1>3
  <2>3. Loaded(q.settings) = s
    BY <1>6, <2>2
  <2>4. Resaved(q) = [q EXCEPT !.name = s.label, !.settings = s]
    BY <2>1, <2>3
  <2>. QED BY <1>3, <2>4
<1>. HIDE DEF q
<1>8. \A part \in DOMAIN p.settings :
         q.settings[part] # p.settings[part] => part \in Lossy(p.settings)
  BY <1>1, <1>3, LossyParts
<1>. QED BY <1>2, <1>5, <1>7, <1>8 DEF Known, p, q

\* LoadingLosesOnlyForeignParts: what this page has saved comes back from the form
\* unchanged; of a profile that was stored before, the form changes only the parts
\* it has no place for, and only once (buildCustomProviderDraftFromSettings,
\* buildCustomProviderSettings).  Nothing is assumed of the stored profiles but
\* that they are settings.
THEOREM LoadingLosesNoMore == Spec => []LoadingLosesOnlyForeignParts
<1>1. SettingsInv /\ SourceInv => LoadingLosesOnlyForeignParts
  BY LoadingKnown DEF LoadingLosesOnlyForeignParts, FromStart
<1>2. Spec => []SourceInv
  BY InitSource, NextSource, SettingsInvariant, PTL DEF Spec
<1>. QED BY <1>1, <1>2, SettingsInvariant, PTL

-----------------------------------------------------------------------------
(* The page and the server.                                                *)

stored == <<profiles, default, policy>>

\* How far the page is behind the server while a handler nobody overlaps is at
\* work, and what the handler has in hand to catch up: before the first commit
\* nothing differs, a setting just stored is in the handler, and every other
\* request ends with a refresh.
Behind(h, server_, page_) ==
  /\ h.pc \in {"probe", "begin", "write", "refused", "failed"} => page_ = server_
  /\ h.pc \in {"reread", "record"} /\ h.kind = "reverify" => page_ = server_
  /\ h.pc = "done" /\ h.kind = "default" => <<page_[1], h.settings, page_[3]>> = server_
  /\ h.pc = "done" /\ h.kind = "policy" => <<page_[1], page_[2], h.flag>> = server_

\* A refresh has read what the server has.
HasRead(h, server_) == <<h.list, h.read.default, h.read.policy>> = server_

\* The strengthening of ShownIsStored: what the handlers under way know.
PageInv ==
  /\ \A t \in Threads : threads[t].alone => threads[t].page
  /\ \A t \in Threads : threads[t].pc = "show" /\ threads[t].alone => HasRead(threads[t], stored)
  /\ Quiet /\ ~dirty => shown = stored
  /\ ~dirty => \A t \in Threads :
       threads[t].pc # "idle" => threads[t].alone /\ Behind(threads[t], stored, shown)

\* A step of one handler under way.
LEMMA OwnPage ==
  ASSUME SettingsInv, PageInv, NEW t \in Threads, threads[t].pc # "idle",
         NEW r, threads' = [threads EXCEPT ![t] = r],
         r.pc # "idle" => r.alone = threads[t].alone,
         r.alone => r.page,
         r.pc = "show" /\ r.alone => HasRead(r, stored'),
         ~dirty' /\ threads[t].alone /\ r.pc = "idle" => shown' = stored',
         ~dirty' /\ r.pc # "idle" => ~dirty /\ Behind(r, stored', shown'),
         ~dirty' => threads[t].alone
  PROVE  PageInv'
<1>1. threads \in [Threads -> Thread]
  BY DEF SettingsInv, Types
<1>2. threads'[t] = r /\ \A u \in Threads \ {t} : threads'[u] = threads[u]
  BY <1>1
<1>3. threads[t].alone => \A u \in Threads \ {t} : threads'[u].pc = "idle"
  BY <1>2 DEF SettingsInv, Solo
<1>4. ASSUME NEW u \in Threads, threads'[u].alone PROVE threads'[u].page
  BY <1>2, <1>4 DEF PageInv
<1>5. ASSUME NEW u \in Threads, threads'[u].pc = "show", threads'[u].alone
      PROVE  HasRead(threads'[u], stored')
  <2>1. u = t
    BY <1>2, <1>5 DEF SettingsInv, Solo
  <2>. QED BY <1>2, <1>5, <2>1
<1>6. ASSUME ~dirty', Quiet' PROVE shown' = stored'
  BY <1>2, <1>6 DEF Quiet
<1>7. ASSUME ~dirty', NEW u \in Threads, threads'[u].pc # "idle"
      PROVE  threads'[u].alone /\ Behind(threads'[u], stored', shown')
  <2>1. u = t
    BY <1>3, <1>7
  <2>. QED BY <1>2, <1>7, <2>1
<1>. QED BY <1>4, <1>5, <1>6, <1>7 DEF PageInv

\* A step to another place, which keeps what the handler has in hand.
LEMMA GotoPage ==
  ASSUME SettingsInv, PageInv, NEW t \in Threads, threads[t].pc # "idle",
         NEW pc \in Steps \ {"idle", "show"}, Goto(t, pc), dirty' = dirty,
         ~dirty => Behind([threads[t] EXCEPT !.pc = pc], stored', shown')
  PROVE  PageInv'
<1>. DEFINE r == [threads[t] EXCEPT !.pc = pc]
<1>1. threads[t] \in Thread
  BY DEF SettingsInv, Types
<1>2. r.pc = pc /\ r.alone = threads[t].alone /\ r.page = threads[t].page
  BY <1>1 DEF Thread
<1>3. threads' = [threads EXCEPT ![t] = r]
  BY <1>1 DEF Goto
<1>4. ~dirty => threads[t].alone
  BY DEF PageInv
<1>5. ~dirty => Behind(r, stored', shown')
  OBVIOUS
<1>. HIDE DEF r
<1>6. r.alone => r.page
  BY <1>2 DEF PageInv
<1>. QED BY <1>2, <1>3, <1>4, <1>5, <1>6, OwnPage

\* A handler that ends.
LEMMA EndedPage ==
  ASSUME SettingsInv, PageInv, NEW t \in Threads, threads[t].pc # "idle", Ended(t),
         ~dirty' => threads[t].alone /\ shown' = stored'
  PROVE  PageInv'
<1>1. Idle.pc = "idle" /\ Idle.page
  BY DEF Idle
<1>2. threads' = [threads EXCEPT ![t] = Idle]
  BY DEF Ended
<1>. HIDE DEF Idle
<1>. QED BY <1>1, <1>2, OwnPage

\* A new handler: the page is up to date only if it was and nobody else is at work.
LEMMA SentPage ==
  ASSUME SettingsInv, PageInv, NEW t \in Threads, threads[t].pc = "idle",
         NEW r \in Thread, r.page, r.pc \in {"probe", "begin", "lists"},
         Sent(t, r), UNCHANGED <<stored, shown>>
  PROVE  PageInv'
<1>. DEFINE q == [r EXCEPT !.seen = selected, !.before = profiles, !.was = default,
                           !.alone = Others(t) = {}]
            g(u) == [threads[u] EXCEPT !.alone = FALSE]
<1>1. /\ threads' = [u \in Threads |-> IF u = t THEN q ELSE g(u)]
      /\ dirty' = (dirty \/ Others(t) # {})
  BY DEF Sent
<1>2. q.pc = r.pc /\ q.alone = (Others(t) = {}) /\ q.page
  BY DEF Thread
<1>3. ASSUME NEW u \in Threads PROVE ~g(u).alone /\ g(u).pc = threads[u].pc
  BY DEF Thread, SettingsInv, Types
<1>. HIDE DEF q, g
<1>4. ASSUME NEW u \in Threads, threads'[u].alone
      PROVE  threads'[u].page /\ threads'[u].pc # "show"
  BY <1>1, <1>2, <1>3, <1>4
<1>5. ~Quiet'
  BY <1>1, <1>2 DEF Quiet
<1>6. ASSUME ~dirty', NEW u \in Threads, threads'[u].pc # "idle"
      PROVE  threads'[u].alone /\ Behind(threads'[u], stored', shown')
  <2>1. ~dirty /\ Others(t) = {}
    BY <1>1, <1>6
  <2>2. \A w \in Threads : threads[w].pc = "idle"
    BY <2>1 DEF Others
  <2>3. shown' = stored'
    BY <2>1, <2>2 DEF PageInv, Quiet
  <2>4. u = t
    BY <1>1, <1>3, <1>6, <2>2
  <2>5. threads'[u] = q
    BY <1>1, <2>4
  <2>. QED BY <1>2, <2>1, <2>3, <2>5 DEF Behind
<1>. QED BY <1>4, <1>5, <1>6 DEF PageInv

\* The clicks and the poll timer start handlers of this page.
LEMMA ClicksPage ==
  ASSUME SettingsInv, PageInv, NEW t \in Threads,
         \/ ClickSave(t) \/ ClickPolicy(t) \/ PollTick(t)
         \/ \E i \in Ids : ClickActivate(t, i) \/ ClickReverify(t, i) \/ ClickDelete(t, i)
         \/ \E s \in Choices : ClickDefault(t, s) \/ ClickProbe(t, s)
  PROVE  PageInv'
<1>. USE IdleHandler
<1>0. Idle.page
  BY DEF Idle
<1>1. ASSUME NEW r \in Thread, r.page, r.pc \in {"probe", "begin", "lists"}, Sent(t, r),
             threads[t].pc = "idle", UNCHANGED <<server, shown>>
      PROVE  PageInv'
  <2>1. UNCHANGED <<stored, shown>>
    BY <1>1 DEF server, stored
  <2>. QED BY <1>1, <2>1, SentPage
<1>2. CASE ClickSave(t)
  <2>. DEFINE r == [Idle EXCEPT !.pc = "probe", !.kind = "save", !.id = selected,
                           !.create = selected = None,
                           !.settings = buildCustomProviderSettings(form)]
  <2>1. buildCustomProviderSettings(form) \in Settings /\ selected \in Ids \cup {None}
    BY <1>2, BuiltSettings DEF ClickSave, SettingsInv, Types
  <2>2. r \in Thread /\ r.pc = "probe" /\ r.page
    BY <1>0, <2>1 DEF Thread, Steps, Kinds
  <2>3. Sent(t, r) /\ threads[t].pc = "idle" /\ UNCHANGED <<server, shown>>
    BY <1>2 DEF ClickSave, Click
  <2>. HIDE DEF r
  <2>. QED BY <1>1, <2>2, <2>3
<1>3. CASE ClickPolicy(t)
  <2>. DEFINE r == [Idle EXCEPT !.pc = "begin", !.kind = "policy", !.flag = ~shownPolicy]
  <2>1. r \in Thread /\ r.pc = "begin" /\ r.page
    BY <1>0 DEF Thread, Steps, Kinds, SettingsInv, Types
  <2>2. Sent(t, r) /\ threads[t].pc = "idle" /\ UNCHANGED <<server, shown>>
    BY <1>3 DEF ClickPolicy, Click
  <2>. HIDE DEF r
  <2>. QED BY <1>1, <2>1, <2>2
<1>4. CASE PollTick(t)
  <2>. DEFINE r == [Idle EXCEPT !.pc = "lists", !.kind = "refresh"]
  <2>1. r \in Thread /\ r.pc = "lists" /\ r.page
    BY <1>0 DEF Thread, Steps, Kinds
  <2>2. Sent(t, r) /\ threads[t].pc = "idle" /\ UNCHANGED <<server, shown>>
    BY <1>4 DEF PollTick, page
  <2>. HIDE DEF r
  <2>. QED BY <1>1, <2>1, <2>2
<1>5. ASSUME NEW i \in Ids, ClickActivate(t, i) PROVE PageInv'
  <2>. DEFINE r == [Idle EXCEPT !.pc = "probe", !.kind = "activate", !.id = i,
                           !.settings = view[i].settings]
  <2>1. view[i].settings \in Settings
    BY <1>5, CardSettings DEF ClickActivate
  <2>2. r \in Thread /\ r.pc = "probe" /\ r.page
    BY <1>0, <2>1 DEF Thread, Steps, Kinds
  <2>3. Sent(t, r) /\ threads[t].pc = "idle" /\ UNCHANGED <<server, shown>>
    BY <1>5 DEF ClickActivate, Click
  <2>. HIDE DEF r
  <2>. QED BY <1>1, <2>2, <2>3
<1>6. ASSUME NEW i \in Ids, NEW kind \in {"reverify", "delete"}, NEW key,
             Click(t, [Idle EXCEPT !.pc = "begin", !.kind = kind, !.id = i], key),
             UNCHANGED <<server, shown>>
      PROVE  PageInv'
  <2>. DEFINE r == [Idle EXCEPT !.pc = "begin", !.kind = kind, !.id = i]
  <2>1. r \in Thread /\ r.pc = "begin" /\ r.page
    BY <1>0 DEF Thread, Steps, Kinds
  <2>2. Sent(t, r) /\ threads[t].pc = "idle"
    BY <1>6 DEF Click
  <2>. HIDE DEF r
  <2>. QED BY <1>1, <1>6, <2>1, <2>2
<1>7. ASSUME NEW i \in Ids, ClickReverify(t, i) \/ ClickDelete(t, i) PROVE PageInv'
  BY <1>6, <1>7 DEF ClickReverify, ClickDelete
<1>8. ASSUME NEW s \in Choices, NEW pc \in {"begin", "probe"}, NEW kind \in {"default", "probe"},
             NEW key, Click(t, [Idle EXCEPT !.pc = pc, !.kind = kind, !.settings = s], key),
             UNCHANGED <<server, shown>>
      PROVE  PageInv'
  <2>. DEFINE r == [Idle EXCEPT !.pc = pc, !.kind = kind, !.settings = s]
  <2>0. s \in Settings
    BY ChoicesAreSettings DEF SettingsInv, Types
  <2>1. r \in Thread /\ r.pc = pc /\ r.page
    BY <1>0, <2>0 DEF Thread, Steps, Kinds
  <2>2. Sent(t, r) /\ threads[t].pc = "idle"
    BY <1>8 DEF Click
  <2>. HIDE DEF r
  <2>. QED BY <1>1, <1>8, <2>1, <2>2
<1>9. ASSUME NEW s \in Choices, ClickDefault(t, s) \/ ClickProbe(t, s) PROVE PageInv'
  BY <1>8, <1>9 DEF ClickDefault, ClickProbe
<1>. QED BY <1>2, <1>3, <1>4, <1>5, <1>7, <1>9

\* A reload: the page is empty until a complete refresh nobody overlaps.
LEMMA ReloadPage ==
  ASSUME SettingsInv, PageInv, NEW t \in Threads, Reload(t)
  PROVE  PageInv'
<1>. DEFINE onPage(u) == threads[u].pc \in {"probe", "lists", "show"}
            kept == {u \in Threads \ {t} : threads[u].pc # "idle" /\ ~onPage(u)}
            r == [Idle EXCEPT !.pc = "lists", !.kind = "refresh",
                              !.before = profiles, !.was = default,
                              !.alone = kept = {}]
            g(u) == [threads[u] EXCEPT !.page = FALSE, !.alone = FALSE]
<1>1. /\ threads' = [u \in Threads |-> IF u = t THEN r
                                       ELSE IF u \in kept THEN g(u) ELSE Idle]
      /\ dirty'
  BY DEF Reload
<1>2. r.pc = "lists" /\ r.page
  BY DEF Idle
<1>3. ASSUME NEW u \in kept PROVE ~g(u).alone
  BY DEF Thread, SettingsInv, Types
<1>4. Idle.pc = "idle" /\ Idle.page
  BY DEF Idle
<1>. HIDE DEF r, g, kept, Idle
<1>5. ASSUME NEW u \in Threads, threads'[u].alone
      PROVE  threads'[u].page /\ threads'[u].pc # "show"
  BY <1>1, <1>2, <1>3, <1>4, <1>5
<1>. QED BY <1>1, <1>5 DEF PageInv

\* What a probe that the handler waits for makes of it.
LEMMA ProbeAnsweredPage ==
  ASSUME SettingsInv, PageInv, NEW t \in Threads, NEW reachable \in BOOLEAN,
         ProbeAnswered(t, reachable)
  PROVE  PageInv'
<1>1. threads[t].pc = "probe" /\ UNCHANGED <<stored, shown, dirty>>
  BY DEF ProbeAnswered, server, stored
<1>2. ~dirty => threads[t].alone /\ shown = stored
  BY <1>1 DEF PageInv, Behind
<1>3. CASE Goto(t, "begin")
  <2>. DEFINE r == [threads[t] EXCEPT !.pc = "begin"]
  <2>1. r.pc = "begin"
    BY DEF SettingsInv, Types, Thread
  <2>. HIDE DEF r
  <2>2. ~dirty => Behind(r, stored', shown')
    BY <1>1, <1>2, <2>1 DEF Behind
  <2>. QED BY <1>1, <1>3, <2>2, GotoPage DEF Steps, r
<1>4. CASE Ended(t)
  BY <1>1, <1>2, <1>4, EndedPage
<1>. QED BY <1>3, <1>4 DEF ProbeAnswered

\* An accepted request: a setting is stored at once, and is in the handler.
LEMMA AcceptPage ==
  ASSUME SettingsInv, PageInv, NEW t \in Threads, Accept(t)
  PROVE  PageInv'
<1>. DEFINE h == threads[t]
            pc == CASE h.kind \in {"default", "policy"} -> "done"
                    [] h.kind = "reverify" -> "reread"
                    [] OTHER -> "write"
<1>1. h \in Thread /\ Sound(h) /\ h.pc = "begin"
  BY DEF SettingsInv, Types, Accept
<1>2. PICK id : threads' = [threads EXCEPT ![t] =
                  [h EXCEPT !.id = id, !.list = profiles, !.settings = Target(h), !.pc = pc]]
  BY DEF Accept
<1>. DEFINE r == [h EXCEPT !.id = id, !.list = profiles, !.settings = Target(h), !.pc = pc]
<1>3. /\ r.pc = pc /\ r.kind = h.kind /\ r.alone = h.alone /\ r.page = h.page
      /\ r.settings = Target(h) /\ r.flag = h.flag
  BY <1>1 DEF Thread
<1>4. threads' = [threads EXCEPT ![t] = r]
  BY <1>2
<1>5. /\ default' = IF h.kind = "default" THEN h.settings ELSE default
      /\ policy' = IF h.kind = "policy" THEN h.flag ELSE policy
      /\ profiles' = profiles /\ shown' = shown /\ dirty' = dirty
  BY DEF Accept, page
<1>6. h.kind \in {"default", "policy"} => pc = "done" /\ Target(h) = h.settings
  BY DEF Target
<1>7. h.kind \notin {"default", "policy"} => pc \in {"reread", "write"}
  OBVIOUS
<1>. HIDE DEF r, pc
<1>8. ~dirty => h.alone /\ shown = stored
  BY <1>1 DEF PageInv, Behind
<1>9. ASSUME ~dirty PROVE Behind(r, stored', shown')
  <2>1. view = profiles /\ shownDefault = default /\ shownPolicy = policy
    BY <1>8, <1>9 DEF shown, stored
  <2>2. CASE h.kind = "default"
    BY <1>3, <1>5, <1>6, <2>1, <2>2 DEF Behind, stored, shown
  <2>3. CASE h.kind = "policy"
    BY <1>3, <1>5, <1>6, <2>1, <2>3 DEF Behind, stored, shown
  <2>4. CASE h.kind \notin {"default", "policy"}
    BY <1>3, <1>5, <1>7, <2>1, <2>4 DEF Behind, stored, shown
  <2>. QED BY <2>2, <2>3, <2>4
<1>10. r.pc \notin {"idle", "show"}
  BY <1>3, <1>6, <1>7
<1>11. r.alone => r.page
  BY <1>3 DEF PageInv
<1>. QED BY <1>1, <1>3, <1>4, <1>5, <1>8, <1>9, <1>10, <1>11, OwnPage

\* The other steps of a request: nothing is different before its first commit,
\* and what it commits is shown by the refresh after it.  A request whose profile
\* is gone when it reads the list again was overlapped.
LEMMA RequestPage ==
  ASSUME SettingsInv, PageInv, NEW t \in Threads,
         Refuse(t) \/ Breaks(t) \/ Write(t) \/ Reread(t) \/ Record(t)
  PROVE  PageInv'
<1>. DEFINE h == threads[t]
<1>1. h \in Thread /\ Sound(h)
  BY DEF SettingsInv, Types
<1>2. \A pc \in Steps : LET r == [h EXCEPT !.pc = pc] IN r.pc = pc /\ r.kind = h.kind
  BY <1>1 DEF Thread
<1>3. CASE Refuse(t)
  <2>1. h.pc = "begin" /\ Goto(t, "refused") /\ UNCHANGED <<stored, shown, dirty>>
    BY <1>3 DEF Refuse, server, page, stored
  <2>2. ~dirty => shown' = stored'
    BY <2>1 DEF PageInv, Behind
  <2>. DEFINE r == [h EXCEPT !.pc = "refused"]
  <2>3. r.pc = "refused"
    BY <1>2 DEF Steps
  <2>. HIDE DEF r
  <2>4. ~dirty => Behind(r, stored', shown')
    BY <2>2, <2>3 DEF Behind
  <2>. QED BY <2>1, <2>4, GotoPage DEF Steps, r
<1>4. ASSUME NEW pc \in Steps, pc \in {"done", "reread"}, Goto(t, pc), h.pc # "idle",
             h.kind \notin {"default", "policy"}, dirty' = dirty,
             pc = "reread" => h.kind # "reverify"
      PROVE  PageInv'
  <2>. DEFINE r == [h EXCEPT !.pc = pc]
  <2>1. r.pc = pc /\ r.kind = h.kind
    BY <1>2
  <2>. HIDE DEF r
  <2>2. Behind(r, stored', shown')
    BY <1>4, <2>1 DEF Behind
  <2>. QED BY <1>4, <2>2, GotoPage DEF r
<1>5. CASE Write(t)
  <2>1. /\ h.pc = "write" /\ dirty' = dirty
        /\ Goto(t, IF h.kind = "delete" THEN "done" ELSE "reread")
    BY <1>5 DEF Write
  <2>2. h.kind \notin {"default", "policy", "reverify"}
    BY <1>1, <2>1 DEF Sound
  <2>3. PICK pc \in {"done", "reread"} : Goto(t, pc)
    BY <2>1
  <2>. QED BY <1>4, <2>1, <2>2, <2>3 DEF Steps
<1>6. CASE Record(t)
  <2>1. h.pc = "record" /\ dirty' = dirty /\ Goto(t, "done")
    BY <1>6 DEF Record
  <2>2. h.kind \notin {"default", "policy"}
    BY <1>1, <2>1 DEF Sound
  <2>. QED BY <1>4, <2>1, <2>2 DEF Steps
<1>7. CASE Reread(t)
  <2>1. h.pc = "reread" /\ h.kind \in {"save", "reverify", "activate"} /\ dirty' = dirty
    BY <1>1, <1>7 DEF Reread, Sound
  <2>2. CASE profiles[h.id] = None
    <3>1. Goto(t, "failed")
      BY <1>7, <2>2 DEF Reread
    <3>2. dirty
      BY <2>1, <2>2 DEF PageInv, SettingsInv, Solo, Exact, HalfDone
    <3>. QED BY <2>1, <3>1, <3>2, GotoPage DEF Steps
  <2>3. CASE profiles[h.id] # None
    <3>. DEFINE r == [h EXCEPT !.pc = "record", !.list = profiles]
    <3>1. threads' = [threads EXCEPT ![t] = r]
      BY <1>7, <2>3 DEF Reread
    <3>2. r.pc = "record" /\ r.alone = h.alone /\ r.page = h.page /\ r.kind = h.kind
      BY <1>1 DEF Thread
    <3>. HIDE DEF r
    <3>3. ~dirty => Behind(r, stored', shown')
      <4>1. UNCHANGED <<stored, shown>>
        BY <1>7 DEF Reread, server, page, stored
      <4>2. ~dirty => Behind(h, stored, shown)
        BY <2>1 DEF PageInv
      <4>. QED BY <2>1, <3>2, <4>1, <4>2 DEF Behind
    <3>4. (r.alone => r.page) /\ (~dirty => h.alone)
      BY <2>1, <3>2 DEF PageInv
    <3>. QED BY <2>1, <3>1, <3>2, <3>3, <3>4, OwnPage
  <2>. QED BY <2>2, <2>3
<1>8. CASE Breaks(t)
  <2>1. /\ h.pc \in {"begin", "write", "reread", "record"} /\ Goto(t, "failed")
        /\ dirty' = (dirty \/ (h.pc \in {"reread", "record"} /\ h.kind # "reverify"))
        /\ UNCHANGED <<stored, shown>>
    BY <1>8 DEF Breaks, server, page, stored
  <2>. DEFINE r == [h EXCEPT !.pc = "failed"]
  <2>2. /\ r.pc = "failed" /\ r.alone = h.alone /\ r.page = h.page
        /\ threads' = [threads EXCEPT ![t] = r]
    BY <1>1, <2>1 DEF Thread, Goto
  <2>. HIDE DEF r
  <2>3. ASSUME ~dirty' PROVE h.alone /\ Behind(r, stored', shown')
    <3>1. h.alone /\ Behind(h, stored, shown)
      BY <2>1, <2>3 DEF PageInv
    <3>. QED BY <2>1, <2>2, <2>3, <3>1 DEF Behind
  <2>4. r.alone => r.page
    BY <2>2 DEF PageInv
  <2>. QED BY <2>1, <2>2, <2>3, <2>4, OwnPage
<1>. QED BY <1>3, <1>5, <1>6, <1>7, <1>8

\* Answers: a stored setting is shown as it was sent, a refresh shows what it
\* read, and an answer that shows less leaves the page marked as behind.
LEMMA AnswerPage ==
  ASSUME SettingsInv, PageInv, NEW t \in Threads, Answer(t)
  PROVE  PageInv'
<1>. DEFINE h == threads[t]
<1>1. h \in Thread /\ Sound(h)
  BY DEF SettingsInv, Types
<1>2. CASE Fails(t)
  <2>1. /\ h.pc \in {"done", "refused", "failed"} /\ Ended(t) /\ UNCHANGED <<stored, shown>>
        /\ dirty' = (dirty \/ h.pc = "done" \/ ~h.alone)
    BY <1>2 DEF Fails, server, stored
  <2>2. ~dirty' => h.alone /\ shown' = stored'
    BY <2>1 DEF PageInv, Behind
  <2>. QED BY <2>1, <2>2, EndedPage
<1>3. CASE Unheard(t)
  <2>1. h.pc # "idle" /\ ~h.page /\ Ended(t) /\ dirty' = dirty
    BY <1>3 DEF Unheard
  <2>2. dirty
    BY <2>1 DEF PageInv
  <2>. QED BY <2>1, <2>2, EndedPage
<1>4. CASE Unhealthy(t)
  BY <1>4, EndedPage DEF Unhealthy, RefreshEnds
<1>5. CASE Succeeds(t)
  <2>1. h.pc = "done" /\ dirty' = dirty /\ UNCHANGED <<stored, view>>
    BY <1>5 DEF Succeeds, server, stored
  <2>2. CASE h.kind \in {"default", "policy"}
    <3>1. Ended(t)
      BY <1>5, <2>2 DEF Succeeds
    <3>2. ~dirty => h.alone /\ Behind(h, stored, shown)
      BY <2>1 DEF PageInv
    <3>3. /\ h.kind = "default" => shownDefault' = h.settings /\ shownPolicy' = shownPolicy
          /\ h.kind = "policy" => shownDefault' = shownDefault /\ shownPolicy' = h.flag
      BY <1>5 DEF Succeeds
    <3>4. ~dirty => shown' = stored'
      BY <2>1, <2>2, <3>2, <3>3 DEF Behind, shown, stored
    <3>. QED BY <2>1, <3>1, <3>2, <3>4, EndedPage
  <2>3. CASE h.kind \notin {"default", "policy"}
    <3>1. Goto(t, "lists")
      BY <1>5, <2>3 DEF Succeeds
    <3>. DEFINE r == [h EXCEPT !.pc = "lists"]
    <3>2. r.pc = "lists"
      BY <1>1 DEF Thread
    <3>. HIDE DEF r
    <3>3. Behind(r, stored', shown')
      BY <3>2 DEF Behind
    <3>. QED BY <2>1, <3>1, <3>3, GotoPage DEF Steps, r
  <2>. QED BY <2>2, <2>3
<1>6. CASE ReadLists(t)
  <2>. DEFINE r == [h EXCEPT !.pc = "show", !.list = profiles,
                             !.read = [default |-> default, policy |-> policy]]
  <2>1. /\ h.pc = "lists" /\ threads' = [threads EXCEPT ![t] = r] /\ dirty' = dirty
        /\ UNCHANGED <<stored, shown>>
    BY <1>6 DEF ReadLists, SettingsInv, Types, server, page, stored
  <2>2. /\ r.pc = "show" /\ r.alone = h.alone /\ r.page = h.page /\ r.list = profiles
        /\ r.read = [default |-> default, policy |-> policy]
    BY <1>1 DEF Thread
  <2>. HIDE DEF r
  <2>3. HasRead(r, stored') /\ Behind(r, stored', shown')
    BY <2>1, <2>2 DEF HasRead, Behind, stored
  <2>4. (r.alone => r.page) /\ (~dirty => h.alone)
    BY <2>1, <2>2 DEF PageInv
  <2>. QED BY <2>1, <2>2, <2>3, <2>4, OwnPage
<1>7. ASSUME NEW failed \in Failures, Show(t, failed) PROVE PageInv'
  <2>1. /\ h.pc = "show" /\ Ended(t) /\ UNCHANGED stored
        /\ dirty' = (failed # {} \/ ~h.alone)
    BY <1>7 DEF Show, RefreshEnds, server, stored
  <2>2. ASSUME ~dirty' PROVE h.alone /\ shown' = stored'
    <3>1. failed = {} /\ h.alone
      BY <2>1, <2>2
    <3>2. <<h.list, h.read.default, h.read.policy>> = stored
      BY <2>1, <3>1 DEF PageInv, HasRead
    <3>3. view' = h.list /\ shownDefault' = h.read.default /\ shownPolicy' = h.read.policy
      BY <1>7, <3>1 DEF Show
    <3>. QED BY <2>1, <3>1, <3>2, <3>3 DEF shown
  <2>. QED BY <2>1, <2>2, EndedPage
<1>. QED BY <1>2, <1>3, <1>4, <1>5, <1>6, <1>7 DEF Answer

\* The page starts empty, and every step keeps it as far as the handlers know.
LEMMA InitPage == Init => PageInv
<1>. SUFFICES ASSUME Init PROVE PageInv
  OBVIOUS
<1>1. PICK t \in Threads :
        threads = [u \in Threads |->
          IF u = t THEN [Idle EXCEPT !.pc = "lists", !.kind = "refresh", !.before = profiles]
          ELSE Idle]
  BY DEF Init
<1>2. \A u \in Threads : threads[u].page /\ threads[u].pc \in {"idle", "lists"}
  BY <1>1 DEF Idle
<1>. QED BY <1>2 DEF PageInv, Init

LEMMA NextPage == SettingsInv /\ PageInv /\ [Next]_vars => PageInv'
<1>. SUFFICES ASSUME SettingsInv, PageInv, [Next]_vars PROVE PageInv'
  OBVIOUS
<1>1. ASSUME UNCHANGED <<stored, shown, threads, dirty>> PROVE PageInv'
  BY <1>1 DEF PageInv, Quiet
<1>2. CASE UNCHANGED vars \/ (\E f \in Typed : Edit(f)) \/ \E i \in Ids : Load(i)
  <2>1. UNCHANGED <<server, shown, threads, dirty>>
    BY <1>2 DEF vars, page, Edit, Load
  <2>. QED BY <1>1, <2>1 DEF server, stored
<1>3. ASSUME NEW t \in Threads, Clicked(t) PROVE PageInv'
  BY <1>3, ClicksPage, ReloadPage DEF Clicked
<1>4. ASSUME NEW t \in Threads, Request(t) PROVE PageInv'
  BY <1>4, AcceptPage, RequestPage DEF Request
<1>5. ASSUME NEW t \in Threads, Answer(t) PROVE PageInv'
  BY <1>5, AnswerPage
<1>6. ASSUME NEW t \in Threads, NEW reachable \in BOOLEAN, ProbeAnswered(t, reachable)
      PROVE  PageInv'
  BY <1>6, ProbeAnsweredPage
<1>7. CASE Age
  <2>1. /\ profiles' = Aged(profiles) /\ view' = Aged(view) /\ Quiet
        /\ UNCHANGED <<default, policy, shownDefault, shownPolicy, threads, dirty>>
    BY <1>7 DEF Age
  <2>2. shown = stored => shown' = stored'
    BY <2>1 DEF shown, stored
  <2>. QED BY <2>1, <2>2 DEF PageInv, Quiet
<1>. QED BY <1>2, <1>3, <1>4, <1>5, <1>6, <1>7 DEF Next

\* ShownIsStored: whatever was clicked, probed, refreshed and reloaded in whatever
\* order, when every handler has ended and no answer was lost and no read failed
\* since the last complete refresh nobody overlapped, the settings page shows the
\* profiles, the default provider and the export policy the server has.
THEOREM PageShowsTheServer == Spec => []ShownIsStored
<1>1. PageInv => ShownIsStored
  BY DEF PageInv, ShownIsStored, shown, stored
<1>2. Spec => []PageInv
  BY InitPage, NextPage, SettingsInvariant, PTL DEF Spec
<1>. QED BY <1>1, <1>2, PTL

=============================================================================
