--------------------------- MODULE ProviderSettings ---------------------------
(***************************************************************************)
(* Custom provider profiles, the default provider and the export policy:   *)
(* the settings page of the web frontend (App.tsx: SettingsPage and its    *)
(* handlers in App) against the endpoints of routes.py and                 *)
(* provider_profiles.py.  All profiles of a tenant are one settings row,   *)
(* which every request reads and writes as a whole, saving and activating  *)
(* twice: first the change, then the probe that allowed it.                *)
(*                                                                         *)
(* A thread is one handler of the page and the request it has sent.  A     *)
(* probe found reachable only adds to what was probed, so it is one step   *)
(* with the read of the list next to it.  The reads of a refresh are       *)
(* answered when they are sent and shown later.                            *)
(***************************************************************************)
EXTENDS Integers, FiniteSets

CONSTANTS
  Ids,            \* ids of profiles (uuid4: never used twice)
  Threads,        \* handlers under way
  Texts,          \* texts of the form and of the settings
  Typed,          \* bound: contents an operator gives the form
  Catalog,        \* settings of the catalog's providers
  StoredAtStart,  \* profiles saved before the page loads
  AllowExternal,  \* ALLOW_EXTERNAL_PROCESSING
  Failures,       \* bound: reads of a refresh that fail at once
  None,           \* null
  MaxClicks       \* bound: clicks and refreshes of the poll timer

\* A text may be missing ("null") where settings allow it, never in the form.
Written == Texts \ {"null"}

FormStyles == {"openai", "azure"}
Form == [label: Written, type: Written, style: FormStyles, external: BOOLEAN,
         deployment: Written, key: Written, retries: Nat]

\* LLMProviderSettings, one of each kind of part; of the parts, the form has no
\* limit (langextract_max_document_chars).
Settings == [label: Texts, type: Written, style: FormStyles \cup {"mock", "langextract"},
             external: BOOLEAN, deployment: Texts, key: Texts, retries: Nat,
             limit: {"default", "other"}]

\* validate_langextract_constraints; a request with other settings is refused (422).
WellFormed(s) ==
  s.type = "langextract" \/ s.style = "langextract" =>
    s.type = "langextract" /\ s.style = "langextract" /\ ~s.external

\* buildCustomProviderSettings, with the default the server adds: a blank text
\* is null, numbers that are 0 (or blank) become the default.
OrNull(text) == IF text = "" THEN "null" ELSE text
DefaultRetries == 2
buildCustomProviderSettings(f) ==
  [label |-> f.label, type |-> f.type, style |-> f.style, external |-> f.external,
   deployment |-> IF f.style = "azure" THEN OrNull(f.deployment) ELSE "null",
   key |-> OrNull(f.key),
   retries |-> IF f.retries = 0 THEN DefaultRetries ELSE f.retries,
   limit |-> "default"]

\* validateCustomProviderDraft.
Valid(f) ==
  f.label # "" /\ f.type # "" /\ (f.style = "azure" => f.deployment # "")

OrBlank(text) == IF text = "null" THEN "" ELSE text

\* Mutant of buildCustomProviderDraftFromSettings: the deployment is not loaded.
DraftWithoutDeployment(s) ==
  [label |-> IF s.label = "null" THEN s.type ELSE s.label, type |-> s.type,
   style |-> IF s.style = "azure" THEN "azure" ELSE "openai",
   external |-> s.external, deployment |-> "", key |-> OrBlank(s.key),
   retries |-> s.retries]

buildCustomProviderDraftFromSettings(s) ==
  [label |-> IF s.label = "null" THEN s.type ELSE s.label, type |-> s.type,
   style |-> IF s.style = "azure" THEN "azure" ELSE "openai",
   external |-> s.external, deployment |-> OrBlank(s.deployment),
   key |-> OrBlank(s.key), retries |-> s.retries]

\* What writePersistedCustomProviderDraft keeps of the form for the next load.
Persisted(f) == [f EXCEPT !.key = ""]

\* The page names a profile by its label.  The last probe was never, within
\* custom_provider_probe_max_age_hours, or before.
Profile == [name: Texts, settings: Settings, probe: {"none", "fresh", "old"}]
Profiles == [Ids -> Profile \cup {None}]
NoProfiles == [i \in Ids |-> None]
Name(p) == p.name
Unique(list) ==
  \A i, j \in Ids :
    list[i] # None /\ list[j] # None /\ Name(list[i]) = Name(list[j]) => i = j

Kinds == {"save", "delete", "reverify", "activate", "default", "policy",
          "probe", "refresh"}

ASSUME ConstantsAssumption ==
  /\ {"", "null"} \subseteq Texts
  /\ Typed \subseteq Form /\ Catalog \subseteq Settings
  /\ StoredAtStart \subseteq Profiles /\ \A list \in StoredAtStart : Unique(list)
  /\ Failures \subseteq SUBSET {"profiles", "default", "policy"}
  /\ AllowExternal \in BOOLEAN
ASSUME NoneAssumption ==
  None \notin Profile /\ None \notin Ids /\ None \notin Settings /\ None \notin Kinds
ASSUME BoundsAssumption == MaxClicks \in Nat

\* What a handler does next; "begin" to "record" are steps of its request, which
\* is then done, refused by a check or a probe, or ended by another error.
Steps == {"idle", "probe", "begin", "write", "reread", "record", "done",
          "refused", "failed", "lists", "show"}

VARIABLES
  \* the server
  profiles,       \* the custom_provider_profiles row
  default,        \* the default_provider row
  policy,         \* require_review_cleared
  used,           \* ids given out
  \* the page
  form,           \* customProviderDraft
  selected,       \* selectedCustomProfileId
  view,           \* customProfiles
  shownDefault,   \* provider
  shownPolicy,    \* exportPolicy
  busy,           \* busyAction
  threads,
  \* history
  recent,         \* settings found reachable since probes last went stale
  dirty,          \* the page may differ from the server
  clicks          \* counts what MaxClicks bounds

server == <<profiles, default, policy, used>>
shown == <<view, shownDefault, shownPolicy>>
page == <<form, selected, busy, shown>>
vars == <<server, page, threads, recent, dirty, clicks>>

Reading == [default: Settings \cup {None}, policy: BOOLEAN]
Thread == [pc: Steps, kind: Kinds \cup {None}, id: Ids \cup {None},
           create: BOOLEAN, settings: Settings \cup {None}, flag: BOOLEAN,
           seen: Ids \cup {None},   \* selectedCustomProfileId in its closure
           list: Profiles,          \* the profiles it read last
           read: Reading,           \* the other settings its refresh read
           page: BOOLEAN,           \* the page that sent it is still there
           alone: BOOLEAN,          \* history: no other thread met it
           before: Profiles,        \* history: the row when it was sent,
           was: Settings \cup {None}] \* and the default

Idle == [pc |-> "idle", kind |-> None, id |-> None, create |-> FALSE,
         settings |-> None, flag |-> FALSE, seen |-> None, list |-> NoProfiles,
         read |-> [default |-> None, policy |-> FALSE],
         page |-> TRUE, alone |-> TRUE, before |-> NoProfiles, was |-> None]

Others(t) == {u \in Threads \ {t} : threads[u].pc # "idle"}
Quiet == \A t \in Threads : threads[t].pc = "idle"

\* A new handler; it and the handlers under way are no longer alone.
Sent(t, fields) ==
  /\ threads' = [u \in Threads |->
       IF u = t THEN [fields EXCEPT !.seen = selected, !.before = profiles,
                                    !.was = default, !.alone = Others(t) = {}]
       ELSE [threads[u] EXCEPT !.alone = FALSE]]
  /\ dirty' = (dirty \/ Others(t) # {})

Click(t, fields, key) ==
  /\ threads[t].pc = "idle"
  /\ clicks < MaxClicks /\ clicks' = clicks + 1
  /\ Sent(t, fields)
  /\ busy' = key

Goto(t, step) == threads' = [threads EXCEPT ![t].pc = step]
Ended(t) == threads' = [threads EXCEPT ![t] = Idle]

-----------------------------------------------------------------------------
(* The page.                                                               *)

Edit(f) ==
  /\ form' = f
  /\ UNCHANGED <<server, selected, busy, shown, threads, recent, dirty, clicks>>

\* A card of the list, with the buttons load, reverify, activate and delete.
HasCard(i) == view[i] # None

\* handleLoadCustomProfile
Load(i) ==
  /\ HasCard(i)
  /\ form' = buildCustomProviderDraftFromSettings(view[i].settings)
  /\ selected' = i
  /\ UNCHANGED <<server, busy, shown, threads, recent, dirty, clicks>>

\* The key a handler's busyAction has, and the one of a probe.
Key(kind, id) == <<kind, id>>

\* handleSaveCustomProfile: a probe, then an update of the selected profile or
\* a new one; what is sent was fixed by the click.
ClickSave(t) ==
  /\ Valid(form)
  /\ busy # Key("save", None)
  /\ Click(t, [Idle EXCEPT !.pc = "probe", !.kind = "save", !.id = selected,
                           !.create = selected = None,
                           !.settings = buildCustomProviderSettings(form)],
           Key("probe", selected))
  /\ UNCHANGED <<server, form, selected, shown, recent>>

\* handleActivateCustomProfile: refused on the page when the card's probe is
\* stale, else a probe of the settings on the card first.
ClickActivate(t, i) ==
  /\ HasCard(i)
  /\ view[i].probe = "fresh"
  /\ busy # Key("activate", i)
  /\ Click(t, [Idle EXCEPT !.pc = "probe", !.kind = "activate", !.id = i,
                           !.settings = view[i].settings],
           Key("probe", i))
  /\ UNCHANGED <<server, form, selected, shown, recent>>

\* handleReverifyCustomProfile
ClickReverify(t, i) ==
  /\ HasCard(i)
  /\ busy # Key("reverify", i)
  /\ Click(t, [Idle EXCEPT !.pc = "begin", !.kind = "reverify", !.id = i],
           Key("reverify", i))
  /\ UNCHANGED <<server, form, selected, shown, recent>>

\* handleDeleteCustomProfile
ClickDelete(t, i) ==
  /\ HasCard(i)
  /\ busy # Key("delete", i)
  /\ Click(t, [Idle EXCEPT !.pc = "begin", !.kind = "delete", !.id = i],
           Key("delete", i))
  /\ UNCHANGED <<server, form, selected, shown, recent>>

\* The providers the page can make the default: the catalog's, or the form's.
Choices == Catalog \cup
           (IF Valid(form) THEN {buildCustomProviderSettings(form)} ELSE {})

\* handleSetProvider, handleSetCustomProvider: no probe.
ClickDefault(t, s) ==
  /\ s \in Choices
  /\ busy # Key("default", None)
  /\ Click(t, [Idle EXCEPT !.pc = "begin", !.kind = "default", !.settings = s],
           Key("default", None))
  /\ UNCHANGED <<server, form, selected, shown, recent>>

\* handleSetExportPolicy; the checkbox is never disabled.
ClickPolicy(t) ==
  /\ Click(t, [Idle EXCEPT !.pc = "begin", !.kind = "policy",
                           !.flag = ~shownPolicy],
           Key("policy", None))
  /\ UNCHANGED <<server, form, selected, shown, recent>>

\* handleProbeProvider, handleProbeCustomProvider
ClickProbe(t, s) ==
  /\ s \in Choices
  /\ busy # Key("probe", None)
  /\ Click(t, [Idle EXCEPT !.pc = "probe", !.kind = "probe", !.settings = s],
           Key("probe", None))
  /\ UNCHANGED <<server, form, selected, shown, recent>>

\* enforce_provider_policy
Allowed(s) == s.external => AllowExternal

\* runProviderProbe and ensureProviderProbeReachable: the handler goes on when
\* the provider answers, and ends otherwise; busyAction is cleared in between.
ProbeAnswered(t, reachable) ==
  LET h == threads[t]
  IN /\ h.pc = "probe"
     /\ reachable => Allowed(h.settings) /\ WellFormed(h.settings)
     /\ IF reachable /\ h.kind # "probe"
        THEN Goto(t, "begin") /\ busy' = Key(h.kind, IF h.kind = "save" THEN None ELSE h.id)
        ELSE Ended(t) /\ busy' = None
     /\ recent' = IF reachable THEN recent \cup {h.settings} ELSE recent
     /\ UNCHANGED <<server, form, selected, shown, dirty, clicks>>

-----------------------------------------------------------------------------
(* The server.                                                             *)

\* Of settings in a request: they are parsed, then the policy.
Accepts(s) == WellFormed(s) /\ Allowed(s)

\* The name is no other profile's.
NameIsFree(name, id, list) ==
  \A i \in Ids \ {id} : list[i] # None => Name(list[i]) # name

\* Mutant of Accepted: an update does not look at the names.
AcceptedAnyName(h, s) ==
  CASE h.kind = "save" -> Accepts(s) /\ (~h.create => profiles[h.id] # None)
    [] h.kind \in {"reverify", "delete"} -> profiles[h.id] # None
    [] h.kind = "activate" ->
         profiles[h.id] # None /\ Allowed(s) /\ profiles[h.id].probe = "fresh"
    [] OTHER -> h.kind = "default" => Accepts(s)

\* The checks of the endpoints (400, 404, 409, 422) of settings s.
Accepted(h, s) ==
  CASE h.kind = "save" ->
         /\ Accepts(s)
         /\ ~h.create => profiles[h.id] # None
         /\ NameIsFree(s.label, h.id, profiles)
    [] h.kind \in {"reverify", "delete"} -> profiles[h.id] # None
    [] h.kind = "activate" ->
         profiles[h.id] # None /\ Allowed(s) /\ profiles[h.id].probe = "fresh"
    [] OTHER -> h.kind = "default" => Accepts(s)

\* The settings the request probes: those sent, or those stored.
Target(h) ==
  IF h.kind \in {"reverify", "activate"} /\ profiles[h.id] # None
  THEN profiles[h.id].settings ELSE h.settings

\* require_reachable_provider, then the checks against the list as it is read.
Accept(t) ==
  LET h == threads[t]
  IN /\ h.pc = "begin"
     /\ Accepted(h, Target(h))
     /\ \E id \in IF h.create THEN Ids \ used ELSE {h.id} :
          /\ threads' = [threads EXCEPT ![t] =
               [h EXCEPT !.id = id, !.list = profiles, !.settings = Target(h),
                         !.pc = CASE h.kind \in {"default", "policy"} -> "done"
                                  [] h.kind = "reverify" -> "reread"
                                  [] OTHER -> "write"]]
          /\ used' = IF h.create THEN used \cup {id} ELSE used
     /\ recent' = IF h.kind \in {"save", "reverify", "activate"}
                  THEN recent \cup {Target(h)} ELSE recent
     /\ default' = IF h.kind = "default" THEN h.settings ELSE default
     /\ policy' = IF h.kind = "policy" THEN h.flag ELSE policy
     /\ UNCHANGED <<profiles, page, dirty, clicks>>

\* A check fails, or the provider does not answer the probe.
Refuse(t) ==
  /\ threads[t].pc = "begin"
  /\ \/ threads[t].kind \in {"save", "reverify", "activate"}
     \/ ~Accepted(threads[t], Target(threads[t]))
  /\ Goto(t, "refused")
  /\ UNCHANGED <<server, page, recent, dirty, clicks>>

\* The request ends with an error between its steps.  What it has committed
\* stays: the list, or the default, without the probe.
Breaks(t) ==
  LET h == threads[t]
  IN /\ h.pc \in {"begin", "write", "reread", "record"}
     /\ Goto(t, "failed")
     /\ dirty' = (dirty \/ (h.pc \in {"reread", "record"} /\ h.kind # "reverify"))
     /\ UNCHANGED <<server, page, recent, clicks>>

\* Mutant of Changed: an update takes the new name but keeps the old settings.
ChangedNameOnly(h) ==
  IF h.kind = "delete" THEN [h.list EXCEPT ![h.id] = None]
  ELSE [h.list EXCEPT ![h.id] =
          IF h.create
          THEN [name |-> h.settings.label, settings |-> h.settings, probe |-> "none"]
          ELSE [h.list[h.id] EXCEPT !.name = h.settings.label]]

\* create_, update_ and delete_custom_provider_profile: the whole list, as it
\* was read; an update keeps the last probe.
Changed(h) ==
  IF h.kind = "delete" THEN [h.list EXCEPT ![h.id] = None]
  ELSE [h.list EXCEPT ![h.id] =
          [name |-> h.settings.label, settings |-> h.settings,
           probe |-> IF h.create THEN "none" ELSE h.list[h.id].probe]]

\* The first commit: of the list, or of the default when activating.
Write(t) ==
  LET h == threads[t]
  IN /\ h.pc = "write"
     /\ IF h.kind = "activate"
        THEN default' = h.settings /\ UNCHANGED profiles
        ELSE profiles' = Changed(h) /\ UNCHANGED default
     /\ Goto(t, IF h.kind = "delete" THEN "done" ELSE "reread")
     /\ UNCHANGED <<policy, used, page, recent, dirty, clicks>>

\* Mutant of Reread: an update records the probe in the list it read first.
RereadOnlyWhenNew(t) ==
  LET h == threads[t]
  IN /\ h.pc = "reread"
     /\ IF profiles[h.id] = None THEN Goto(t, "failed")
        ELSE threads' = [threads EXCEPT ![t] =
               [h EXCEPT !.pc = "record", !.list = IF h.create THEN profiles ELSE @]]
     /\ UNCHANGED <<server, page, recent, dirty, clicks>>

\* record_custom_provider_profile_probe reads the list anew (404).
Reread(t) ==
  LET h == threads[t]
  IN /\ h.pc = "reread"
     /\ IF profiles[h.id] = None THEN Goto(t, "failed")
        ELSE threads' = [threads EXCEPT ![t] =
                           [h EXCEPT !.pc = "record", !.list = profiles]]
     /\ UNCHANGED <<server, page, recent, dirty, clicks>>

\* The list with a fresh probe of the profile.
Recorded(h) == [h.list EXCEPT ![h.id].probe = "fresh"]

\* The second commit.
Record(t) ==
  /\ threads[t].pc = "record"
  /\ profiles' = Recorded(threads[t])
  /\ Goto(t, "done")
  /\ UNCHANGED <<default, policy, used, page, recent, dirty, clicks>>

-----------------------------------------------------------------------------
(* Answers and refreshes.                                                  *)

\* An error answer, or one that is lost: only busyAction is cleared.
Fails(t) ==
  /\ threads[t].page
  /\ threads[t].pc \in {"done", "refused", "failed"}
  /\ Ended(t)
  /\ busy' = None
  /\ dirty' = (dirty \/ threads[t].pc = "done" \/ ~threads[t].alone)
  /\ UNCHANGED <<server, form, selected, shown, recent, clicks>>

\* Mutant of Succeeds: a deletion does not refresh the page.
SucceedsWithoutRefresh(t) ==
  LET h == threads[t]
  IN /\ h.page /\ h.pc = "done"
     /\ IF h.kind \in {"default", "policy", "delete"}
        THEN Ended(t) /\ busy' = None
        ELSE Goto(t, "lists") /\ UNCHANGED busy
     /\ selected' = IF h.create THEN h.id
                    ELSE IF h.kind = "delete" /\ h.seen = h.id THEN None
                    ELSE selected
     /\ shownDefault' = IF h.kind \in {"default", "activate"} THEN h.settings
                        ELSE shownDefault
     /\ shownPolicy' = IF h.kind = "policy" THEN h.flag ELSE shownPolicy
     /\ UNCHANGED <<server, form, view, recent, dirty, clicks>>

\* The handler's code after its request; all but two go on to refreshCoreData.
Succeeds(t) ==
  LET h == threads[t]
  IN /\ h.page /\ h.pc = "done"
     /\ IF h.kind \in {"default", "policy"}
        THEN Ended(t) /\ busy' = None
        ELSE Goto(t, "lists") /\ UNCHANGED busy
     /\ selected' = IF h.create THEN h.id
                    ELSE IF h.kind = "delete" /\ h.seen = h.id THEN None
                    ELSE selected
     /\ shownDefault' = IF h.kind \in {"default", "activate"} THEN h.settings
                        ELSE shownDefault
     /\ shownPolicy' = IF h.kind = "policy" THEN h.flag ELSE shownPolicy
     /\ UNCHANGED <<server, form, view, recent, dirty, clicks>>

\* A handler of a page that is gone: its request ends unheard.
Unheard(t) ==
  /\ ~threads[t].page
  /\ threads[t].pc \in {"done", "refused", "failed"}
  /\ Ended(t)
  /\ UNCHANGED <<server, page, recent, dirty, clicks>>

\* A refresh ends; those of handlers clear busyAction.
RefreshEnds(t) ==
  /\ Ended(t)
  /\ busy' = IF threads[t].kind = "refresh" THEN busy ELSE None

\* refreshCoreData: nothing is read when /health fails, ...
Unhealthy(t) ==
  /\ threads[t].pc = "lists"
  /\ RefreshEnds(t)
  /\ dirty' = TRUE
  /\ UNCHANGED <<server, form, selected, shown, recent, clicks>>

\* ... else all is read, ...
ReadLists(t) ==
  /\ threads[t].pc = "lists"
  /\ threads' = [threads EXCEPT ![t] =
       [@ EXCEPT !.pc = "show", !.list = profiles,
                 !.read = [default |-> default, policy |-> policy]]]
  /\ UNCHANGED <<server, page, recent, dirty, clicks>>

\* ... and shown; a read that failed shows nothing, or the old policy.
Show(t, failed) ==
  LET h == threads[t]
  IN /\ h.pc = "show"
     /\ view' = IF "profiles" \in failed THEN NoProfiles ELSE h.list
     /\ shownDefault' = IF "default" \in failed THEN None ELSE h.read.default
     /\ shownPolicy' = IF "policy" \in failed THEN shownPolicy ELSE h.read.policy
     /\ RefreshEnds(t)
     /\ dirty' = (failed # {} \/ ~h.alone)
     /\ UNCHANGED <<server, form, selected, recent, clicks>>

\* The refresh of the poll timer.
PollTick(t) ==
  /\ threads[t].pc = "idle"
  /\ clicks < MaxClicks /\ clicks' = clicks + 1
  /\ Sent(t, [Idle EXCEPT !.pc = "lists", !.kind = "refresh"])
  /\ UNCHANGED <<server, page, recent>>

\* The operator reloads the page: requests the server has got go on without it.
\* The form comes back from localStorage, without the name of the key.
Reload(t) ==
  LET onPage(u) == threads[u].pc \in {"probe", "lists", "show"}
      kept == {u \in Threads \ {t} : threads[u].pc # "idle" /\ ~onPage(u)}
  IN /\ clicks < MaxClicks /\ clicks' = clicks + 1
     /\ threads[t].pc = "idle" \/ onPage(t)
     /\ threads' = [u \in Threads |->
          IF u = t THEN [Idle EXCEPT !.pc = "lists", !.kind = "refresh",
                                     !.before = profiles, !.was = default,
                                     !.alone = kept = {}]
          ELSE IF u \in kept THEN [threads[u] EXCEPT !.page = FALSE, !.alone = FALSE]
          ELSE Idle]
     /\ form' = Persisted(form)
     /\ selected' = None /\ busy' = None
     /\ view' = NoProfiles /\ shownDefault' = None /\ shownPolicy' = FALSE
     /\ dirty' = TRUE
     /\ UNCHANGED <<server, recent>>

Aged(list) ==
  [i \in Ids |-> IF list[i] # None /\ list[i].probe = "fresh"
                 THEN [list[i] EXCEPT !.probe = "old"] ELSE list[i]]

\* The probes pass the maximum age while no request is under way.
Age ==
  /\ Quiet
  /\ recent' = {}
  /\ profiles' = Aged(profiles) /\ view' = Aged(view)
  /\ UNCHANGED <<default, policy, used, form, selected, busy, shownDefault,
                 shownPolicy, threads, dirty, clicks>>

-----------------------------------------------------------------------------
Init ==
  /\ profiles \in StoredAtStart
  /\ used = {i \in Ids : profiles[i] # None}
  /\ recent = {profiles[i].settings : i \in used}
  /\ default = None /\ policy = FALSE
  /\ form \in Typed
  /\ selected = None /\ busy = None
  /\ view = NoProfiles /\ shownDefault = None /\ shownPolicy = FALSE
  /\ \E t \in Threads :
       threads = [u \in Threads |->
         IF u = t THEN [Idle EXCEPT !.pc = "lists", !.kind = "refresh",
                                    !.before = profiles]
         ELSE Idle]
  /\ dirty = TRUE /\ clicks = 0

Request(t) ==
  Accept(t) \/ Refuse(t) \/ Breaks(t) \/ Write(t) \/ Reread(t) \/ Record(t)
Answer(t) ==
  \/ Fails(t) \/ Succeeds(t) \/ Unheard(t) \/ Unhealthy(t) \/ ReadLists(t)
  \/ \E failed \in Failures : Show(t, failed)
Clicked(t) ==
  \/ ClickSave(t) \/ ClickPolicy(t) \/ PollTick(t) \/ Reload(t)
  \/ \E i \in Ids : ClickActivate(t, i) \/ ClickReverify(t, i) \/ ClickDelete(t, i)
  \/ \E s \in Choices : ClickDefault(t, s) \/ ClickProbe(t, s)

Next ==
  \/ \E f \in Typed : Edit(f)
  \/ \E i \in Ids : Load(i)
  \/ \E t \in Threads : Clicked(t) \/ Request(t) \/ Answer(t)
  \/ \E t \in Threads, reachable \in BOOLEAN : ProbeAnswered(t, reachable)
  \/ Age

Spec == Init /\ [][Next]_vars

-----------------------------------------------------------------------------
(* Properties.                                                             *)

\* No two profiles have the same name, whatever requests overlap: each checks
\* the list it read and replaces the whole row by it, so the row is always a
\* list one request has checked (the other's change is lost instead).
NamesUnique == Unique(profiles)

\* Profile i of a list counts as verified.
Fresh(list, i) == list[i] # None /\ list[i].probe = "fresh"

\* A profile counts as freshly verified with settings nobody has probed only
\* when a request that overlapped another records its probe: the list it reads
\* for that may hold settings a third write has put back.  Activating relies on
\* the mark, and probes once more.
UnprobedFreshOnlyByRace ==
  [][\A i \in Ids :
       Fresh(profiles', i) /\ profiles'[i].settings \notin recent' =>
         \/ Fresh(profiles, i) /\ profiles[i].settings = profiles'[i].settings
            /\ profiles[i].settings \notin recent
         \/ \E t \in Threads : threads[t].pc \in {"write", "record"} /\ ~threads[t].alone]_vars

\* The settings of a list of profiles.
SettingsOf(list) == [i \in Ids |-> IF list[i] = None THEN None ELSE list[i].settings]

\* The row after the first commit of a save that found the list old.
Saved(h, old) ==
  [old EXCEPT ![h.id] = [name |-> h.settings.label, settings |-> h.settings,
                         probe |-> IF h.create THEN "none" ELSE old[h.id].probe]]

\* A request no other overlaps, when it is over, has done what was asked and no
\* more: the profile it names has the settings sent and a fresh probe, or is
\* gone, or is the default.  A refused one has changed nothing.  One that broke
\* has changed nothing either, or all but the recording of the probe: the
\* profile is stored, or the default set, although the client got an error.
AloneRequestIsExact ==
  \A t \in Threads :
    LET h == threads[t]
        old == h.before
    IN h.alone /\ h.kind \in {"save", "delete", "reverify", "activate"} =>
         /\ h.pc = "refused" => profiles = old /\ default = h.was
         /\ h.pc = "failed" =>
              \/ profiles = old /\ default = h.was
              \/ h.kind = "save" /\ profiles = Saved(h, old) /\ default = h.was
              \/ h.kind = "activate" /\ profiles = old /\ default = old[h.id].settings
         /\ h.pc = "done" =>
              /\ SettingsOf(profiles) =
                   CASE h.kind = "save" -> [SettingsOf(old) EXCEPT ![h.id] = h.settings]
                     [] h.kind = "delete" -> [SettingsOf(old) EXCEPT ![h.id] = None]
                     [] OTHER -> SettingsOf(old)
              /\ h.kind # "delete" => Fresh(profiles, h.id)
              /\ default = IF h.kind = "activate" THEN old[h.id].settings ELSE h.was

\* A profile after it was loaded into the form and saved without an edit.
Resaved(p) ==
  LET s == buildCustomProviderSettings(buildCustomProviderDraftFromSettings(p.settings))
  IN [p EXCEPT !.name = s.label, !.settings = s]

\* The parts of settings the form cannot keep.
Lossy(s) ==
  {part \in DOMAIN s :
     CASE part = "label" -> s.label = "null"
       [] part = "style" -> s.style \notin FormStyles
       [] part = "deployment" -> s.style # "azure" \/ s.deployment = ""
       [] part = "key" -> s.key = ""
       [] part = "retries" -> s.retries = 0
       [] part = "limit" -> s.limit # "default"
       [] OTHER -> FALSE}

\* What the page has stored is the same when it is loaded into the form and
\* saved again, although the form keeps texts and the settings numbers and
\* nulls.  Profiles stored through the API may lose the parts above, for which
\* the form has no place or another value, but no other; and only once.
LoadingLosesOnlyForeignParts ==
  \A i \in Ids : profiles[i] # None =>
    LET p == profiles[i]
        q == Resaved(p)
    IN /\ \/ q = p
          \/ \E list \in StoredAtStart :
               /\ list[i] # None
               /\ p.name = list[i].name /\ p.settings = list[i].settings
       /\ \A part \in DOMAIN p.settings :
            q.settings[part] # p.settings[part] => part \in Lossy(p.settings)
       /\ Resaved(q) = q

\* When every handler has ended and none overlapped another, failed half-way or
\* lost an answer since the last complete refresh, the page shows what the
\* server has: the profiles, the default provider and the export policy.
ShownIsStored ==
  Quiet /\ ~dirty =>
    view = profiles /\ shownDefault = default /\ shownPolicy = policy

=============================================================================
