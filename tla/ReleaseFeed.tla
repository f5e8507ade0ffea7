------------------------------ MODULE ReleaseFeed ------------------------------
(***************************************************************************)
(* The release feed and the version picker (editor/updater/updater.cpp:    *)
(* OrchestratorUpdaterButton and OrchestratorUpdaterVersionPicker, without *)
(* the installation, which UpdaterInstall models).                         *)
(*                                                                         *)
(* Every hour the button asks two services: GitHub for the releases, the   *)
(* project's site for the manifests that say what to trust.  The answers   *)
(* come in any order, from different moments, or not at all.  After each   *)
(* answer the two lists are matched and the picker is given the releases   *)
(* to offer.  The user selects one of the rows and has it downloaded while *)
(* further answers come in.                                                *)
(***************************************************************************)
EXTENDS Integers, FiniteSets

CONSTANTS
    Running,      \* the number of the release that is running
    Listings,     \* entries that GitHub may list: [tag, build, mark]
    Manifests,    \* entries that the site may list: [tag, build, compatible]
    Outset,       \* per feed: the entries that are listed at first
    MaxChanges,   \* changes of the lists and of the setting
    MaxFailures   \* requests and downloads that fail

\* Tags are numbers, in the order of OrchestratorVersion::is_after.  A build
\* stands for an asset's size and digest.
Tags == {e.tag : e \in Listings}
Builds == {e.build : e \in Listings \cup Manifests}

\* Draft; marked as a pre-release or with a build that is not stable; neither.
Marks == {"draft", "preview", "stable"}

ASSUME RunningAssumption == Running \in Nat
ASSUME ListingsAssumption == \A e \in Listings : e.tag \in Nat /\ e.mark \in Marks /\ DOMAIN e = {"tag", "build", "mark"}
ASSUME ManifestsAssumption ==
    \A e \in Manifests : e.tag \in Tags /\ e.compatible \in BOOLEAN /\ DOMAIN e = {"tag", "build", "compatible"}

Feeds == {"releases", "manifests"}
Entries(f) == IF f = "releases" THEN Listings ELSE Manifests

ASSUME OutsetAssumption ==
    Outset \in [Feeds -> SUBSET (Listings \cup Manifests)] /\ \A f \in Feeds : Outset[f] \subseteq Entries(f)
ASSUME LimitsAssumption == MaxChanges \in Nat /\ MaxFailures \in Nat

None == [tag |-> 0, build |-> 0]

VARIABLES
    online,    \* per feed: the entries that are listed now
    history,   \* per feed: the entries that have ever been listed
    request,   \* per feed: "idle", "sent" or "answered"
    body,      \* per feed: the list in the answer
    releases,  \* _releases of the button
    manifests, \* _manifests of the button
    offers,    \* _releases of the picker: the manifest's tag and build
    visible,   \* the button is shown
    notify,    \* the setting notify_about_preview_releases
    unseen,    \* the setting has changed, settings_changed is still to come
    picker,    \* [shown, stable_only, rows, selected, enabled] of the dialog
    expected,  \* _expected_tag, _expected_sha256 and _expected_asset_size
    download,  \* [state, tag, content]: "idle", "connecting" or "body"
    installed, \* the tag recorded and the asset that was handed to _install
    changes, failures

feed == <<online, history>>
answers == <<request, body>>
lists == <<releases, manifests, offers, visible>>
setting == <<notify, unseen>>
loading == <<expected, download, installed>>
vars == <<feed, answers, lists, setting, picker, loading, changes, failures>>

Idle == [state |-> "idle", tag |-> 0, content |-> None]

Init ==
    /\ online = Outset /\ history = online
    /\ request = [f \in Feeds |-> "sent"] /\ body = [f \in Feeds |-> {}]
    /\ releases = {} /\ manifests = {} /\ offers = {} /\ visible = FALSE
    /\ notify \in BOOLEAN /\ unseen = FALSE
    /\ picker = [shown |-> FALSE, stable_only |-> FALSE, rows |-> {}, selected |-> None, enabled |-> FALSE]
    /\ expected = None /\ download = Idle /\ installed = [tag |-> 0, content |-> None]
    /\ changes = 0 /\ failures = 0

-----------------------------------------------------------------------------
(* The services.                                                           *)

\* An entry is listed, in place of an older one with its tag, or withdrawn.
Publish(f) ==
    /\ changes < MaxChanges /\ changes' = changes + 1
    /\ \E e \in Entries(f) :
        LET others == {o \in online[f] : o.tag # e.tag}
        IN  /\ online' \in {[online EXCEPT ![f] = others \cup {e}], [online EXCEPT ![f] = others]}
            /\ online' # online
    /\ history' = [history EXCEPT ![f] = @ \cup online'[f]]
    /\ UNCHANGED <<answers, lists, setting, picker, loading, failures>>

\* The service answers with its list of this moment.
Serve(f) ==
    /\ request[f] = "sent"
    /\ request' = [request EXCEPT ![f] = "answered"]
    /\ body' = [body EXCEPT ![f] = online[f]]
    /\ UNCHANGED <<feed, lists, setting, picker, loading, changes, failures>>

-----------------------------------------------------------------------------
(* OrchestratorUpdaterButton                                               *)

\* The hourly timer.  A request times out after half a minute.
MutantCheckForUpdates ==
    /\ \A f \in Feeds : request[f] = "idle"
    /\ request' = [request EXCEPT !["releases"] = "sent"]
    /\ UNCHANGED <<feed, body, lists, setting, picker, loading, changes, failures>>
CheckForUpdates ==
    /\ \A f \in Feeds : request[f] = "idle"
    /\ request' = [f \in Feeds |-> "sent"]
    /\ UNCHANGED <<feed, body, lists, setting, picker, loading, changes, failures>>

\* A request times out or is answered with an error.
RequestFails(f) ==
    /\ request[f] # "idle" /\ failures < MaxFailures
    /\ request' = [request EXCEPT ![f] = "idle"]
    /\ body' = [body EXCEPT ![f] = {}]
    /\ failures' = failures + 1
    /\ UNCHANGED <<feed, lists, setting, picker, loading, changes>>

\* The releases to offer: wanted, and with a manifest that fits this editor
\* and says of the asset what GitHub says.
Matched(found, known, previews) ==
    {[tag |-> m.tag, build |-> m.build] : m \in
        {k \in known : \E r \in found :
            /\ r.mark # "draft" /\ (r.mark = "preview" => previews)
            /\ k.tag = r.tag /\ k.compatible /\ k.build = r.build}}

\* The tags whose build is rc or dev.
Unstable == {e.tag : e \in {l \in Listings : l.mark = "preview"}}

\* The tree is filled anew: nothing is selected.
Refilled(p, offered, stable) ==
    [p EXCEPT !.rows = {r \in offered : stable => r.tag \notin Unstable}, !.selected = None]

\* Without releases or without manifests the picker is left as it was.
MutantUpdatePicker(found, known) ==
    LET offered == Matched(found, known, notify)
    IN  /\ offers' = offered /\ visible' = (offered # {})
        /\ picker' = [picker EXCEPT !.enabled = FALSE]
UpdatePicker(found, known) ==
    IF found = {} \/ known = {} THEN UNCHANGED <<offers, visible, picker>>
    ELSE LET offered == Matched(found, known, notify)
             p == [picker EXCEPT !.enabled = FALSE]
         IN  /\ offers' = offered
             /\ visible' = (offered # {})
             /\ picker' = IF p.shown THEN Refilled(p, offered, p.stable_only) ELSE p

\* An answer replaces the list it is for; older releases are left out.
Process(f) ==
    /\ releases' = IF f = "releases" THEN {e \in body[f] : e.tag > Running} ELSE releases
    /\ manifests' = IF f = "manifests" THEN body[f] ELSE manifests
    /\ UpdatePicker(releases', manifests')

Answer(f) ==
    /\ request[f] = "answered"
    /\ request' = [request EXCEPT ![f] = "idle"]
    /\ body' = [body EXCEPT ![f] = {}]
    /\ Process(f)
    /\ UNCHANGED <<feed, setting, loading, changes, failures>>

\* An answer that is not a list empties the list it is for.
Garbled(f) ==
    /\ request[f] = "answered" /\ failures < MaxFailures
    /\ request' = [request EXCEPT ![f] = "idle"]
    /\ body' = [body EXCEPT ![f] = {}]
    /\ releases' = IF f = "releases" THEN {} ELSE releases
    /\ manifests' = IF f = "manifests" THEN {} ELSE manifests
    /\ failures' = failures + 1
    /\ UNCHANGED <<feed, offers, visible, setting, picker, loading, changes>>

\* The user changes the setting, in the picker or in the project settings.
ChangeNotify ==
    /\ changes < MaxChanges /\ changes' = changes + 1
    /\ notify' = ~notify /\ unseen' = TRUE
    /\ UNCHANGED <<feed, answers, lists, picker, loading, failures>>

\* settings_changed comes with the next frame.
SettingsChanged ==
    /\ unseen /\ unseen' = FALSE
    /\ UpdatePicker(releases, manifests)
    /\ UNCHANGED <<feed, answers, releases, manifests, notify, loading, changes, failures>>

-----------------------------------------------------------------------------
(* OrchestratorUpdaterVersionPicker                                        *)

\* The dialog comes up with all releases, whatever the filter shows.
Open ==
    /\ visible /\ ~picker.shown
    /\ picker' = Refilled([picker EXCEPT !.shown = TRUE, !.enabled = FALSE], offers, FALSE)
    /\ UNCHANGED <<feed, answers, lists, setting, loading, changes, failures>>

\* The rows are filtered; the buttons stay as they were.
ChangeFilter ==
    /\ picker.shown
    /\ picker' = LET stable == ~picker.stable_only
                 IN  [Refilled(picker, offers, stable) EXCEPT !.stable_only = stable]
    /\ UNCHANGED <<feed, answers, lists, setting, loading, changes, failures>>

Select ==
    /\ picker.shown
    /\ \E r \in picker.rows : picker' = [picker EXCEPT !.selected = r, !.enabled = TRUE]
    /\ UNCHANGED <<feed, answers, lists, setting, loading, changes, failures>>

\* The selected release is asked for, by its tag.  While a download is running
\* another one is refused, but what is expected has changed.
RequestDownload ==
    /\ picker.shown /\ picker.selected # None
    /\ expected' = picker.selected
    /\ picker' = [picker EXCEPT !.selected = None, !.enabled = FALSE]
    /\ download' = IF download.state = "idle" THEN [Idle EXCEPT !.state = "connecting", !.tag = expected'.tag]
                   ELSE download
    /\ UNCHANGED <<feed, answers, lists, setting, installed, changes, failures>>

\* The asset that the tag has now begins to arrive.
ReceiveBody ==
    /\ download.state = "connecting"
    /\ \E e \in online["releases"] :
        /\ e.tag = download.tag
        /\ download' = [download EXCEPT !.state = "body", !.content = [tag |-> e.tag, build |-> e.build]]
    /\ UNCHANGED <<feed, answers, lists, setting, picker, expected, installed, changes, failures>>

\* The release is gone, or the connection is lost.
DownloadFails ==
    /\ download.state # "idle" /\ failures < MaxFailures
    /\ download' = Idle
    /\ picker' = [picker EXCEPT !.enabled = FALSE]
    /\ failures' = failures + 1
    /\ UNCHANGED <<feed, answers, lists, setting, expected, installed, changes>>

\* What has arrived is installed if it is what was expected.  A second update
\* is refused until the editor is restarted.
MutantDownloadCompleted ==
    /\ download.state = "body"
    /\ download' = Idle
    /\ IF installed.tag = 0
       THEN installed' = [tag |-> expected.tag, content |-> download.content] /\ UNCHANGED picker
       ELSE picker' = [picker EXCEPT !.enabled = FALSE] /\ UNCHANGED installed
    /\ UNCHANGED <<feed, answers, lists, setting, expected, changes, failures>>
DownloadCompleted ==
    /\ download.state = "body"
    /\ download' = Idle
    /\ IF download.content = expected /\ installed.tag = 0
       THEN installed' = [tag |-> expected.tag, content |-> download.content] /\ UNCHANGED picker
       ELSE picker' = [picker EXCEPT !.enabled = FALSE] /\ UNCHANGED installed
    /\ UNCHANGED <<feed, answers, lists, setting, expected, changes, failures>>

\* Closing cancels a download whose body is arriving, no other.
Close ==
    /\ picker.shown
    /\ picker' = [picker EXCEPT !.shown = FALSE]
    /\ download' = IF download.state = "body" THEN Idle ELSE download
    /\ UNCHANGED <<feed, answers, lists, setting, expected, installed, changes, failures>>

-----------------------------------------------------------------------------
Next ==
    \/ \E f \in Feeds : Publish(f) \/ Serve(f) \/ RequestFails(f) \/ Answer(f) \/ Garbled(f)
    \/ CheckForUpdates \/ ChangeNotify \/ SettingsChanged
    \/ Open \/ ChangeFilter \/ Select \/ RequestDownload \/ Close
    \/ ReceiveBody \/ DownloadFails \/ DownloadCompleted

\* The timer repeats, requests are answered, and queued signals are delivered.
Fairness ==
    /\ WF_vars(CheckForUpdates) /\ WF_vars(SettingsChanged)
    /\ \A f \in Feeds : WF_vars(Serve(f)) /\ WF_vars(Answer(f))

Spec == Init /\ [][Next]_vars /\ Fairness

-----------------------------------------------------------------------------
(* Properties.                                                             *)

Entry == [tag : Tags, build : Builds]

Picker == [shown : BOOLEAN, stable_only : BOOLEAN, rows : SUBSET Entry, selected : Entry \cup {None}, enabled : BOOLEAN]

TypeOK ==
    /\ \A f \in Feeds : online[f] \subseteq Entries(f) /\ history[f] \subseteq Entries(f) /\ body[f] \subseteq Entries(f)
    /\ request \in [Feeds -> {"idle", "sent", "answered"}]
    /\ releases \subseteq {e \in Listings : e.tag > Running} /\ manifests \subseteq Manifests /\ offers \subseteq Entry
    /\ visible \in BOOLEAN /\ notify \in BOOLEAN /\ unseen \in BOOLEAN
    /\ picker \in Picker
    /\ expected \in Entry \cup {None}
    /\ download \in [state : {"idle", "connecting", "body"}, tag : Tags \cup {0}, content : Entry \cup {None}]
    /\ download.state # "idle" => download.tag # 0
    /\ installed \in [tag : Tags \cup {0}, content : Entry \cup {None}]

\* What is installed under a tag is the asset of that tag, newer than what is
\* running, and GitHub and a manifest for this editor have said the same of it;
\* however the answers, the selections and the downloads overlapped.
Verified ==
    installed.tag # 0 =>
        /\ installed.tag > Running
        /\ installed.content.tag = installed.tag
        /\ \E l \in history["releases"] :
            l.tag = installed.tag /\ l.build = installed.content.build /\ l.mark # "draft"
        /\ \E m \in history["manifests"] :
            m.tag = installed.tag /\ m.build = installed.content.build /\ m.compatible

\* The rows that a selection is made from are offers: an answer that comes
\* while the dialog is open takes away what is no longer offered.
RowsOffered == picker.shown => picker.rows \cup ({picker.selected} \ {None}) \subseteq offers

\* What is offered is what the last lists agree on, for the setting as last
\* seen; except that one of the lists is empty.
OffersMatch ==
    ~unseen /\ releases # {} /\ manifests # {} =>
        /\ offers = Matched(releases, manifests, notify)
        /\ visible = (offers # {})

\* The picker is current: it offers what the lists agree on, and its rows are
\* offers, through any order of answers, dialogs, filters and settings.
PickerCurrent == TypeOK /\ RowsOffered /\ OffersMatch

\* "When enabled, the updater also reports preview (pre-release) builds": when
\* not enabled, it does not, once the change has been seen.
PreviewsWanted == ~notify /\ ~unseen => \A o \in offers : o.tag \notin Unstable

\* A release that both services come to agree on is offered, though requests
\* fail and answers overtake each other: the lists settle on what is online.
EventuallyOffered ==
    <>[](LET newer == {e \in online["releases"] : e.tag > Running}
         IN  newer # {} /\ online["manifests"] # {} => offers = Matched(newer, online["manifests"], notify))
=============================================================================
