-------------------------- MODULE ReleaseFeed_proofs --------------------------
(***************************************************************************)
(* What the picker offers and what an update installs, for any entries of  *)
(* the two services, any changes of them and any failures.                 *)
(*                                                                         *)
(* The invariant follows an entry from the services to the disk: what is   *)
(* offered, shown, selected, expected or installed was once said by both   *)
(* services (Agreed), and what they have said is never forgotten.          *)
(***************************************************************************)
EXTENDS ReleaseFeed, TLAPS

\* The entries that the history h of the services vouches for.
Agreed(h) ==
    {e \in Entry :
        /\ e.tag > Running
        /\ \E l \in h["releases"] : l.tag = e.tag /\ l.build = e.build /\ l.mark # "draft"
        /\ \E m \in h["manifests"] : m.tag = e.tag /\ m.build = e.build /\ m.compatible}

Shape ==
    /\ {online, history, body} \subseteq [Feeds -> SUBSET (Listings \cup Manifests)]
    /\ \A f \in Feeds : history[f] \subseteq Entries(f)

\* Whatever the editor has heard was said.
Heard ==
    /\ \A f \in Feeds : online[f] \subseteq history[f] /\ body[f] \subseteq history[f]
    /\ releases \subseteq {e \in history["releases"] : e.tag > Running}
    /\ manifests \subseteq history["manifests"]

Vouched ==
    /\ offers \subseteq Agreed(history)
    /\ picker.rows \subseteq Agreed(history)
    /\ picker.selected \in Agreed(history) \cup {None}
    /\ expected \in Agreed(history) \cup {None}
    /\ installed.tag # 0 => installed.content \in Agreed(history) /\ installed.content.tag = installed.tag

IInv == TypeOK /\ Shape /\ Heard /\ Vouched /\ RowsOffered /\ OffersMatch

-----------------------------------------------------------------------------
(* Offers.                                                                 *)

\* The lists agree only on what both hold.
LEMMA MatchedAgreed ==
  ASSUME NEW h, NEW found, NEW known, NEW previews,
         found \subseteq {e \in h["releases"] : e.tag > Running}, known \subseteq h["manifests"],
         h["releases"] \subseteq Listings, h["manifests"] \subseteq Manifests
  PROVE  Matched(found, known, previews) \subseteq Agreed(h)
<1> SUFFICES ASSUME NEW o \in Matched(found, known, previews) PROVE o \in Agreed(h)
  OBVIOUS
<1>1. PICK k \in known, r \in found :
        /\ o = [tag |-> k.tag, build |-> k.build]
        /\ r.mark # "draft" /\ k.tag = r.tag /\ k.compatible /\ k.build = r.build
  BY DEF Matched
<1>2. r \in Listings /\ r \in h["releases"] /\ r.tag > Running /\ k \in h["manifests"]
  OBVIOUS
<1>3. o \in Entry
  BY <1>1, <1>2 DEF Entry, Tags, Builds
<1>4. o.tag = k.tag /\ o.build = k.build
  BY <1>1
<1> QED BY <1>1, <1>2, <1>3, <1>4 DEF Agreed

\* What was vouched for stays so.
LEMMA AgreedGrows ==
  ASSUME NEW h, NEW k, h["releases"] \subseteq k["releases"], h["manifests"] \subseteq k["manifests"]
  PROVE  Agreed(h) \subseteq Agreed(k)
  BY DEF Agreed

\* Filling the tree shows offers only, and nothing is selected.
LEMMA RefilledRows ==
  ASSUME NEW p \in Picker, NEW offered \in SUBSET Entry, NEW stable
  PROVE  LET q == Refilled(p, offered, stable)
         IN  /\ q \in Picker /\ q.shown = p.shown
             /\ q.rows \subseteq offered /\ q.selected = None
  BY DEF Refilled, Picker

\* The picker is told of the lists: it keeps what it has or offers what agrees.
LEMMA PickerUpdated ==
  ASSUME TypeOK, NEW h, NEW found, NEW known, UpdatePicker(found, known),
         found \subseteq {e \in h["releases"] : e.tag > Running}, known \subseteq h["manifests"],
         h["releases"] \subseteq Listings, h["manifests"] \subseteq Manifests,
         offers \subseteq Agreed(h), picker.rows \subseteq Agreed(h), picker.selected \in Agreed(h) \cup {None},
         RowsOffered
  PROVE  /\ offers' \subseteq Agreed(h) /\ visible' \in BOOLEAN
         /\ picker' \in Picker
         /\ picker'.rows \subseteq Agreed(h) /\ picker'.selected \in Agreed(h) \cup {None}
         /\ RowsOffered'
         /\ found # {} /\ known # {} =>
              offers' = Matched(found, known, notify) /\ visible' = (offers' # {})
<1>1. CASE found = {} \/ known = {}
  BY <1>1 DEF UpdatePicker, RowsOffered, TypeOK
<1>2. CASE found # {} /\ known # {}
  <2> DEFINE offered == Matched(found, known, notify)
             p == [picker EXCEPT !.enabled = FALSE]
  <2>1. offered \subseteq Agreed(h) /\ offered \in SUBSET Entry
    BY MatchedAgreed DEF Agreed
  <2>2. /\ p \in Picker /\ p.shown = picker.shown
        /\ p.rows = picker.rows /\ p.selected = picker.selected /\ p.stable_only = picker.stable_only
    BY DEF TypeOK, Picker
  <2>3. /\ offers' = offered /\ visible' = (offered # {})
        /\ picker' = IF p.shown THEN Refilled(p, offered, p.stable_only) ELSE p
    BY <1>2 DEF UpdatePicker
  <2> HIDE DEF offered, p
  <2>4. CASE p.shown
    <3>1. /\ picker' \in Picker
          /\ picker'.rows \subseteq offered /\ picker'.selected = None
      BY <2>1, <2>2, <2>3, <2>4, RefilledRows
    <3> QED BY <2>1, <2>3, <3>1 DEF RowsOffered, offered
  <2>5. CASE ~p.shown
    BY <2>1, <2>2, <2>3, <2>5 DEF RowsOffered, offered
  <2> QED BY <2>4, <2>5
<1> QED BY <1>1, <1>2

-----------------------------------------------------------------------------
(* Steps.                                                                  *)

LEMMA InitInv == Init => IInv
<1> SUFFICES ASSUME Init PROVE IInv
  OBVIOUS
<1> USE DEF Init
<1>1. Shape
  BY OutsetAssumption DEF Shape, Feeds
<1>2. TypeOK
  BY OutsetAssumption DEF TypeOK, Feeds, Picker, Idle
<1>3. Heard /\ Vouched
  BY <1>1 DEF Shape, Heard, Vouched
<1>4. RowsOffered /\ OffersMatch
  BY DEF RowsOffered, OffersMatch
<1> QED BY <1>1, <1>2, <1>3, <1>4 DEF IInv

\* What the services say changes: what they have said stays said.
LEMMA PublishInv ==
  ASSUME IInv, NEW f \in Feeds, Publish(f)
  PROVE  IInv'
<1> USE DEF IInv
<1>1. PICK e \in Entries(f), new \in SUBSET Entries(f) : online' = [online EXCEPT ![f] = new]
  <2>1. PICK e \in Entries(f) :
          LET others == {o \in online[f] : o.tag # e.tag}
          IN  online' \in {[online EXCEPT ![f] = others \cup {e}], [online EXCEPT ![f] = others]}
    BY DEF Publish
  <2>2. {o \in online[f] : o.tag # e.tag} \subseteq Entries(f)
    BY DEF TypeOK
  <2> QED BY <2>1, <2>2
<1>2. /\ history' = [history EXCEPT ![f] = @ \cup online'[f]]
      /\ UNCHANGED <<request, body, releases, manifests, offers, visible, notify, unseen, picker,
                     expected, download, installed>>
  BY DEF Publish, answers, lists, setting, loading
<1>3. /\ online'[f] = new /\ history'[f] = history[f] \cup new
      /\ \A g \in Feeds \ {f} : online'[g] = online[g] /\ history'[g] = history[g]
  BY <1>1, <1>2 DEF Shape
<1>4. \A g \in Feeds : history[g] \subseteq history'[g] /\ history'[g] \subseteq Entries(g)
  BY <1>3 DEF Shape
<1>5. Shape'
  <2>1. Entries(f) \subseteq Listings \cup Manifests
    BY DEF Entries
  <2> QED BY <1>1, <1>2, <1>3, <1>4, <2>1 DEF Shape
<1>6. TypeOK'
  BY <1>2, <1>3, <1>4 DEF TypeOK
<1>7. Heard'
  BY <1>2, <1>3, <1>4 DEF Heard, Feeds
<1>8. Vouched'
  <2>1. Agreed(history) \subseteq Agreed(history')
    BY <1>4, AgreedGrows DEF Feeds
  <2> QED BY <1>2, <2>1 DEF Vouched
<1>9. RowsOffered' /\ OffersMatch'
  BY <1>2 DEF RowsOffered, OffersMatch
<1> QED BY <1>5, <1>6, <1>7, <1>8, <1>9

\* Requests are sent, answered by the services, or fail.
LEMMA RequestInv ==
  ASSUME IInv, CheckForUpdates \/ \E f \in Feeds : Serve(f) \/ RequestFails(f)
  PROVE  IInv'
<1> USE DEF IInv
<1>1. /\ UNCHANGED <<online, history, releases, manifests, offers, visible, notify, unseen, picker,
                     expected, download, installed>>
      /\ request' \in [Feeds -> {"idle", "sent", "answered"}]
      /\ body' \in [Feeds -> SUBSET (Listings \cup Manifests)]
      /\ \A f \in Feeds : body'[f] \in {body[f], {}, online[f]}
  BY DEF CheckForUpdates, Serve, RequestFails, feed, lists, setting, loading, TypeOK, Shape
<1>2. Shape' /\ Heard' /\ Vouched' /\ RowsOffered' /\ OffersMatch'
  BY <1>1 DEF Shape, Heard, Vouched, RowsOffered, OffersMatch
<1>3. TypeOK'
  <2>1. \A f \in Feeds : body'[f] \subseteq Entries(f)
    BY <1>1 DEF TypeOK
  <2> QED BY <1>1, <2>1 DEF TypeOK
<1> QED BY <1>2, <1>3

\* The lists that the picker is told of after a step.
LEMMA ToldInv ==
  ASSUME IInv, UpdatePicker(releases', manifests'),
         releases' \in {releases, {e \in body["releases"] : e.tag > Running}},
         manifests' \in {manifests, body["manifests"]},
         request' \in [Feeds -> {"idle", "sent", "answered"}],
         body' \in [Feeds -> SUBSET (Listings \cup Manifests)],
         \A f \in Feeds : body'[f] \in {body[f], {}},
         unseen' \in BOOLEAN,
         UNCHANGED <<online, history, notify, expected, download, installed>>
  PROVE  IInv'
<1> USE DEF IInv
<1>1. /\ releases' \subseteq {e \in history["releases"] : e.tag > Running}
      /\ manifests' \subseteq history["manifests"]
      /\ history["releases"] \subseteq Listings /\ history["manifests"] \subseteq Manifests
  BY DEF Heard, Shape, Feeds, Entries
<1>2. /\ offers' \subseteq Agreed(history) /\ visible' \in BOOLEAN
      /\ picker' \in Picker
      /\ picker'.rows \subseteq Agreed(history) /\ picker'.selected \in Agreed(history) \cup {None}
      /\ RowsOffered'
      /\ releases' # {} /\ manifests' # {} =>
           offers' = Matched(releases', manifests', notify) /\ visible' = (offers' # {})
  BY <1>1, PickerUpdated DEF Vouched
<1>3. Shape' /\ Heard'
  BY <1>1 DEF Shape, Heard
<1>4. TypeOK'
  <2>1. \A f \in Feeds : body'[f] \subseteq Entries(f)
    BY DEF TypeOK
  <2>2. offers' \subseteq Entry
    BY <1>2 DEF Agreed
  <2>3. releases' \subseteq {e \in Listings : e.tag > Running} /\ manifests' \subseteq Manifests
    BY <1>1
  <2> QED BY <1>2, <2>1, <2>2, <2>3 DEF TypeOK
<1>5. Vouched'
  BY <1>2 DEF Vouched
<1>6. OffersMatch'
  BY <1>2 DEF OffersMatch
<1> QED BY <1>2, <1>3, <1>4, <1>5, <1>6

LEMMA AnswerInv ==
  ASSUME IInv, SettingsChanged \/ \E f \in Feeds : Answer(f)
  PROVE  IInv'
<1>1. CASE SettingsChanged
  BY <1>1, ToldInv DEF SettingsChanged, feed, answers, loading, IInv, TypeOK, Shape
<1>2. ASSUME NEW f \in Feeds, Answer(f) PROVE IInv'
  <2>1. /\ releases' \in {releases, {e \in body["releases"] : e.tag > Running}}
        /\ manifests' \in {manifests, body["manifests"]}
        /\ UpdatePicker(releases', manifests')
    BY <1>2 DEF Answer, Process
  <2>2. /\ request' \in [Feeds -> {"idle", "sent", "answered"}]
        /\ body' \in [Feeds -> SUBSET (Listings \cup Manifests)]
        /\ \A g \in Feeds : body'[g] \in {body[g], {}}
    BY <1>2 DEF Answer, IInv, TypeOK, Shape
  <2>3. UNCHANGED <<online, history, notify, unseen, expected, download, installed>> /\ unseen' \in BOOLEAN
    BY <1>2 DEF Answer, feed, setting, loading, IInv, TypeOK
  <2> QED BY <2>1, <2>2, <2>3, ToldInv
<1> QED BY <1>1, <1>2

\* An answer that is not a list: the picker is not told.
LEMMA GarbledInv ==
  ASSUME IInv, NEW f \in Feeds, Garbled(f)
  PROVE  IInv'
<1> USE DEF IInv
<1>1. /\ UNCHANGED <<online, history, offers, visible, notify, unseen, picker, expected, download, installed>>
      /\ request' \in [Feeds -> {"idle", "sent", "answered"}]
      /\ body' \in [Feeds -> SUBSET (Listings \cup Manifests)]
      /\ \A g \in Feeds : body'[g] \in {body[g], {}}
      /\ releases' \in {releases, {}} /\ manifests' \in {manifests, {}}
      /\ releases' = {} \/ manifests' = {}
  BY DEF Garbled, feed, setting, loading, TypeOK, Shape, Feeds
<1>2. Shape' /\ Heard' /\ Vouched' /\ RowsOffered'
  BY <1>1 DEF Shape, Heard, Vouched, RowsOffered
<1>3. OffersMatch'
  BY <1>1 DEF OffersMatch
<1>4. TypeOK'
  <2>1. \A g \in Feeds : body'[g] \subseteq Entries(g)
    BY <1>1 DEF TypeOK
  <2> QED BY <1>1, <2>1 DEF TypeOK
<1> QED BY <1>2, <1>3, <1>4

LEMMA ChangeNotifyInv ==
  ASSUME IInv, ChangeNotify
  PROVE  IInv'
<1> USE DEF IInv, ChangeNotify, feed, answers, lists, loading
<1>1. Shape' /\ Heard' /\ Vouched' /\ RowsOffered' /\ OffersMatch'
  BY DEF Shape, Heard, Vouched, RowsOffered, OffersMatch
<1>2. TypeOK'
  BY DEF TypeOK
<1> QED BY <1>1, <1>2

\* The dialog shows offers, and a selection is one of its rows.
LEMMA DialogInv ==
  ASSUME IInv, Open \/ ChangeFilter \/ Select
  PROVE  IInv'
<1> USE DEF IInv
<1>1. UNCHANGED <<online, history, request, body, releases, manifests, offers, visible, notify, unseen,
                  expected, download, installed>>
  BY DEF Open, ChangeFilter, Select, feed, answers, lists, setting, loading
<1>2. /\ picker' \in Picker
      /\ picker'.rows \cup ({picker'.selected} \ {None}) \subseteq offers
  <2>1. picker \in Picker /\ offers \in SUBSET Entry
    BY DEF TypeOK
  <2>2. CASE Open
    <3> DEFINE p == [picker EXCEPT !.shown = TRUE, !.enabled = FALSE]
    <3>1. p \in Picker
      BY <2>1 DEF Picker
    <3>2. picker' = Refilled(p, offers, FALSE)
      BY <2>2 DEF Open
    <3> QED BY <2>1, <3>1, <3>2, RefilledRows
  <2>3. CASE ChangeFilter
    <3> DEFINE stable == ~picker.stable_only
               q == Refilled(picker, offers, stable)
    <3>1. picker' = [q EXCEPT !.stable_only = stable]
      BY <2>3 DEF ChangeFilter
    <3>2. q \in Picker /\ q.rows \subseteq offers /\ q.selected = None
      BY <2>1, RefilledRows
    <3> HIDE DEF q
    <3>3. stable \in BOOLEAN
      OBVIOUS
    <3> QED BY <3>1, <3>2, <3>3 DEF Picker
  <2>4. CASE Select
    <3>1. PICK r \in picker.rows : picker' = [picker EXCEPT !.selected = r, !.enabled = TRUE]
      BY <2>4 DEF Select
    <3>2. picker.rows \subseteq offers
      BY <2>4 DEF Select, RowsOffered
    <3> QED BY <2>1, <3>1, <3>2 DEF Picker
  <2> QED BY <2>2, <2>3, <2>4
<1>3. TypeOK'
  BY <1>1, <1>2 DEF TypeOK
<1>4. Shape' /\ Heard' /\ RowsOffered' /\ OffersMatch'
  BY <1>1, <1>2 DEF Shape, Heard, RowsOffered, OffersMatch
<1>5. Vouched'
  BY <1>1, <1>2 DEF Vouched
<1> QED BY <1>3, <1>4, <1>5

\* Steps that leave the services and the lists alone need the types of what
\* they change, and that what they select, expect or install is vouched for.
LEMMA LoadingInv ==
  ASSUME IInv, UNCHANGED <<feed, answers, lists, setting>>,
         picker' \in Picker,
         picker'.rows = picker.rows, picker'.shown => picker.shown,
         picker'.selected \in {picker.selected, None},
         expected' \in Agreed(history) \cup {None},
         download' \in [state : {"idle", "connecting", "body"}, tag : Tags \cup {0}, content : Entry \cup {None}],
         download'.state # "idle" => download'.tag # 0,
         installed' \in [tag : Tags \cup {0}, content : Entry \cup {None}],
         installed'.tag # 0 => installed'.content \in Agreed(history) /\ installed'.content.tag = installed'.tag
  PROVE  IInv'
<1> USE DEF IInv, feed, answers, lists, setting
<1>1. Shape' /\ Heard' /\ RowsOffered' /\ OffersMatch'
  BY DEF Shape, Heard, RowsOffered, OffersMatch
<1>2. Vouched'
  BY DEF Vouched
<1>3. expected' \in Entry \cup {None}
  BY DEF Agreed
<1>4. TypeOK'
  BY <1>3 DEF TypeOK
<1> QED BY <1>1, <1>2, <1>4

\* What is vouched for has a tag, which is not that of nothing.
LEMMA AgreedHasTag ==
  ASSUME NEW h, NEW e \in Agreed(h)
  PROVE  e \in Entry /\ e.tag \in Tags /\ e.tag \in Nat /\ e.tag # 0 /\ e # None
<1>1. e \in Entry /\ e.tag > Running /\ e.tag \in Tags
  BY DEF Agreed, Entry
<1>2. e.tag \in Nat
  BY <1>1, ListingsAssumption DEF Tags
<1> QED BY <1>1, <1>2, RunningAssumption DEF None

LEMMA DownloadInv ==
  ASSUME IInv, RequestDownload \/ ReceiveBody \/ DownloadFails \/ Close
  PROVE  IInv'
<1> USE DEF IInv
<1> DEFINE Download == [state : {"idle", "connecting", "body"}, tag : Tags \cup {0}, content : Entry \cup {None}]
<1>0. /\ picker \in Picker /\ download \in Download /\ Idle \in Download
      /\ installed \in [tag : Tags \cup {0}, content : Entry \cup {None}]
      /\ download.state # "idle" => download.tag # 0
      /\ expected \in Agreed(history) \cup {None}
      /\ installed.tag # 0 => installed.content \in Agreed(history) /\ installed.content.tag = installed.tag
  BY DEF TypeOK, Vouched, Idle
<1>1. CASE RequestDownload
  <2>1. /\ picker.selected \in Agreed(history) /\ expected' = picker.selected
        /\ picker' = [picker EXCEPT !.selected = None, !.enabled = FALSE]
        /\ UNCHANGED <<feed, answers, lists, setting, installed>>
    BY <1>1 DEF RequestDownload, Vouched
  <2>2. expected'.tag \in Tags /\ expected'.tag # 0
    BY <2>1, AgreedHasTag
  <2>3. \/ download' = [Idle EXCEPT !.state = "connecting", !.tag = expected'.tag]
        \/ download' = download
    BY <1>1 DEF RequestDownload
  <2>4. download' \in Download /\ (download'.state # "idle" => download'.tag # 0)
    <3>1. CASE download' = download
      BY <1>0, <3>1
    <3>2. CASE download' = [Idle EXCEPT !.state = "connecting", !.tag = expected'.tag]
      <4>1. download' = [state |-> "connecting", tag |-> expected'.tag, content |-> None]
        BY <3>2 DEF Idle
      <4> QED BY <2>2, <4>1
    <3> QED BY <2>3, <3>1, <3>2
  <2>5. /\ picker' \in Picker
        /\ picker'.rows = picker.rows /\ picker'.shown = picker.shown /\ picker'.selected = None
    BY <1>0, <2>1 DEF Picker
  <2> QED BY <1>0, <2>1, <2>4, <2>5, LoadingInv
<1>2. CASE ReceiveBody
  <2>1. UNCHANGED <<feed, answers, lists, setting, picker, expected, installed>>
    BY <1>2 DEF ReceiveBody
  <2>2. PICK e \in online["releases"] :
          download' = [download EXCEPT !.state = "body", !.content = [tag |-> e.tag, build |-> e.build]]
    BY <1>2 DEF ReceiveBody
  <2>3. [tag |-> e.tag, build |-> e.build] \in Entry
    BY DEF TypeOK, Feeds, Entries, Entry, Tags, Builds
  <2>4. download' \in Download /\ download'.tag # 0
    BY <1>0, <1>2, <2>2, <2>3 DEF ReceiveBody
  <2> QED BY <1>0, <2>1, <2>4, LoadingInv
<1>3. CASE DownloadFails
  <2>1. /\ UNCHANGED <<feed, answers, lists, setting, expected, installed>>
        /\ download' = Idle /\ picker' = [picker EXCEPT !.enabled = FALSE]
    BY <1>3 DEF DownloadFails
  <2>2. /\ picker' \in Picker
        /\ picker'.rows = picker.rows /\ picker'.shown = picker.shown /\ picker'.selected = picker.selected
    BY <1>0, <2>1 DEF Picker
  <2> QED BY <1>0, <2>1, <2>2, LoadingInv DEF Idle
<1>4. CASE Close
  <2>1. /\ UNCHANGED <<feed, answers, lists, setting, expected, installed>>
        /\ download' \in {Idle, download} /\ picker' = [picker EXCEPT !.shown = FALSE]
    BY <1>4 DEF Close
  <2>2. /\ picker' \in Picker
        /\ picker'.rows = picker.rows /\ ~picker'.shown /\ picker'.selected = picker.selected
    BY <1>0, <2>1 DEF Picker
  <2> QED BY <1>0, <2>1, <2>2, LoadingInv DEF Idle
<1> QED BY <1>1, <1>2, <1>3, <1>4

\* What is installed is what was expected, and that is vouched for.
LEMMA InstallInv ==
  ASSUME IInv, DownloadCompleted
  PROVE  IInv'
<1> USE DEF IInv
<1>1. /\ UNCHANGED <<feed, answers, lists, setting, expected>>
      /\ download' = Idle
      /\ picker' \in {picker, [picker EXCEPT !.enabled = FALSE]}
      /\ \/ UNCHANGED installed
         \/ download.content = expected /\ installed' = [tag |-> expected.tag, content |-> expected]
  BY DEF DownloadCompleted
<1>2. /\ picker' \in Picker
      /\ picker'.rows = picker.rows /\ picker'.shown = picker.shown /\ picker'.selected = picker.selected
  BY <1>1 DEF TypeOK, Picker
<1>3. /\ Idle \in [state : {"idle", "connecting", "body"}, tag : Tags \cup {0}, content : Entry \cup {None}]
      /\ Idle.state = "idle"
  BY DEF Idle
<1>4. /\ installed' \in [tag : Tags \cup {0}, content : Entry \cup {None}]
      /\ installed'.tag # 0 => installed'.content \in Agreed(history) /\ installed'.content.tag = installed'.tag
  <2>1. CASE UNCHANGED installed
    BY <2>1 DEF TypeOK, Vouched
  <2>2. CASE installed' = [tag |-> expected.tag, content |-> expected]
    <3>1. CASE expected = None
      BY <2>2, <3>1 DEF None
    <3>2. CASE expected # None
      <4>1. expected \in Agreed(history)
        BY <3>2 DEF Vouched
      <4> QED BY <2>2, <4>1, AgreedHasTag
    <3> QED BY <3>1, <3>2
  <2> QED BY <1>1, <2>1, <2>2
<1> QED BY <1>1, <1>2, <1>3, <1>4, LoadingInv DEF Vouched

LEMMA NextInv == IInv /\ [Next]_vars => IInv'
<1> SUFFICES ASSUME IInv, [Next]_vars PROVE IInv'
  OBVIOUS
<1>1. CASE UNCHANGED vars
  BY <1>1 DEF vars, feed, answers, lists, setting, loading,
              IInv, TypeOK, Shape, Heard, Vouched, RowsOffered, OffersMatch
<1>2. CASE Next
  BY <1>2, PublishInv, RequestInv, AnswerInv, GarbledInv, ChangeNotifyInv, DialogInv, DownloadInv, InstallInv
     DEF Next
<1> QED BY <1>1, <1>2

\* What the editor offers, shows, expects and installs was vouched for, at any time.
THEOREM Invariance == Spec => []IInv
<1> QED BY InitInv, NextInv, PTL DEF Spec

-----------------------------------------------------------------------------
(* The properties.                                                         *)

\* What is installed under a tag is the asset of that tag, newer than what is
\* running, of which both services have said the same.
THEOREM VerifiedSafe == Spec => []Verified
<1>1. IInv => Verified
  BY DEF IInv, Vouched, Agreed, Verified
<1> QED BY <1>1, Invariance, PTL

\* The picker offers what the lists agree on, and its rows are offers.
THEOREM PickerCurrentSafe == Spec => []PickerCurrent
<1>1. IInv => PickerCurrent
  BY DEF IInv, PickerCurrent
<1> QED BY <1>1, Invariance, PTL
=============================================================================
