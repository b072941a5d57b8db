------------------------------ MODULE ShareForm ------------------------------
(***************************************************************************)
(* The page that turns a text into a link (new-message.ts): its form, the  *)
(* submissions in flight, and the link-ready state that replaces the form. *)
(*                                                                         *)
(* Submissions run concurrently: the handler awaits encryption, the save   *)
(* and the styles of the link-ready state, and an input event enables the  *)
(* button again meanwhile.                                                 *)
(***************************************************************************)
EXTENDS Profile

CONSTANTS
    Settings,       \* what the two selects offer: records with views
    DefaultSetting  \* what they show at first and after "Send another"

ASSUME SettingsAssumption ==
    /\ \A w \in Settings : w.views \in 1 .. MaxViews
    /\ DefaultSetting \in Settings

VARIABLES
    form,       \* the form's fields and its button, also while detached
    page,       \* Form, or the secret whose link-ready state replaced it
    send,       \* each submission
    records,    \* links whose import of mySecrets.js is under way
    shown       \* history: the secrets whose link was displayed

formVars == <<form, page, send, records, shown>>

Form == "form"

ASSUME FormAssumption == Form \notin Secrets

NotSent == [phase |-> "new", setting |-> DefaultSetting, uses |-> 0, label |-> DefaultSetting]

EmptyForm == [filled |-> FALSE, enabled |-> FALSE, setting |-> DefaultSetting]

Submissions ==
    [phase : {"new", "saving", "stored", "made", "done", "failed"},
     setting : Settings, uses : 0 .. MaxViews, label : Settings]

FormTypeOK ==
    /\ form \in [filled : BOOLEAN, enabled : BOOLEAN, setting : Settings]
    /\ page \in Secrets \cup {Form}
    /\ send \in [Secrets -> Submissions]
    /\ records \subseteq Secrets
    /\ shown \subseteq Secrets

FormInit ==
    /\ form = EmptyForm
    /\ page = Form
    /\ send = [s \in Secrets |-> NotSent]
    /\ records = {}
    /\ shown = {}

(* Bounds: the text is typed while something can still be sent, and the    *)
(* selects also move while a save is on its way.                           *)
Writing == page = Form /\ \E s \in Secrets : send[s].phase = "new"

Choosing == page = Form /\ \E s \in Secrets : send[s].phase \in {"new", "saving", "stored"}

(* The input event empties or fills the text and sets the button by it,    *)
(* whatever is in flight.                                                  *)
Type(filled) ==
    /\ Writing
    /\ form' = [form EXCEPT !.filled = filled, !.enabled = filled]
    /\ UNCHANGED <<page, send, records, shown, profileVars>>

Choose(w) ==
    /\ Choosing
    /\ form' = [form EXCEPT !.setting = w]
    /\ UNCHANGED <<page, send, records, shown, profileVars>>

(* The submit handler up to its first await.  The text, the passphrase and *)
(* the settings that are sent are those of this moment.                    *)
Submit(s, withPassphrase) ==
    /\ page = Form /\ form.enabled
    /\ send[s].phase = "new"
    /\ send' = [send EXCEPT ![s].phase = "saving", ![s].setting = form.setting]
    /\ form' = [form EXCEPT !.enabled = FALSE]
    /\ locked' = IF withPassphrase THEN locked \cup {s} ELSE locked
    /\ UNCHANGED <<page, records, shown, left, list, kept, now>>

(* createSecretLink asks for one view by saying nothing of views.          *)
SaveRequest(s) == IF send[s].setting.views = 1 THEN {} ELSE {send[s].setting.views}

ViewsRequested(request) == CHOOSE v \in request \cup {1} : request # {} => v \in request

(* The service stores the secret, for one view unless it is told.          *)
Store(s) ==
    /\ send[s].phase = "saving"
    /\ left' = [left EXCEPT ![s] = ViewsRequested(SaveRequest(s))]
    /\ send' = [send EXCEPT ![s].phase = "stored"]
    /\ UNCHANGED <<form, page, records, shown, locked, list, kept, now>>

(* Mutant: both are read once the link is made.                            *)
LinkReadyTextLate(s) == [uses |-> form.setting.views, label |-> form.setting]

(* What the handler hands to showLinkReady: the views it read at the       *)
(* start, and the duration the select shows now.                           *)
LinkReadyText(s) == [uses |-> send[s].setting.views, label |-> form.setting]

(* createSecretLink returns: recording starts in the background, and       *)
(* showLinkReady copies the link and awaits its styles.                     *)
SaveAnswered(s) ==
    /\ send[s].phase = "stored"
    /\ send' = [send EXCEPT ![s].phase = "made",
                            ![s].uses = LinkReadyText(s).uses,
                            ![s].label = LinkReadyText(s).label]
    /\ records' = records \cup {s}
    /\ UNCHANGED <<form, page, shown, profileVars>>

(* The request or its answer is lost, or it is refused: an error message,  *)
(* and the button as the text has it.                                      *)
SaveFailed(s) ==
    /\ send[s].phase \in {"saving", "stored"}
    /\ send' = [send EXCEPT ![s].phase = "failed"]
    /\ form' = [form EXCEPT !.enabled = form.filled]
    /\ UNCHANGED <<page, records, shown, profileVars>>

(* replaceWith does nothing to a form that is not in the document.         *)
ShowLink(s) ==
    /\ send[s].phase = "made"
    /\ send' = [send EXCEPT ![s].phase = "done"]
    /\ IF page = Form
       THEN page' = s /\ shown' = shown \cup {s}
       ELSE UNCHANGED <<page, shown>>
    /\ UNCHANGED <<form, records, profileVars>>

(* "Send another secret" empties the form and moves both selects back.     *)
Reset ==
    /\ page # Form
    /\ page' = Form
    /\ form' = EmptyForm
    /\ UNCHANGED <<send, records, shown, profileVars>>

(* The import resolves, or fails and the entry is never written.           *)
Record(s) ==
    /\ s \in records
    /\ records' = records \ {s}
    /\ list' \in {recordSecret(s, send[s].setting.views), list}
    /\ UNCHANGED <<form, page, send, shown, left, locked, kept, now>>

FormNext ==
    \/ \E filled \in BOOLEAN : Type(filled)
    \/ \E w \in Settings : Choose(w)
    \/ \E s \in Secrets, p \in BOOLEAN : Submit(s, p)
    \/ \E s \in Secrets :
          Store(s) \/ SaveAnswered(s) \/ SaveFailed(s) \/ ShowLink(s) \/ Record(s)
    \/ Reset
------------------------------------------------------------------------------
(* The link-ready state says "{count} views" of a secret the service took  *)
(* for exactly that many, although the selects may have moved while the    *)
(* save was in flight; and it never stands for a save that failed.         *)
UsesShownAreTrue ==
    page \in Secrets =>
        /\ send[page].phase = "done"
        /\ send[page].uses = send[page].setting.views
        /\ left[page] <= send[page].uses
==============================================================================
