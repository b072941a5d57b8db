------------------------------- MODULE ReadPage -------------------------------
(***************************************************************************)
(* The page that opens a text link (view-secret.ts), in any number of tabs *)
(* of one profile.  A read is destructive: what the page may repeat, and   *)
(* what it keeps for a phone that reloads it, is the point of this module. *)
(***************************************************************************)
EXTENDS Profile

CONSTANTS
    Tabs,
    CoarsePointer   \* whether the device is a phone or a tablet

ASSUME ReadPageAssumption == CoarsePointer \in BOOLEAN

VARIABLES
    tab,        \* the page of each tab
    shows,      \* history: how often each message was displayed here
    spent       \* history: the views each tab's last click took

readVars == <<tab, shows, spent>>

Broken == "broken"
Links == Secrets \cup {Broken}

Closed == [state |-> "closed", link |-> Broken, prompt |-> FALSE, typed |-> FALSE,
           used |-> FALSE, attempt |-> 0, net |-> "idle", viewsLeft |-> 0]

Pages ==
    [state : {"closed", "ready", "opening", "asking", "pausing", "open", "gone", "broken"},
     link : Links, prompt : BOOLEAN, typed : BOOLEAN,
     used : BOOLEAN, attempt : 0 .. 1,
     net : {"idle", "sent", "ok", "wrong key", "no message", "retry", "bare 503", "down"},
     viewsLeft : 0 .. MaxViews]

ReadTypeOK ==
    /\ tab \in [Tabs -> Pages]
    /\ shows \in [Secrets -> Nat]
    /\ spent \in [Tabs -> Nat]

ReadInit ==
    /\ tab = [t \in Tabs |-> Closed]
    /\ shows = [s \in Secrets |-> 0]
    /\ spent = [t \in Tabs |-> 0]

(* Mutant: any 503 counts as a read that did not happen.                   *)
isRetryable503(net) == net \in {"retry", "bare 503"}

isRetryableRead(net) == net = "retry"

freshCopy(c) == now - c.at < KeepFor

KeptOf(s) == {c \in kept : c.id = s}

isValidLinkToken(link) == link # Broken

(* Load: a token of the wrong shape is broken for good, and old copies of  *)
(* any message are swept.                                                  *)
Open(t, link) ==
    /\ tab[t].state = "closed"
    /\ tab' = [tab EXCEPT ![t] = [Closed EXCEPT
                   !.state = IF isValidLinkToken(link) THEN "ready" ELSE "broken", !.link = link]]
    /\ kept' = {c \in kept : freshCopy(c)}
    /\ UNCHANGED <<shows, spent, left, locked, list, now>>

Close(t) ==
    /\ tab[t].state # "closed"
    /\ tab' = [tab EXCEPT ![t] = Closed]
    /\ spent' = [spent EXCEPT ![t] = 0]
    /\ UNCHANGED <<shows, profileVars>>

(* The passphrase field appears once the service said "wrong key", and     *)
(* stays open to the user while a read is under way: the read goes on with *)
(* the key of its click ("used"), but what is kept of it depends on what   *)
(* the field then holds.                                                   *)
TypePassphrase(t) ==
    /\ tab[t].state \in {"ready", "opening", "asking", "pausing"} /\ tab[t].prompt
    /\ tab' = [tab EXCEPT ![t].typed = ~ @]
    /\ UNCHANGED <<shows, spent, profileVars>>

(* Mutant: the kept copies stay until they have been opened.               *)
RemovedLater(s) == kept

(* What the submit handler takes of the kept copies: all there is of this  *)
(* message, fresh or stale.                                                *)
Removed(s) == kept \ KeptOf(s)

Reveal(t) ==
    /\ tab[t].state = "ready"
    /\ LET s == tab[t].link
       IN  /\ kept' = Removed(s)
           /\ tab' = [tab EXCEPT ![t] = IF \E c \in KeptOf(s) : freshCopy(c)
                  THEN [@ EXCEPT !.state = "opening", !.used = tab[t].typed, !.attempt = 0]
                  ELSE [@ EXCEPT !.state = "asking", !.used = tab[t].typed, !.attempt = 0,
                                 !.net = "sent"]]
    /\ spent' = [spent EXCEPT ![t] = 0]
    /\ UNCHANGED <<shows, left, locked, list, now>>

(* The page shows nothing but the message, or that there is none.          *)
Ended(t, state) == [Closed EXCEPT !.state = state, !.link = tab[t].link]

(* A copy that does not decrypt falls through to the server.               *)
OpenKept(t) ==
    /\ tab[t].state = "opening"
    /\ LET s == tab[t].link
       IN IF opensMessage(Encrypted(s).bytes, fullSecretKey(tab[t].used, s))
          THEN /\ tab' = [tab EXCEPT ![t] = Ended(t, "open")]
               /\ shows' = [shows EXCEPT ![s] = @ + 1]
          ELSE /\ tab' = [tab EXCEPT ![t].state = "asking", ![t].net = "sent"]
               /\ UNCHANGED shows
    /\ UNCHANGED <<spent, profileVars>>

(* The service answers; only a right key takes a view, and a read that     *)
(* collided with another one is refused with the body that says so.        *)
Answer(t) ==
    /\ tab[t].state = "asking" /\ tab[t].net = "sent"
    /\ LET s == tab[t].link
       IN \/ /\ left[s] = 0
             /\ tab' = [tab EXCEPT ![t].net = "no message"]
             /\ UNCHANGED <<left, spent>>
          \/ /\ left[s] > 0 /\ ~ RightKey(s, tab[t].used)
             /\ tab' = [tab EXCEPT ![t].net = "wrong key"]
             /\ UNCHANGED <<left, spent>>
          \/ /\ left[s] > 0 /\ RightKey(s, tab[t].used)
             /\ tab' = [tab EXCEPT ![t].net = "ok", ![t].viewsLeft = left[s] - 1]
             /\ left' = [left EXCEPT ![s] = @ - 1]
             /\ spent' = [spent EXCEPT ![t] = @ + 1]
          \/ /\ left[s] > 0
             /\ tab' = [tab EXCEPT ![t].net = "retry"]
             /\ UNCHANGED <<left, spent>>
    /\ UNCHANGED <<shows, locked, list, kept, now>>

(* Request or answer is lost, or a proxy answers 503 in the server's place *)
(* before or after it did its work: nothing of an answer reaches the page. *)
Garble(t) ==
    /\ tab[t].state = "asking"
    /\ tab[t].net \in {"sent", "ok", "wrong key", "no message", "retry"}
    /\ \E net \in {"bare 503", "down"} :
           tab' = [tab EXCEPT ![t].net = net, ![t].viewsLeft = 0, ![t].used = FALSE]
    /\ UNCHANGED <<shows, spent, profileVars>>

Keeps(t) ==
    /\ tab[t].viewsLeft = 0
    /\ ~ tab[t].typed
    /\ CoarsePointer
    /\ ~ Listed(tab[t].link)

(* The answer is decrypted and displayed, and the last view kept once on a *)
(* phone (storage permitting).                                             *)
ReceiveMessage(t) ==
    /\ tab[t].state = "asking" /\ tab[t].net = "ok"
    /\ tab' = [tab EXCEPT ![t] = Ended(t, "open")]
    /\ shows' = [shows EXCEPT ![tab[t].link] = @ + 1]
    /\ kept' \in {kept} \cup
           (IF Keeps(t) THEN {Removed(tab[t].link) \cup {[id |-> tab[t].link, at |-> now]}} ELSE {})
    /\ UNCHANGED <<spent, left, locked, list, now>>

(* postJson returns the body of a good answer and throws for any other.    *)
Returned(net) == net \in {"wrong key", "no message"}
Thrown(net) == net \in {"retry", "bare 503", "down"}

(* "wrong key" asks for the passphrase, "no message" ends the page, and    *)
(* what is neither leaves the button for another click.                    *)
ReceiveRefusal(t) ==
    /\ tab[t].state = "asking"
    /\ Returned(tab[t].net) \/ Thrown(tab[t].net)
    /\ ~ (isRetryableRead(tab[t].net) /\ tab[t].attempt = 0)
    /\ tab' = [tab EXCEPT ![t] =
           IF tab[t].net = "no message" THEN Ended(t, "gone")
           ELSE [tab[t] EXCEPT !.state = "ready", !.used = FALSE, !.attempt = 0, !.net = "idle",
                               !.prompt = tab[t].prompt \/ tab[t].net = "wrong key"]]
    /\ UNCHANGED <<shows, spent, profileVars>>

(* The one repetition of a read, 400 ms later.                             *)
Pause(t) ==
    /\ tab[t].state = "asking" /\ isRetryableRead(tab[t].net) /\ tab[t].attempt = 0
    /\ tab' = [tab EXCEPT ![t].state = "pausing", ![t].attempt = 1, ![t].net = "idle"]
    /\ UNCHANGED <<shows, spent, profileVars>>

Resend(t) ==
    /\ tab[t].state = "pausing"
    /\ tab' = [tab EXCEPT ![t].state = "asking", ![t].net = "sent"]
    /\ UNCHANGED <<shows, spent, profileVars>>

Handle(t) ==
    \/ OpenKept(t)
    \/ Answer(t) \/ Garble(t)
    \/ ReceiveMessage(t) \/ ReceiveRefusal(t)
    \/ Pause(t) \/ Resend(t)

ReadNext ==
    \/ \E t \in Tabs, l \in Links : Open(t, l)
    \/ \E t \in Tabs : Close(t) \/ TypePassphrase(t) \/ Reveal(t) \/ Handle(t)
------------------------------------------------------------------------------
(* One click spends at most one view, whatever the page repeats, and the   *)
(* page never calls gone what its own click has just consumed.             *)
OneViewPerClick ==
    \A t \in Tabs :
        /\ spent[t] <= 1
        /\ tab[t].state = "gone" => spent[t] = 0
==============================================================================
