------------------------------ MODULE Extension ------------------------------
(***************************************************************************)
(* The browser extension: shares of a selection in its service worker      *)
(* (background.js, offscreen.js) and the pages with the last link and the  *)
(* settings (popup.js), which open as a popup and as a tab.  They meet in  *)
(* chrome.storage, the clipboard, the one offscreen document and the host  *)
(* permissions; every await lets the others run.                           *)
(***************************************************************************)
EXTENDS LinkProtocol

CONSTANTS
    Shares,
    Pages       \* the pages with the settings that are open at a time

VARIABLES
    share,      \* each share
    server,     \* history: the origin each secret is stored at
    lastLink,   \* chrome.storage.session: the link the pages show
    clipboard,
    copied,     \* history: the shares whose link was on the clipboard
    kept,       \* history: the shares whose link was the last one
    offscreen,  \* whether the offscreen document exists
    host,       \* chrome.storage.local: the origin of the server
    granted,    \* the origins the extension may talk to
    page        \* each page with the settings

shareVars == <<share, server, offscreen>>
linkVars == <<lastLink, clipboard, copied, kept>>
hostVars == <<host, granted>>
vars == <<shareVars, linkVars, hostVars, page>>

DefaultOrigin == normalizeOrigin(Unnamed)
Nowhere == [scheme |-> "none", host |-> DefaultHost]

NoLink == [share |-> "none", origin |-> Nowhere]
LinksOfShares == [share : Shares, origin : Origins]

NewShare == [step |-> "new", origin |-> DefaultOrigin, toast |-> "none"]
Steps == {"new", "settings", "checking", "saving", "keeping", "finding", "creating",
          "copying", "ended"}
Toasts == {"none", "select", "grant", "no link", "not kept", "copied", "open popup", "error"}

ClosedPage == [open |-> FALSE, shown |-> NoLink, stale |-> FALSE, step |-> "idle",
               origin |-> DefaultOrigin, previous |-> DefaultOrigin]

TypeOK ==
    /\ share \in [Shares -> [step : Steps, origin : Origins, toast : Toasts]]
    /\ server \in [Shares -> Origins \cup {Nowhere}]
    /\ lastLink \in LinksOfShares \cup {NoLink}
    /\ clipboard \in LinksOfShares \cup {NoLink}
    /\ copied \subseteq Shares /\ kept \subseteq Shares
    /\ offscreen \in BOOLEAN
    /\ host \in Origins /\ granted \subseteq Origins
    /\ page \in [Pages -> [open : BOOLEAN, shown : LinksOfShares \cup {NoLink}, stale : BOOLEAN,
                           step : {"idle", "requesting", "reading", "writing", "removing"},
                           origin : Origins, previous : Origins]]

Init ==
    /\ share = [s \in Shares |-> NewShare]
    /\ server = [s \in Shares |-> Nowhere]
    /\ lastLink = NoLink /\ clipboard = NoLink /\ copied = {} /\ kept = {}
    /\ offscreen = FALSE
    /\ host \in Origins /\ granted = {DefaultOrigin, host}
    /\ page = [w \in Pages |-> ClosedPage]

Goes(s, step) == share' = [share EXCEPT ![s].step = step]

(* The toast a share ends with.  It is what the share sends to the tab: on *)
(* a page that refuses scripts none of it is seen.                         *)
Ends(s, toast) == share' = [share EXCEPT ![s].step = "ended", ![s].toast = toast]

(* The context menu, the shortcut or the popup's button begins a share.    *)
Begins(s) == share[s].step = "new"

(* The selection is given by the menu or read from the tab, where there    *)
(* may be none, or which no script may enter.                              *)
shareSelection(s) ==
    /\ Begins(s)
    /\ Goes(s, "settings") \/ Ends(s, "select") \/ Ends(s, "no link")
    /\ UNCHANGED <<server, offscreen, linkVars, hostVars, page>>

ReadSettings(s) ==
    /\ share[s].step = "settings"
    /\ share' = [share EXCEPT ![s].step = "checking", ![s].origin = host]
    /\ UNCHANGED <<server, offscreen, linkVars, hostVars, page>>

CheckPermission(s) ==
    /\ share[s].step = "checking"
    /\ IF share[s].origin \in granted THEN Goes(s, "saving") ELSE Ends(s, "grant")
    /\ UNCHANGED <<server, offscreen, linkVars, hostVars, page>>

(* The service stores the secret, and its answer arrives or is lost;       *)
(* without the permission the request is never made.                       *)
createOneTimeLink(s) ==
    /\ share[s].step = "saving"
    /\ \/ /\ share[s].origin \in granted
          /\ server' = [server EXCEPT ![s] = share[s].origin]
          /\ Goes(s, "keeping") \/ Ends(s, "no link")
       \/ Ends(s, "no link") /\ UNCHANGED server
    /\ UNCHANGED <<offscreen, linkVars, hostVars, page>>

(* Mutant: the link is made of the settings.                               *)
LinkOfSettings(s) == [share |-> s, origin |-> host]

LinkOf(s) == [share |-> s, origin |-> share[s].origin]

Keep(s) == lastLink' = LinkOf(s) /\ kept' = kept \cup {s}

(* The link is kept before it is copied; the storage may fail to keep it,  *)
(* and then the share is over, with the error for a toast.                 *)
KeepLastLink(s) ==
    /\ share[s].step = "keeping"
    /\ \/ Keep(s) /\ Goes(s, "finding")
       \/ UNCHANGED <<lastLink, kept>> /\ Ends(s, "not kept")
    /\ UNCHANGED <<server, offscreen, clipboard, copied, hostVars, page>>

(* ensureOffscreenDocument looks, and then creates what it did not find.   *)
FindDocument(s) ==
    /\ share[s].step = "finding"
    /\ Goes(s, IF offscreen THEN "copying" ELSE "creating")
    /\ UNCHANGED <<server, offscreen, linkVars, hostVars, page>>

(* Mutant: a second creation waits for the first.                          *)
CreateWaits(s) ==
    /\ share[s].step = "creating" /\ ~ offscreen
    /\ Goes(s, "copying")
    /\ offscreen' = TRUE
    /\ UNCHANGED <<server, linkVars, hostVars, page>>

(* There is one offscreen document at most: a second creation throws.      *)
CreateDocument(s) ==
    /\ share[s].step = "creating"
    /\ IF offscreen THEN Ends(s, "error") ELSE Goes(s, "copying")
    /\ offscreen' = TRUE
    /\ UNCHANGED <<server, linkVars, hostVars, page>>

(* The offscreen document writes the link to the clipboard.                *)
writeToClipboard(s) == clipboard' = LinkOf(s) /\ copied' = copied \cup {s}

(* Mutant: the answer of the offscreen document is not looked at.          *)
CopyAnyway(s) ==
    /\ share[s].step = "copying"
    /\ Ends(s, "copied")
    /\ writeToClipboard(s) \/ UNCHANGED <<clipboard, copied>>
    /\ UNCHANGED <<server, offscreen, lastLink, kept, hostVars, page>>

(* The document copies or fails to, or it is not there to listen yet.      *)
copyToClipboard(s) ==
    /\ share[s].step = "copying"
    /\ \/ writeToClipboard(s) /\ Ends(s, "copied")
       \/ UNCHANGED <<clipboard, copied>> /\ (Ends(s, "open popup") \/ Ends(s, "error"))
    /\ UNCHANGED <<server, offscreen, lastLink, kept, hostVars, page>>

ShareStep(s) ==
    \/ ReadSettings(s) \/ CheckPermission(s) \/ createOneTimeLink(s) \/ KeepLastLink(s)
    \/ FindDocument(s) \/ CreateDocument(s) \/ copyToClipboard(s)

(* A page shows the last link of the moment it opens.                      *)
OpenPage(w) ==
    /\ ~ page[w].open
    /\ page' = [page EXCEPT ![w].open = TRUE, ![w].shown = lastLink]
    /\ UNCHANGED <<shareVars, linkVars, hostVars>>

(* What the page awaits, and what may come of it without the page: a       *)
(* question is answered, a write or a removal is done all the same.        *)
Awaited(w) ==
    CASE page[w].step = "requesting" -> granted' = granted \cup {page[w].origin} /\ UNCHANGED host
      [] page[w].step = "writing" -> host' = page[w].origin /\ UNCHANGED granted
      [] page[w].step = "removing" -> granted' = granted \ {page[w].previous} /\ UNCHANGED host
      [] OTHER -> UNCHANGED hostVars

(* A popup closes when it loses the focus, whatever it awaits.             *)
ClosePage(w) ==
    /\ page[w].open
    /\ page' = [page EXCEPT ![w] = ClosedPage]
    /\ Awaited(w) \/ UNCHANGED hostVars
    /\ UNCHANGED <<shareVars, linkVars>>

CopyLast(w) ==
    /\ page[w].open /\ page[w].shown # NoLink
    /\ clipboard' = page[w].shown
    /\ copied' = copied \cup {page[w].shown.share}
    /\ UNCHANGED <<shareVars, lastLink, kept, hostVars, page>>

(* "Clear" removes the last link there is, whichever the page shows.       *)
ClearLast(w) ==
    /\ page[w].open /\ page[w].shown # NoLink
    /\ lastLink' = NoLink
    /\ page' = [page EXCEPT ![w].stale = TRUE]
    /\ UNCHANGED <<shareVars, clipboard, copied, kept, hostVars>>

(* And then the page shows what there is by now.                           *)
renderLastLink(w) ==
    /\ page[w].stale
    /\ page' = [page EXCEPT ![w].shown = lastLink, ![w].stale = FALSE]
    /\ UNCHANGED <<shareVars, linkVars, hostVars>>

AtRest(w) == [page[w] EXCEPT !.step = "idle", !.origin = DefaultOrigin, !.previous = DefaultOrigin]

(* The host is checked, and the permission is asked for.                   *)
SaveHost(w, h) ==
    /\ page[w].open /\ page[w].step = "idle" /\ OriginAccepted(h)
    /\ page' = [page EXCEPT ![w].step = "requesting", ![w].origin = normalizeOrigin(h)]
    /\ UNCHANGED <<shareVars, linkVars, hostVars>>

(* The user grants it, or declines what was not granted before.            *)
PermissionAnswered(w) ==
    /\ page[w].step = "requesting"
    /\ \/ /\ granted' = granted \cup {page[w].origin}
          /\ page' = [page EXCEPT ![w].step = "reading"]
       \/ /\ page[w].origin \notin granted
          /\ page' = [page EXCEPT ![w] = AtRest(w)]
          /\ UNCHANGED granted
    /\ UNCHANGED <<shareVars, linkVars, host>>

ReadPrevious(w) ==
    /\ page[w].step = "reading"
    /\ page' = [page EXCEPT ![w].step = "writing", ![w].previous = host]
    /\ UNCHANGED <<shareVars, linkVars, hostVars>>

(* Mutant: saving the same host again drops its grant.                     *)
DropsGrantAlways(w) == page[w].previous # DefaultOrigin

(* What is dropped is the grant of the server that was switched away from, *)
(* but never the required one.                                             *)
DropsGrant(w) == page[w].previous \notin {page[w].origin, DefaultOrigin}

WriteHost(w) ==
    /\ page[w].step = "writing"
    /\ host' = page[w].origin
    /\ page' = [page EXCEPT ![w] =
           IF DropsGrant(w) THEN [@ EXCEPT !.step = "removing"] ELSE AtRest(w)]
    /\ UNCHANGED <<shareVars, linkVars, granted>>

(* An error is ignored.                                                    *)
RemoveGrant(w) ==
    /\ page[w].step = "removing"
    /\ granted' \in {granted, granted \ {page[w].previous}}
    /\ page' = [page EXCEPT ![w] = AtRest(w)]
    /\ UNCHANGED <<shareVars, linkVars, host>>

PageStep(w) ==
    \/ PermissionAnswered(w) \/ ReadPrevious(w) \/ WriteHost(w) \/ RemoveGrant(w)

Next ==
    \/ \E s \in Shares : shareSelection(s) \/ ShareStep(s)
    \/ \E w \in Pages :
          \/ OpenPage(w) \/ ClosePage(w) \/ CopyLast(w) \/ ClearLast(w) \/ renderLastLink(w)
          \/ \E h \in HostTexts : SaveHost(w, h)
          \/ PageStep(w)

Spec == Init /\ [][Next]_vars

FairSpec == Spec /\ \A s \in Shares : WF_vars(ShareStep(s))
------------------------------------------------------------------------------
(* A link names the server its secret is stored at, although the settings  *)
(* may change while it is made.                                            *)
LinkNamesItsServer ==
    \A link \in {lastLink, clipboard} \ {NoLink} : server[link.share] = link.origin

(* The toast says "copied" of a link that was on the clipboard; and a link *)
(* that the storage took is not lost with what fails after it: whatever    *)
(* the toast, it could be had from the pages, until another share or       *)
(* "clear" took its place.                                                 *)
ToastIsTrue ==
    \A s \in Shares :
        /\ share[s].toast = "copied" => s \in copied
        /\ share[s].toast \in {"copied", "open popup", "error"} => s \in kept

(* The server in the settings is one the extension may talk to.            *)
HostIsGranted == host \in granted

(* A share ends, and sends the tab a toast that says how.                  *)
SharesEnd == \A s \in Shares : (share[s].step # "new") ~> (share[s].toast # "none")
==============================================================================
