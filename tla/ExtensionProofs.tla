--------------------------- MODULE ExtensionProofs ---------------------------
(***************************************************************************)
(* Proofs about the extension, for any shares, pages and hosts.            *)
(***************************************************************************)
EXTENDS Extension, TLAPS

ShareRecord == [step : Steps, origin : Origins, toast : Toasts]
PageRecord == [open : BOOLEAN, shown : LinksOfShares \cup {NoLink}, stale : BOOLEAN,
               step : {"idle", "requesting", "reading", "writing", "removing"},
               origin : Origins, previous : Origins]

(* The steps of a share whose link may be in other hands.                  *)
Handed == {"finding", "creating", "copying", "ended"}

(* A link that is held anywhere names its server for good: the share will  *)
(* not store its secret again.                                             *)
Named(link) ==
    link # NoLink => server[link.share] = link.origin /\ share[link.share].step \in Handed

(* What holds of each share: where its secret is, once it is stored, and   *)
(* what its toast may say.                                                 *)
Sound(s) ==
    /\ share[s].step \in {"keeping", "finding", "creating", "copying"} =>
          server[s] = share[s].origin
    /\ share[s].step \in {"finding", "creating", "copying"} => s \in kept
    /\ share[s].toast # "none" => share[s].step = "ended"
    /\ share[s].toast = "copied" => s \in copied
    /\ share[s].toast \in {"copied", "open popup", "error"} => s \in kept

LinkInv ==
    /\ TypeOK
    /\ Named(lastLink) /\ Named(clipboard)
    /\ \A w \in Pages : Named(page[w].shown)
    /\ \A s \in Shares : Sound(s)
------------------------------------------------------------------------------
(* The default server is a host typed without a scheme.                    *)
LEMMA DefaultIsOrigin == DefaultOrigin \in Origins /\ Nowhere \notin Origins
<1>1. Unnamed \in HostTexts /\ OriginAccepted(Unnamed)
  BY LinkProtocolAssumption DEF Unnamed, HostTexts, OriginAccepted
<1>2. DefaultOrigin \in Origins
  BY <1>1 DEF DefaultOrigin, Origins
<1>3. ASSUME NEW h \in HostTexts PROVE normalizeOrigin(h).scheme # "none"
  BY DEF HostTexts, normalizeOrigin
<1>4. Nowhere.scheme = "none"
  BY DEF Nowhere
<1> QED BY <1>2, <1>3, <1>4 DEF Origins

(* A host that is accepted names an origin.                                *)
LEMMA NormalizedIsOrigin ==
    ASSUME NEW h \in HostTexts, OriginAccepted(h)
    PROVE  normalizeOrigin(h) \in Origins
BY DEF Origins

(* No share makes the link that stands for none.                           *)
LEMMA NoLinkIsNone == NoLink \notin LinksOfShares
BY DefaultIsOrigin DEF NoLink, LinksOfShares

(* The type invariant, with its records named.                             *)
LEMMA TypeUnfolded ==
    TypeOK <=>
        /\ share \in [Shares -> ShareRecord]
        /\ server \in [Shares -> Origins \cup {Nowhere}]
        /\ lastLink \in LinksOfShares \cup {NoLink}
        /\ clipboard \in LinksOfShares \cup {NoLink}
        /\ copied \subseteq Shares /\ kept \subseteq Shares
        /\ offscreen \in BOOLEAN
        /\ host \in Origins /\ granted \subseteq Origins
        /\ page \in [Pages -> PageRecord]
BY DEF TypeOK, ShareRecord, PageRecord

(* A share that goes on, or ends.                                          *)
LEMMA GoesOn ==
    ASSUME NEW s \in Shares, share \in [Shares -> ShareRecord],
           NEW step \in Steps, Goes(s, step)
    PROVE  /\ share' \in [Shares -> ShareRecord]
           /\ \A t \in Shares \ {s} : share'[t] = share[t]
           /\ share'[s].step = step
           /\ share'[s].origin = share[s].origin /\ share'[s].toast = share[s].toast
<1> DEFINE r == [share[s] EXCEPT !.step = step]
<1>1. share[s] \in ShareRecord OBVIOUS
<1>2. r \in ShareRecord BY <1>1 DEF ShareRecord
<1>3. r.step = step /\ r.origin = share[s].origin /\ r.toast = share[s].toast
  BY <1>1 DEF ShareRecord
<1>4. share' = [share EXCEPT ![s] = r] BY DEF Goes
<1> HIDE DEF r
<1> QED BY <1>2, <1>3, <1>4

LEMMA EndsIn ==
    ASSUME NEW s \in Shares, share \in [Shares -> ShareRecord],
           NEW toast \in Toasts, Ends(s, toast)
    PROVE  /\ share' \in [Shares -> ShareRecord]
           /\ \A t \in Shares \ {s} : share'[t] = share[t]
           /\ share'[s].step = "ended" /\ share'[s].toast = toast
           /\ share'[s].origin = share[s].origin
<1> DEFINE r == [share[s] EXCEPT !.step = "ended", !.toast = toast]
<1>1. share[s] \in ShareRecord OBVIOUS
<1>2. r \in ShareRecord BY <1>1 DEF ShareRecord, Steps
<1>3. r.step = "ended" /\ r.origin = share[s].origin /\ r.toast = toast
  BY <1>1 DEF ShareRecord
<1>4. share' = [share EXCEPT ![s] = r] BY DEF Ends
<1> HIDE DEF r
<1> QED BY <1>2, <1>3, <1>4

(* A share's link names the share and the origin it went to.               *)
LEMMA LinkIsTyped ==
    ASSUME NEW s \in Shares, share \in [Shares -> ShareRecord]
    PROVE  /\ LinkOf(s) \in LinksOfShares
           /\ LinkOf(s).share = s /\ LinkOf(s).origin = share[s].origin
BY DEF LinkOf, LinksOfShares, ShareRecord
------------------------------------------------------------------------------
(* Nothing is handed out at first.                                         *)
LEMMA LinkInit == Init => LinkInv
<1> SUFFICES ASSUME Init PROVE LinkInv OBVIOUS
<1>1. NewShare \in ShareRecord
  BY DefaultIsOrigin DEF NewShare, ShareRecord, Steps, Toasts
<1>2. ClosedPage \in PageRecord
  BY DefaultIsOrigin DEF ClosedPage, PageRecord
<1>3. TypeOK
  BY <1>1, <1>2, TypeUnfolded, DefaultIsOrigin DEF Init
<1>4. \A s \in Shares : Sound(s)
  BY DEF Init, Sound, NewShare
<1>5. Named(lastLink) /\ Named(clipboard) /\ \A w \in Pages : Named(page[w].shown)
  BY DEF Init, Named, ClosedPage
<1> QED BY <1>3, <1>4, <1>5 DEF LinkInv

(* A share that moves and leaves links, servers and pages alone keeps the  *)
(* invariant when it is sound afterwards.                                  *)
LEMMA ShareMoves ==
    ASSUME LinkInv, NEW s \in Shares,
           share' \in [Shares -> ShareRecord],
           \A t \in Shares \ {s} : share'[t] = share[t],
           share[s].step \in Handed => share'[s].step \in Handed,
           offscreen' \in BOOLEAN,
           UNCHANGED <<server, lastLink, clipboard, copied, kept, hostVars, page>>,
           Sound(s)'
    PROVE  LinkInv'
<1>1. TypeOK'
  BY TypeUnfolded DEF LinkInv, hostVars, TypeOK, ShareRecord
<1>2. ASSUME NEW link \in LinksOfShares \cup {NoLink}, Named(link)
      PROVE  Named(link)'
  <2>1. CASE link = NoLink BY <2>1 DEF Named
  <2>2. CASE link # NoLink
    <3>1. link.share \in Shares BY <2>2 DEF LinksOfShares
    <3> QED BY <3>1, <2>2, <1>2 DEF Named
  <2> QED BY <2>1, <2>2
<1>3. Named(lastLink)' /\ Named(clipboard)'
  BY <1>2 DEF LinkInv, TypeOK
<1>4. ASSUME NEW w \in Pages PROVE Named(page[w].shown)'
  <2>1. page[w].shown \in LinksOfShares \cup {NoLink} /\ Named(page[w].shown)
    BY DEF LinkInv, TypeOK
  <2> QED BY <2>1, <1>2
<1>5. ASSUME NEW t \in Shares PROVE Sound(t)'
  <2>1. CASE t = s BY <2>1
  <2>2. CASE t # s BY <2>2 DEF LinkInv, Sound
  <2> QED BY <2>1, <2>2
<1> QED BY <1>1, <1>3, <1>4, <1>5 DEF LinkInv

(* A share begins, or has nothing to share.                                *)
LEMMA SelectionKeeps ==
    ASSUME LinkInv, NEW s \in Shares, shareSelection(s)
    PROVE  LinkInv'
<1>0. share \in [Shares -> ShareRecord] /\ offscreen \in BOOLEAN /\ Sound(s)
  BY TypeUnfolded DEF LinkInv
<1>1. share[s].step = "new" BY DEF shareSelection, Begins
<1>2. UNCHANGED <<server, offscreen, lastLink, clipboard, copied, kept, hostVars, page>>
  BY DEF shareSelection, linkVars
<1>3. CASE Goes(s, "settings")
  <2>1. "settings" \in Steps BY DEF Steps
  <2>2. Sound(s)' BY <1>0, <1>1, <1>2, <1>3, <2>1, GoesOn DEF Sound
  <2> QED BY <1>0, <1>1, <1>2, <1>3, <2>1, <2>2, GoesOn, ShareMoves DEF Handed
<1>4. ASSUME NEW toast \in {"select", "no link"}, Ends(s, toast) PROVE LinkInv'
  <2>1. toast \in Toasts BY DEF Toasts
  <2>2. Sound(s)' BY <1>0, <1>1, <1>2, <1>4, <2>1, EndsIn DEF Sound
  <2> QED BY <1>0, <1>1, <1>2, <1>4, <2>1, <2>2, EndsIn, ShareMoves DEF Handed
<1> QED BY <1>3, <1>4 DEF shareSelection

(* A share takes the server from the settings.                             *)
LEMMA SettingsKeep ==
    ASSUME LinkInv, NEW s \in Shares, ReadSettings(s)
    PROVE  LinkInv'
<1> DEFINE r == [share[s] EXCEPT !.step = "checking", !.origin = host]
<1>0. /\ share \in [Shares -> ShareRecord] /\ share[s] \in ShareRecord
      /\ offscreen \in BOOLEAN /\ host \in Origins /\ Sound(s)
  BY TypeUnfolded DEF LinkInv
<1>1. r \in ShareRecord BY <1>0 DEF ShareRecord, Steps
<1>2. r.step = "checking" /\ r.toast = share[s].toast BY <1>0 DEF ShareRecord
<1>3. share' = [share EXCEPT ![s] = r] /\ share[s].step = "settings" BY DEF ReadSettings
<1> HIDE DEF r
<1>4. /\ share' \in [Shares -> ShareRecord] /\ share'[s] = r
      /\ \A t \in Shares \ {s} : share'[t] = share[t]
  BY <1>0, <1>1, <1>3
<1>5. UNCHANGED <<server, offscreen, lastLink, clipboard, copied, kept, hostVars, page>>
  BY DEF ReadSettings, linkVars
<1>6. Sound(s)' BY <1>0, <1>2, <1>3, <1>4, <1>5 DEF Sound
<1> QED BY <1>0, <1>3, <1>4, <1>5, <1>6, ShareMoves DEF Handed

(* A share looks at the grant of its server.                               *)
LEMMA PermissionKeeps ==
    ASSUME LinkInv, NEW s \in Shares, CheckPermission(s)
    PROVE  LinkInv'
<1>0. share \in [Shares -> ShareRecord] /\ offscreen \in BOOLEAN /\ Sound(s)
  BY TypeUnfolded DEF LinkInv
<1>1. share[s].step = "checking" BY DEF CheckPermission
<1>2. UNCHANGED <<server, offscreen, lastLink, clipboard, copied, kept, hostVars, page>>
  BY DEF CheckPermission, linkVars
<1>3. CASE Goes(s, "saving")
  <2>1. "saving" \in Steps BY DEF Steps
  <2>2. Sound(s)' BY <1>0, <1>1, <1>2, <1>3, <2>1, GoesOn DEF Sound
  <2> QED BY <1>0, <1>1, <1>2, <1>3, <2>1, <2>2, GoesOn, ShareMoves DEF Handed
<1>4. CASE Ends(s, "grant")
  <2>1. "grant" \in Toasts BY DEF Toasts
  <2>2. Sound(s)' BY <1>0, <1>1, <1>2, <1>4, <2>1, EndsIn DEF Sound
  <2> QED BY <1>0, <1>1, <1>2, <1>4, <2>1, <2>2, EndsIn, ShareMoves DEF Handed
<1> QED BY <1>3, <1>4 DEF CheckPermission

(* A share looks for the offscreen document.                               *)
LEMMA FindKeeps ==
    ASSUME LinkInv, NEW s \in Shares, FindDocument(s)
    PROVE  LinkInv'
<1>0. share \in [Shares -> ShareRecord] /\ offscreen \in BOOLEAN /\ Sound(s)
  BY TypeUnfolded DEF LinkInv
<1>1. share[s].step = "finding" BY DEF FindDocument
<1>2. UNCHANGED <<server, offscreen, lastLink, clipboard, copied, kept, hostVars, page>>
  BY DEF FindDocument, linkVars
<1>3. PICK step \in {"copying", "creating"} : Goes(s, step) BY DEF FindDocument
<1>4. step \in Steps BY DEF Steps
<1>5. Sound(s)' BY <1>0, <1>1, <1>2, <1>3, <1>4, GoesOn DEF Sound
<1> QED BY <1>0, <1>1, <1>2, <1>3, <1>4, <1>5, GoesOn, ShareMoves DEF Handed

(* A share creates the offscreen document, or cannot.                      *)
LEMMA CreateKeeps ==
    ASSUME LinkInv, NEW s \in Shares, CreateDocument(s)
    PROVE  LinkInv'
<1>0. share \in [Shares -> ShareRecord] /\ Sound(s)
  BY TypeUnfolded DEF LinkInv
<1>1. share[s].step = "creating" /\ offscreen' \in BOOLEAN BY DEF CreateDocument
<1>2. UNCHANGED <<server, lastLink, clipboard, copied, kept, hostVars, page>>
  BY DEF CreateDocument, linkVars
<1>3. CASE Goes(s, "copying")
  <2>1. "copying" \in Steps BY DEF Steps
  <2>2. Sound(s)' BY <1>0, <1>1, <1>2, <1>3, <2>1, GoesOn DEF Sound
  <2> QED BY <1>0, <1>1, <1>2, <1>3, <2>1, <2>2, GoesOn, ShareMoves DEF Handed
<1>4. CASE Ends(s, "error")
  <2>1. "error" \in Toasts BY DEF Toasts
  <2>2. Sound(s)' BY <1>0, <1>1, <1>2, <1>4, <2>1, EndsIn DEF Sound
  <2> QED BY <1>0, <1>1, <1>2, <1>4, <2>1, <2>2, EndsIn, ShareMoves DEF Handed
<1> QED BY <1>3, <1>4 DEF CreateDocument

(* A secret is stored: no link names this share yet, so none turns false.  *)
LEMMA SaveKeeps ==
    ASSUME LinkInv, NEW s \in Shares, createOneTimeLink(s)
    PROVE  LinkInv'
<1>0. /\ share \in [Shares -> ShareRecord] /\ share[s] \in ShareRecord
      /\ server \in [Shares -> Origins \cup {Nowhere}]
      /\ offscreen \in BOOLEAN /\ Sound(s)
  BY TypeUnfolded DEF LinkInv
<1>1. share[s].step = "saving" BY DEF createOneTimeLink
<1>2. UNCHANGED <<offscreen, lastLink, clipboard, copied, kept, host, granted, page>>
  BY DEF createOneTimeLink, linkVars, hostVars
<1>3. \/ Goes(s, "keeping") /\ server' = [server EXCEPT ![s] = share[s].origin]
      \/ /\ Ends(s, "no link")
         /\ server' = [server EXCEPT ![s] = share[s].origin] \/ UNCHANGED server
  BY DEF createOneTimeLink
<1>4. /\ share' \in [Shares -> ShareRecord]
      /\ \A t \in Shares \ {s} : share'[t] = share[t]
      /\ share'[s].origin = share[s].origin
      /\ \/ /\ share'[s].step = "keeping" /\ share'[s].toast = share[s].toast
            /\ server' = [server EXCEPT ![s] = share[s].origin]
         \/ share'[s].step = "ended" /\ share'[s].toast = "no link"
  <2>1. "keeping" \in Steps /\ "no link" \in Toasts BY DEF Steps, Toasts
  <2>2. CASE Goes(s, "keeping") /\ server' = [server EXCEPT ![s] = share[s].origin]
    BY <1>0, <2>1, <2>2, GoesOn
  <2>3. CASE Ends(s, "no link")
    BY <1>0, <2>1, <2>3, EndsIn
  <2> QED BY <1>3, <2>2, <2>3
<1>5. /\ server' \in [Shares -> Origins \cup {Nowhere}]
      /\ \A t \in Shares \ {s} : server'[t] = server[t]
  <2>1. share[s].origin \in Origins BY <1>0 DEF ShareRecord
  <2> QED BY <1>0, <1>3, <2>1
<1>6. TypeOK'
  BY <1>2, <1>4, <1>5, TypeUnfolded DEF LinkInv, TypeOK, ShareRecord
<1>7. ASSUME NEW link \in LinksOfShares \cup {NoLink}, Named(link)
      PROVE  Named(link)'
  <2>1. CASE link = NoLink BY <2>1 DEF Named
  <2>2. CASE link # NoLink
    <3>1. link.share \in Shares BY <2>2 DEF LinksOfShares
    <3>2. link.share # s BY <2>2, <1>7, <1>1 DEF Named, Handed
    <3> QED BY <3>1, <3>2, <2>2, <1>4, <1>5, <1>7 DEF Named
  <2> QED BY <2>1, <2>2
<1>8. Named(lastLink)' /\ Named(clipboard)'
  BY <1>2, <1>7 DEF LinkInv, TypeOK
<1>9. ASSUME NEW w \in Pages PROVE Named(page[w].shown)'
  <2>1. page[w].shown \in LinksOfShares \cup {NoLink} /\ Named(page[w].shown)
    BY DEF LinkInv, TypeOK
  <2> QED BY <2>1, <1>2, <1>7
<1>10. ASSUME NEW t \in Shares PROVE Sound(t)'
  <2>1. CASE t = s
    <3>1. server' = [server EXCEPT ![s] = share[s].origin] => server'[s] = share[s].origin
      BY <1>0
    <3> QED BY <2>1, <3>1, <1>0, <1>1, <1>4 DEF Sound
  <2>2. CASE t # s BY <2>2, <1>2, <1>4, <1>5 DEF LinkInv, Sound
  <2> QED BY <2>1, <2>2
<1> QED BY <1>6, <1>8, <1>9, <1>10 DEF LinkInv

(* A share that hands out its own link: as the last one, or to the         *)
(* clipboard.                                                              *)
LEMMA HandedOut ==
    ASSUME LinkInv, NEW s \in Shares,
           share[s].step \in {"keeping", "copying"},
           share' \in [Shares -> ShareRecord],
           \A t \in Shares \ {s} : share'[t] = share[t],
           share'[s].step \in Handed, share'[s].origin = share[s].origin,
           lastLink' \in {lastLink, LinkOf(s)}, clipboard' \in {clipboard, LinkOf(s)},
           copied' \in {copied, copied \cup {s}}, kept' \in {kept, kept \cup {s}},
           UNCHANGED <<server, offscreen, host, granted, page>>,
           Sound(s)'
    PROVE  LinkInv'
<1>0. /\ share \in [Shares -> ShareRecord] /\ share[s] \in ShareRecord
      /\ lastLink \in LinksOfShares \cup {NoLink}
      /\ clipboard \in LinksOfShares \cup {NoLink}
  BY TypeUnfolded DEF LinkInv
<1>1. /\ LinkOf(s) \in LinksOfShares
      /\ LinkOf(s).share = s /\ LinkOf(s).origin = share[s].origin
  BY <1>0, LinkIsTyped
<1>2. TypeOK'
  <2>1. lastLink' \in LinksOfShares \cup {NoLink} /\ clipboard' \in LinksOfShares \cup {NoLink}
    BY <1>0, <1>1
  <2>2. copied' \subseteq Shares /\ kept' \subseteq Shares
    BY DEF LinkInv, TypeOK
  <2> QED BY <2>1, <2>2, TypeUnfolded DEF LinkInv, TypeOK, ShareRecord
<1>3. server[s] = share[s].origin
  BY DEF LinkInv, Sound
<1>4. ASSUME NEW link \in LinksOfShares \cup {NoLink}, Named(link)
      PROVE  link # NoLink =>
               server'[link.share] = link.origin /\ share'[link.share].step \in Handed
  <2> SUFFICES ASSUME link # NoLink
               PROVE  server'[link.share] = link.origin /\ share'[link.share].step \in Handed
    OBVIOUS
  <2>1. link.share \in Shares BY DEF LinksOfShares
  <2>2. server[link.share] = link.origin /\ share[link.share].step \in Handed
    BY <1>4 DEF Named
  <2> QED BY <2>1, <2>2
<1>5. server'[LinkOf(s).share] = LinkOf(s).origin /\ share'[LinkOf(s).share].step \in Handed
  BY <1>1, <1>3
<1>6. Named(lastLink)'
  <2>1. CASE lastLink' = lastLink BY <2>1, <1>0, <1>4 DEF LinkInv, Named
  <2>2. CASE lastLink' = LinkOf(s) BY <2>2, <1>5 DEF Named
  <2> QED BY <2>1, <2>2
<1>7. Named(clipboard)'
  <2>1. CASE clipboard' = clipboard BY <2>1, <1>0, <1>4 DEF LinkInv, Named
  <2>2. CASE clipboard' = LinkOf(s) BY <2>2, <1>5 DEF Named
  <2> QED BY <2>1, <2>2
<1>8. ASSUME NEW w \in Pages PROVE Named(page[w].shown)'
  <2>1. page[w].shown \in LinksOfShares \cup {NoLink} /\ Named(page[w].shown)
    BY DEF LinkInv, TypeOK
  <2> QED BY <2>1, <1>4 DEF Named
<1>9. ASSUME NEW t \in Shares PROVE Sound(t)'
  <2>1. CASE t = s BY <2>1
  <2>2. CASE t # s BY <2>2 DEF LinkInv, Sound
  <2> QED BY <2>1, <2>2
<1> QED BY <1>2, <1>6, <1>7, <1>8, <1>9 DEF LinkInv

(* The link is handed to the pages, or the storage does not take it.       *)
LEMMA KeepKeeps ==
    ASSUME LinkInv, NEW s \in Shares, KeepLastLink(s)
    PROVE  LinkInv'
<1>0. share \in [Shares -> ShareRecord] /\ offscreen \in BOOLEAN /\ Sound(s)
  BY TypeUnfolded DEF LinkInv
<1>1. /\ share[s].step = "keeping"
      /\ UNCHANGED <<server, offscreen, clipboard, copied, host, granted, page>>
  BY DEF KeepLastLink, hostVars
<1>2. CASE Goes(s, "finding") /\ lastLink' = LinkOf(s) /\ kept' = kept \cup {s}
  <2>1. "finding" \in Steps BY DEF Steps
  <2>2. /\ share' \in [Shares -> ShareRecord]
        /\ \A t \in Shares \ {s} : share'[t] = share[t]
        /\ share'[s].step = "finding"
        /\ share'[s].origin = share[s].origin /\ share'[s].toast = share[s].toast
    BY <1>0, <1>2, <2>1, GoesOn
  <2>3. Sound(s)' BY <1>0, <1>1, <1>2, <2>2 DEF Sound
  <2> QED BY <1>1, <1>2, <2>2, <2>3, HandedOut DEF Handed
<1>3. CASE Ends(s, "not kept") /\ UNCHANGED <<lastLink, kept>>
  <2>1. "not kept" \in Toasts BY DEF Toasts
  <2>2. Sound(s)' BY <1>0, <1>1, <1>3, <2>1, EndsIn DEF Sound
  <2>3. UNCHANGED <<server, lastLink, clipboard, copied, kept, hostVars, page>>
    BY <1>1, <1>3 DEF hostVars
  <2> QED BY <1>0, <1>1, <1>3, <2>1, <2>2, <2>3, EndsIn, ShareMoves DEF Handed
<1> QED BY <1>2, <1>3 DEF KeepLastLink, Keep

(* The link is handed to the clipboard, or the toast says that it is not.  *)
LEMMA CopyKeeps ==
    ASSUME LinkInv, NEW s \in Shares, copyToClipboard(s)
    PROVE  LinkInv'
<1>0. share \in [Shares -> ShareRecord] /\ Sound(s)
  BY TypeUnfolded DEF LinkInv
<1>1. /\ share[s].step = "copying"
      /\ UNCHANGED <<server, offscreen, lastLink, kept, host, granted, page>>
  BY DEF copyToClipboard, hostVars
<1>2. PICK toast \in {"copied", "open popup", "error"} :
        /\ Ends(s, toast)
        /\ \/ clipboard' = LinkOf(s) /\ copied' = copied \cup {s}
           \/ toast # "copied" /\ UNCHANGED <<clipboard, copied>>
  BY DEF copyToClipboard, writeToClipboard
<1>3. toast \in Toasts BY DEF Toasts
<1>4. /\ share' \in [Shares -> ShareRecord]
      /\ \A t \in Shares \ {s} : share'[t] = share[t]
      /\ share'[s].step = "ended" /\ share'[s].toast = toast
      /\ share'[s].origin = share[s].origin
  BY <1>0, <1>2, <1>3, EndsIn
<1>5. Sound(s)' BY <1>0, <1>1, <1>2, <1>4 DEF Sound
<1> QED BY <1>1, <1>2, <1>4, <1>5, HandedOut DEF Handed
------------------------------------------------------------------------------
(* A page that moves, and shows what it showed, the last link or nothing.  *)
LEMMA PageMoves ==
    ASSUME LinkInv, NEW w \in Pages, NEW r \in PageRecord,
           page' = [page EXCEPT ![w] = r],
           r.shown \in {page[w].shown, lastLink, NoLink},
           lastLink' \in {lastLink, NoLink},
           host' \in Origins, granted' \subseteq Origins,
           UNCHANGED <<shareVars, clipboard, copied, kept>>
    PROVE  LinkInv'
<1>0. /\ page \in [Pages -> PageRecord] /\ lastLink \in LinksOfShares \cup {NoLink}
      /\ UNCHANGED <<share, server, offscreen, clipboard, copied, kept>>
  BY TypeUnfolded DEF LinkInv, shareVars
<1>1. page' \in [Pages -> PageRecord] /\ page'[w] = r /\ \A v \in Pages \ {w} : page'[v] = page[v]
  BY <1>0
<1>2. lastLink' \in LinksOfShares \cup {NoLink}
  BY <1>0
<1>3. TypeOK'
  BY <1>0, <1>1, <1>2, TypeUnfolded DEF LinkInv, TypeOK, PageRecord
<1>4. Named(NoLink)' BY DEF Named
<1>5. Named(lastLink)'
  BY <1>0 DEF LinkInv, Named
<1>6. Named(clipboard)'
  BY <1>0 DEF LinkInv, Named
<1>7. ASSUME NEW v \in Pages PROVE Named(page[v].shown)'
  <2>1. CASE v = w
    <3>1. CASE r.shown = page[w].shown
      BY <2>1, <3>1, <1>0, <1>1 DEF LinkInv, Named
    <3>2. CASE r.shown = lastLink
      BY <2>1, <3>2, <1>0, <1>1 DEF LinkInv, Named
    <3>3. CASE r.shown = NoLink
      BY <2>1, <3>3, <1>0, <1>1 DEF Named
    <3> QED BY <3>1, <3>2, <3>3
  <2>2. CASE v # w
    BY <2>2, <1>0, <1>1 DEF LinkInv, Named
  <2> QED BY <2>1, <2>2
<1>8. ASSUME NEW t \in Shares PROVE Sound(t)'
  BY <1>0 DEF LinkInv, Sound
<1> QED BY <1>3, <1>5, <1>6, <1>7, <1>8 DEF LinkInv

(* The parts of the type invariant that the pages read.                    *)
LEMMA PagesTyped ==
    ASSUME LinkInv, NEW w \in Pages
    PROVE  /\ page \in [Pages -> PageRecord] /\ page[w] \in PageRecord
           /\ page[w].origin \in Origins /\ page[w].previous \in Origins
           /\ host \in Origins /\ granted \subseteq Origins
           /\ lastLink \in LinksOfShares \cup {NoLink}
BY TypeUnfolded DEF LinkInv, PageRecord

(* What a page awaits is an origin's grant or a host.                      *)
LEMMA AwaitedTyped ==
    ASSUME LinkInv, NEW w \in Pages, Awaited(w) \/ UNCHANGED hostVars
    PROVE  host' \in Origins /\ granted' \subseteq Origins
<1>1. CASE UNCHANGED hostVars BY <1>1, PagesTyped DEF hostVars
<1>2. CASE Awaited(w) /\ page[w].step = "requesting"
  BY <1>2, PagesTyped DEF Awaited
<1>3. CASE Awaited(w) /\ page[w].step = "writing"
  BY <1>3, PagesTyped DEF Awaited
<1>4. CASE Awaited(w) /\ page[w].step = "removing"
  BY <1>4, PagesTyped DEF Awaited
<1>5. CASE Awaited(w) /\ page[w].step \notin {"requesting", "writing", "removing"}
  BY <1>5, PagesTyped DEF Awaited, hostVars
<1> QED BY <1>1, <1>2, <1>3, <1>4, <1>5

(* A page opens, closes, clears the last link or shows it anew.            *)
LEMMA ShowingKeeps ==
    ASSUME LinkInv, NEW w \in Pages,
           OpenPage(w) \/ ClosePage(w) \/ ClearLast(w) \/ renderLastLink(w)
    PROVE  LinkInv'
<1>1. CASE OpenPage(w)
  <2> DEFINE r == [page[w] EXCEPT !.open = TRUE, !.shown = lastLink]
  <2>1. r \in PageRecord /\ r.shown = lastLink BY PagesTyped DEF PageRecord
  <2>2. /\ page' = [page EXCEPT ![w] = r]
        /\ UNCHANGED <<shareVars, lastLink, clipboard, copied, kept, host, granted>>
    BY <1>1 DEF OpenPage, linkVars, hostVars
  <2> HIDE DEF r
  <2> QED BY <2>1, <2>2, PagesTyped, PageMoves
<1>2. CASE ClosePage(w)
  <2>1. ClosedPage \in PageRecord /\ ClosedPage.shown = NoLink
    BY DefaultIsOrigin DEF ClosedPage, PageRecord
  <2>2. /\ page' = [page EXCEPT ![w] = ClosedPage]
        /\ UNCHANGED <<shareVars, lastLink, clipboard, copied, kept>>
        /\ Awaited(w) \/ UNCHANGED hostVars
    BY <1>2 DEF ClosePage, linkVars
  <2>3. host' \in Origins /\ granted' \subseteq Origins BY <2>2, AwaitedTyped
  <2> QED BY <2>1, <2>2, <2>3, PageMoves
<1>3. CASE ClearLast(w)
  <2> DEFINE r == [page[w] EXCEPT !.stale = TRUE]
  <2>1. r \in PageRecord /\ r.shown = page[w].shown BY PagesTyped DEF PageRecord
  <2>2. /\ page' = [page EXCEPT ![w] = r] /\ lastLink' = NoLink
        /\ UNCHANGED <<shareVars, clipboard, copied, kept, host, granted>>
    BY <1>3 DEF ClearLast, hostVars
  <2> HIDE DEF r
  <2> QED BY <2>1, <2>2, PagesTyped, PageMoves
<1>4. CASE renderLastLink(w)
  <2> DEFINE r == [page[w] EXCEPT !.shown = lastLink, !.stale = FALSE]
  <2>1. r \in PageRecord /\ r.shown = lastLink BY PagesTyped DEF PageRecord
  <2>2. /\ page' = [page EXCEPT ![w] = r]
        /\ UNCHANGED <<shareVars, lastLink, clipboard, copied, kept, host, granted>>
    BY <1>4 DEF renderLastLink, linkVars, hostVars
  <2> HIDE DEF r
  <2> QED BY <2>1, <2>2, PagesTyped, PageMoves
<1> QED BY <1>1, <1>2, <1>3, <1>4

(* A page copies the link it shows.                                        *)
LEMMA CopyLastKeeps ==
    ASSUME LinkInv, NEW w \in Pages, CopyLast(w)
    PROVE  LinkInv'
<1>1. /\ page[w].shown # NoLink /\ clipboard' = page[w].shown
      /\ copied' = copied \cup {page[w].shown.share}
      /\ UNCHANGED <<share, server, offscreen, lastLink, kept, host, granted, page>>
  BY DEF CopyLast, shareVars, hostVars
<1>2. page[w].shown \in LinksOfShares /\ Named(page[w].shown)
  BY <1>1 DEF LinkInv, TypeOK
<1>3. page[w].shown.share \in Shares BY <1>2 DEF LinksOfShares
<1>4. TypeOK' BY <1>1, <1>2, <1>3 DEF LinkInv, TypeOK
<1>5. Named(clipboard)' /\ Named(lastLink)' /\ \A v \in Pages : Named(page[v].shown)'
  BY <1>1, <1>2 DEF LinkInv, Named
<1>6. \A t \in Shares : Sound(t)' BY <1>1 DEF LinkInv, Sound
<1> QED BY <1>4, <1>5, <1>6 DEF LinkInv

(* A page at rest shows what it showed.                                    *)
LEMMA RestIsTyped ==
    ASSUME LinkInv, NEW w \in Pages
    PROVE  AtRest(w) \in PageRecord /\ AtRest(w).shown = page[w].shown
           /\ AtRest(w).step = "idle"
BY PagesTyped, DefaultIsOrigin DEF AtRest, PageRecord

(* A page saves the host, step by step.                                    *)
LEMMA SettingsPageKeeps ==
    ASSUME LinkInv, NEW w \in Pages,
           (\E h \in HostTexts : SaveHost(w, h)) \/ PageStep(w)
    PROVE  LinkInv'
<1>1. ASSUME NEW h \in HostTexts, SaveHost(w, h) PROVE LinkInv'
  <2> DEFINE r == [page[w] EXCEPT !.step = "requesting", !.origin = normalizeOrigin(h)]
  <2>1. normalizeOrigin(h) \in Origins BY <1>1, NormalizedIsOrigin DEF SaveHost
  <2>2. r \in PageRecord /\ r.shown = page[w].shown BY <2>1, PagesTyped DEF PageRecord
  <2>3. /\ page' = [page EXCEPT ![w] = r]
        /\ UNCHANGED <<shareVars, lastLink, clipboard, copied, kept, host, granted>>
    BY <1>1 DEF SaveHost, linkVars, hostVars
  <2> HIDE DEF r
  <2> QED BY <2>2, <2>3, PagesTyped, PageMoves
<1>2. CASE PermissionAnswered(w)
  <2> DEFINE r == [page[w] EXCEPT !.step = "reading"]
  <2>1. r \in PageRecord /\ r.shown = page[w].shown BY PagesTyped DEF PageRecord
  <2>2. /\ \/ page' = [page EXCEPT ![w] = r]
           \/ page' = [page EXCEPT ![w] = AtRest(w)]
        /\ UNCHANGED <<shareVars, lastLink, clipboard, copied, kept, host>>
    BY <1>2 DEF PermissionAnswered, linkVars
  <2>3. granted' \subseteq Origins BY <1>2, PagesTyped DEF PermissionAnswered
  <2> HIDE DEF r
  <2>4. CASE page' = [page EXCEPT ![w] = r] BY <2>1, <2>2, <2>3, <2>4, PagesTyped, PageMoves
  <2>5. CASE page' = [page EXCEPT ![w] = AtRest(w)]
    BY <2>2, <2>3, <2>5, PagesTyped, RestIsTyped, PageMoves
  <2> QED BY <2>2, <2>4, <2>5
<1>3. CASE ReadPrevious(w)
  <2> DEFINE r == [page[w] EXCEPT !.step = "writing", !.previous = host]
  <2>1. r \in PageRecord /\ r.shown = page[w].shown BY PagesTyped DEF PageRecord
  <2>2. /\ page' = [page EXCEPT ![w] = r]
        /\ UNCHANGED <<shareVars, lastLink, clipboard, copied, kept, host, granted>>
    BY <1>3 DEF ReadPrevious, linkVars, hostVars
  <2> HIDE DEF r
  <2> QED BY <2>1, <2>2, PagesTyped, PageMoves
<1>4. CASE WriteHost(w)
  <2> DEFINE r == [page[w] EXCEPT !.step = "removing"]
  <2>1. r \in PageRecord /\ r.shown = page[w].shown BY PagesTyped DEF PageRecord
  <2>2. /\ page' = [page EXCEPT ![w] = r] \/ page' = [page EXCEPT ![w] = AtRest(w)]
        /\ host' = page[w].origin
        /\ UNCHANGED <<shareVars, lastLink, clipboard, copied, kept, granted>>
    BY <1>4, PagesTyped DEF WriteHost, linkVars
  <2>3. host' \in Origins BY <2>2, PagesTyped
  <2> HIDE DEF r
  <2>4. CASE page' = [page EXCEPT ![w] = r] BY <2>1, <2>2, <2>3, <2>4, PagesTyped, PageMoves
  <2>5. CASE page' = [page EXCEPT ![w] = AtRest(w)]
    BY <2>2, <2>3, <2>5, PagesTyped, RestIsTyped, PageMoves
  <2> QED BY <2>2, <2>4, <2>5
<1>5. CASE RemoveGrant(w)
  <2>1. /\ page' = [page EXCEPT ![w] = AtRest(w)]
        /\ granted' \subseteq granted
        /\ UNCHANGED <<shareVars, lastLink, clipboard, copied, kept, host>>
    BY <1>5 DEF RemoveGrant, linkVars
  <2>2. granted' \subseteq Origins BY <2>1, PagesTyped
  <2> QED BY <2>1, <2>2, PagesTyped, RestIsTyped, PageMoves
<1> QED BY <1>1, <1>2, <1>3, <1>4, <1>5 DEF PageStep
------------------------------------------------------------------------------
(* Every step keeps the invariant.                                         *)
LEMMA LinkStep == LinkInv /\ [Next]_vars => LinkInv'
<1> SUFFICES ASSUME LinkInv, [Next]_vars PROVE LinkInv' OBVIOUS
<1>1. ASSUME NEW s \in Shares, shareSelection(s) \/ ShareStep(s) PROVE LinkInv'
  BY <1>1, SelectionKeeps, SettingsKeep, PermissionKeeps, SaveKeeps, KeepKeeps,
     FindKeeps, CreateKeeps, CopyKeeps DEF ShareStep
<1>2. ASSUME NEW w \in Pages,
             \/ OpenPage(w) \/ ClosePage(w) \/ CopyLast(w) \/ ClearLast(w) \/ renderLastLink(w)
             \/ \E h \in HostTexts : SaveHost(w, h)
             \/ PageStep(w)
      PROVE  LinkInv'
  BY <1>2, ShowingKeeps, CopyLastKeeps, SettingsPageKeeps
<1>3. CASE UNCHANGED vars
  BY <1>3 DEF vars, shareVars, linkVars, hostVars, LinkInv, TypeOK, Named, Sound
<1> QED BY <1>1, <1>2, <1>3 DEF Next

(* The invariant holds in every state, for any shares, pages and hosts.    *)
THEOREM LinkInvariant == Spec => []LinkInv
<1> QED BY LinkInit, LinkStep, PTL DEF Spec

(* For any shares, pages and hosts, and whatever the settings page does    *)
(* meanwhile: a link names the server its secret is stored at.             *)
THEOREM LinksNameTheirServers == Spec => []LinkNamesItsServer
<1>1. LinkInv => LinkNamesItsServer
  BY DEF LinkInv, Named, LinkNamesItsServer
<1> QED BY <1>1, LinkInvariant, PTL

(* For any number of shares in flight: no toast claims what did not        *)
(* happen, and no link that was made is lost with what fails after it.     *)
THEOREM ToastsAreTrue == Spec => []ToastIsTrue
<1>1. LinkInv => ToastIsTrue
  BY DEF LinkInv, Sound, ToastIsTrue
<1> QED BY <1>1, LinkInvariant, PTL
------------------------------------------------------------------------------
(* One page with the settings at a time: the popup, or the tab.            *)
OnePage == \A v, w \in Pages : v = w

(* What a save of the host has done so far: the grant is there before the  *)
(* host is written, and what is dropped afterwards is not the host.        *)
Granting(w) ==
    /\ page[w].step \in {"reading", "writing"} => page[w].origin \in granted
    /\ page[w].step = "removing" => page[w].previous # host

GrantInv == LinkInv /\ host \in granted /\ \A w \in Pages : Granting(w)

(* The first host is granted.                                              *)
LEMMA GrantInit == Init => GrantInv
<1> SUFFICES ASSUME Init PROVE GrantInv OBVIOUS
<1>1. host \in granted /\ \A w \in Pages : Granting(w)
  BY DEF Init, Granting, ClosedPage
<1> QED BY <1>1, LinkInit DEF GrantInv

(* The one page moves to r.                                                *)
LEMMA OnlyPageMoves ==
    ASSUME OnePage, LinkInv, NEW w \in Pages, NEW r \in PageRecord,
           page' = [page EXCEPT ![w] = r],
           r.step \in {"reading", "writing"} => r.origin \in granted',
           r.step = "removing" => r.previous # host'
    PROVE  \A v \in Pages : Granting(v)'
<1> SUFFICES ASSUME NEW v \in Pages PROVE Granting(v)' OBVIOUS
<1>1. v = w BY DEF OnePage
<1>2. page'[w] = r BY PagesTyped
<1> QED BY <1>1, <1>2 DEF Granting

(* A save grants before it writes, and drops another grant than the host's. *)
LEMMA SavingKeepsGrant ==
    ASSUME OnePage, GrantInv, NEW w \in Pages,
           (\E h \in HostTexts : SaveHost(w, h)) \/ PageStep(w)
    PROVE  host' \in granted' /\ \A v \in Pages : Granting(v)'
<1>0. /\ LinkInv /\ host \in granted /\ Granting(w)
      /\ page[w] \in PageRecord /\ page \in [Pages -> PageRecord]
  BY PagesTyped DEF GrantInv
<1>1. ASSUME NEW h \in HostTexts, SaveHost(w, h)
      PROVE  host' \in granted' /\ \A v \in Pages : Granting(v)'
  <2> DEFINE r == [page[w] EXCEPT !.step = "requesting", !.origin = normalizeOrigin(h)]
  <2>1. normalizeOrigin(h) \in Origins BY <1>1, NormalizedIsOrigin DEF SaveHost
  <2>2. r \in PageRecord /\ r.step = "requesting" BY <1>0, <2>1 DEF PageRecord
  <2>3. page' = [page EXCEPT ![w] = r] /\ UNCHANGED <<host, granted>>
    BY <1>1 DEF SaveHost, hostVars
  <2> HIDE DEF r
  <2> QED BY <1>0, <2>2, <2>3, OnlyPageMoves
<1>2. CASE PermissionAnswered(w)
  <2> DEFINE r == [page[w] EXCEPT !.step = "reading"]
  <2>1. r \in PageRecord /\ r.step = "reading" /\ r.origin = page[w].origin
    BY <1>0 DEF PageRecord
  <2>2. \/ page' = [page EXCEPT ![w] = r] /\ granted' = granted \cup {page[w].origin}
        \/ page' = [page EXCEPT ![w] = AtRest(w)] /\ UNCHANGED granted
    BY <1>2 DEF PermissionAnswered
  <2>3. UNCHANGED host BY <1>2 DEF PermissionAnswered
  <2> HIDE DEF r
  <2>4. CASE page' = [page EXCEPT ![w] = r] /\ granted' = granted \cup {page[w].origin}
    BY <1>0, <2>1, <2>3, <2>4, OnlyPageMoves
  <2>5. CASE page' = [page EXCEPT ![w] = AtRest(w)] /\ UNCHANGED granted
    BY <1>0, <2>3, <2>5, RestIsTyped, OnlyPageMoves
  <2> QED BY <2>2, <2>4, <2>5
<1>3. CASE ReadPrevious(w)
  <2> DEFINE r == [page[w] EXCEPT !.step = "writing", !.previous = host]
  <2>1. r \in PageRecord /\ r.step = "writing" /\ r.origin = page[w].origin
    BY <1>0, PagesTyped DEF PageRecord
  <2>2. /\ page' = [page EXCEPT ![w] = r] /\ UNCHANGED <<host, granted>>
        /\ page[w].step = "reading"
    BY <1>3 DEF ReadPrevious, hostVars
  <2>3. page[w].origin \in granted' BY <1>0, <2>2 DEF Granting
  <2> HIDE DEF r
  <2> QED BY <1>0, <2>1, <2>2, <2>3, OnlyPageMoves
<1>4. CASE WriteHost(w)
  <2> DEFINE r == [page[w] EXCEPT !.step = "removing"]
  <2>1. r \in PageRecord /\ r.step = "removing" /\ r.previous = page[w].previous
    BY <1>0 DEF PageRecord
  <2>2. /\ page[w].step = "writing" /\ host' = page[w].origin /\ UNCHANGED granted
        /\ \/ page' = [page EXCEPT ![w] = r] /\ DropsGrant(w)
           \/ page' = [page EXCEPT ![w] = AtRest(w)]
    BY <1>0, <1>4 DEF WriteHost
  <2>3. host' \in granted' BY <1>0, <2>2 DEF Granting
  <2> HIDE DEF r
  <2>4. CASE page' = [page EXCEPT ![w] = r] /\ DropsGrant(w)
    <3>1. page[w].previous # host' BY <2>2, <2>4 DEF DropsGrant
    <3> QED BY <1>0, <2>1, <2>3, <2>4, <3>1, OnlyPageMoves
  <2>5. CASE page' = [page EXCEPT ![w] = AtRest(w)]
    BY <1>0, <2>3, <2>5, RestIsTyped, OnlyPageMoves
  <2> QED BY <2>2, <2>4, <2>5
<1>5. CASE RemoveGrant(w)
  <2>1. /\ page[w].step = "removing" /\ UNCHANGED host
        /\ granted' \in {granted, granted \ {page[w].previous}}
        /\ page' = [page EXCEPT ![w] = AtRest(w)]
    BY <1>5 DEF RemoveGrant
  <2>2. host' \in granted' BY <1>0, <2>1 DEF Granting
  <2> QED BY <1>0, <2>1, <2>2, RestIsTyped, OnlyPageMoves
<1> QED BY <1>1, <1>2, <1>3, <1>4, <1>5 DEF PageStep

(* A page may be closed, or opened, in the middle of a save.               *)
LEMMA ClosingKeepsGrant ==
    ASSUME OnePage, GrantInv, NEW w \in Pages,
           OpenPage(w) \/ ClosePage(w) \/ ClearLast(w) \/ renderLastLink(w)
    PROVE  host' \in granted' /\ \A v \in Pages : Granting(v)'
<1>0. /\ LinkInv /\ host \in granted /\ Granting(w)
      /\ page[w] \in PageRecord /\ page \in [Pages -> PageRecord]
      /\ lastLink \in LinksOfShares \cup {NoLink}
  BY PagesTyped DEF GrantInv
<1>1. ASSUME NEW r \in PageRecord, page' = [page EXCEPT ![w] = r],
             r.step = page[w].step, r.origin = page[w].origin, r.previous = page[w].previous,
             UNCHANGED <<host, granted>>
      PROVE  host' \in granted' /\ \A v \in Pages : Granting(v)'
  BY <1>0, <1>1, OnlyPageMoves DEF Granting
<1>2. CASE OpenPage(w)
  <2> DEFINE r == [page[w] EXCEPT !.open = TRUE, !.shown = lastLink]
  <2>1. /\ r \in PageRecord /\ r.step = page[w].step /\ r.origin = page[w].origin
        /\ r.previous = page[w].previous
    BY <1>0 DEF PageRecord
  <2>2. page' = [page EXCEPT ![w] = r] /\ UNCHANGED <<host, granted>>
    BY <1>2 DEF OpenPage, hostVars
  <2> HIDE DEF r
  <2> QED BY <2>1, <2>2, <1>1
<1>3. CASE ClosePage(w)
  <2>1. ClosedPage \in PageRecord /\ ClosedPage.step = "idle"
    BY DefaultIsOrigin DEF ClosedPage, PageRecord
  <2>2. page' = [page EXCEPT ![w] = ClosedPage] /\ (Awaited(w) \/ UNCHANGED hostVars)
    BY <1>3 DEF ClosePage
  <2>3. host' \in granted'
    <3>1. CASE UNCHANGED hostVars BY <3>1, <1>0 DEF hostVars
    <3>2. CASE Awaited(w) /\ page[w].step = "requesting"
      BY <3>2, <1>0 DEF Awaited
    <3>3. CASE Awaited(w) /\ page[w].step = "writing"
      BY <3>3, <1>0 DEF Awaited, Granting
    <3>4. CASE Awaited(w) /\ page[w].step = "removing"
      BY <3>4, <1>0 DEF Awaited, Granting
    <3>5. CASE Awaited(w) /\ page[w].step \notin {"requesting", "writing", "removing"}
      BY <3>5, <1>0 DEF Awaited, hostVars
    <3> QED BY <2>2, <3>1, <3>2, <3>3, <3>4, <3>5
  <2> QED BY <1>0, <2>1, <2>2, <2>3, OnlyPageMoves
<1>4. CASE ClearLast(w)
  <2> DEFINE r == [page[w] EXCEPT !.stale = TRUE]
  <2>1. /\ r \in PageRecord /\ r.step = page[w].step /\ r.origin = page[w].origin
        /\ r.previous = page[w].previous
    BY <1>0 DEF PageRecord
  <2>2. page' = [page EXCEPT ![w] = r] /\ UNCHANGED <<host, granted>>
    BY <1>4 DEF ClearLast, hostVars
  <2> HIDE DEF r
  <2> QED BY <2>1, <2>2, <1>1
<1>5. CASE renderLastLink(w)
  <2> DEFINE r == [page[w] EXCEPT !.shown = lastLink, !.stale = FALSE]
  <2>1. /\ r \in PageRecord /\ r.step = page[w].step /\ r.origin = page[w].origin
        /\ r.previous = page[w].previous
    BY <1>0 DEF PageRecord
  <2>2. page' = [page EXCEPT ![w] = r] /\ UNCHANGED <<host, granted>>
    BY <1>5 DEF renderLastLink, hostVars
  <2> HIDE DEF r
  <2> QED BY <2>1, <2>2, <1>1
<1> QED BY <1>2, <1>3, <1>4, <1>5

(* Shares, and the button that copies, neither read nor write the grants   *)
(* of a save.                                                              *)
LEMMA OthersKeepGrant ==
    ASSUME GrantInv, UNCHANGED <<host, granted, page>>
    PROVE  host' \in granted' /\ \A v \in Pages : Granting(v)'
BY DEF GrantInv, Granting

(* Every step of one page and any shares keeps the grant.                  *)
LEMMA GrantStep == OnePage /\ GrantInv /\ [Next]_vars => GrantInv'
<1> SUFFICES ASSUME OnePage, GrantInv, [Next]_vars PROVE GrantInv' OBVIOUS
<1>0. LinkInv' BY LinkStep DEF GrantInv
<1>1. ASSUME NEW s \in Shares, shareSelection(s) \/ ShareStep(s)
      PROVE  UNCHANGED <<host, granted, page>>
  BY <1>1 DEF shareSelection, ShareStep, ReadSettings, CheckPermission, createOneTimeLink,
     KeepLastLink, FindDocument, CreateDocument, copyToClipboard, hostVars
<1>2. ASSUME NEW w \in Pages, CopyLast(w) PROVE UNCHANGED <<host, granted, page>>
  BY <1>2 DEF CopyLast, hostVars
<1>3. CASE UNCHANGED vars BY <1>3, <1>0, OthersKeepGrant DEF GrantInv, vars, hostVars
<1>4. CASE \E s \in Shares : shareSelection(s) \/ ShareStep(s)
  BY <1>4, <1>1, <1>0, OthersKeepGrant DEF GrantInv
<1>5. ASSUME NEW w \in Pages,
             \/ OpenPage(w) \/ ClosePage(w) \/ CopyLast(w) \/ ClearLast(w) \/ renderLastLink(w)
             \/ \E h \in HostTexts : SaveHost(w, h)
             \/ PageStep(w)
      PROVE  GrantInv'
  BY <1>5, <1>2, <1>0, OthersKeepGrant, ClosingKeepsGrant, SavingKeepsGrant DEF GrantInv
<1> QED BY <1>3, <1>4, <1>5 DEF Next

(* With one page of settings open, the server in the settings never loses  *)
(* its grant, in whichever await of a save the page is closed.             *)
THEOREM HostStaysGranted == ASSUME OnePage PROVE Spec => []HostIsGranted
<1>1. Init => GrantInv BY GrantInit
<1>2. GrantInv /\ [Next]_vars => GrantInv' BY GrantStep
<1>3. GrantInv => HostIsGranted BY DEF GrantInv, HostIsGranted
<1> QED BY <1>1, <1>2, <1>3, PTL DEF Spec
==============================================================================
