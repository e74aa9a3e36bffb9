------------------------------ MODULE ImagePages ------------------------------
(***************************************************************************)
(* The pages of agent images and of BIN images, and what the daemon does   *)
(* for them: a registry that maps tags to manifests, and a table beside it *)
(* that the listing is read from.                                          *)
(*                                                                         *)
(* The pages group the listed tags: by repository name, and within it by   *)
(* digest.  Deleting an image or a digest sends one removal per tag, all   *)
(* at once; on the daemon each removal is three steps, between which a     *)
(* build or a pull may move a tag.                                         *)
(*                                                                         *)
(* Source: lib/image-tags.ts, app/images, app/bins,                        *)
(* components/artifact-detail-view.tsx; internal/images.go and registry.go *)
(* for the daemon.                                                         *)
(***************************************************************************)
EXTENDS Naturals

CONSTANTS
  ImageNames,    (* repositories                                           *)
  MaxTag,        (* tags: 0 is "latest", the others in the order they sort *)
  MaxDigest,     (* digests, in the order they were built                  *)
  Executors,     (* "system": the daemon's own registry; "docker"          *)
  MaxImageOps    (* bound: builds, pulls and deletions                     *)

ASSUME ImageAssumption ==
  /\ MaxTag \in Nat /\ MaxDigest \in Nat \ {0} /\ MaxImageOps \in Nat
  /\ Executors \subseteq {"system", "docker"}

Latest == 0
ImageRefs == [name : ImageNames, tag : 0..MaxTag]
Absent == 0
Listings == [ImageRefs -> 0..MaxDigest]   (* ref -> digest, or Absent      *)
NoRef == [name |-> "", tag |-> Latest]

VARIABLES
  imgExecutor,   (* the daemon's executor                                  *)
  imgRegistry,   (* tag -> digest                                          *)
  imgTable,      (* the same in the images table                           *)
  imgSeen,       (* and in the listing on screen                           *)
  imgPage,       (* NoRef on the listing, or the tag whose page is open    *)
  imgAsking,     (* the confirm dialog is open; on the listing: for a name *)
  imgRemovals,   (* removals under way: [ref, page, at, digest]            *)
  imgLast,       (* the removal the page sent last                         *)
  imgPulls,      (* pulls under way                                        *)
  imgOps,
  (* history *)
  imgRaced       (* a tag moved while a removal was under way              *)

imgVars == <<imgExecutor, imgRegistry, imgTable, imgSeen, imgPage, imgAsking,
             imgRemovals, imgLast, imgPulls, imgOps, imgRaced>>

ImgInit ==
  /\ imgExecutor \in Executors
  /\ LET full == CHOOSE n \in ImageNames : TRUE IN    (* names are alike   *)
     imgRegistry = [r \in ImageRefs |-> IF r.name = full \/ r.tag = Latest THEN 1 ELSE Absent]
  /\ imgTable = imgRegistry
  /\ imgSeen = imgRegistry
  /\ imgPage = NoRef
  /\ imgAsking = ""
  /\ imgRemovals = {}
  /\ imgLast = NoRef
  /\ imgPulls = {}
  /\ imgOps = 0
  /\ imgRaced = FALSE

-----------------------------------------------------------------------------
(* Grouping (image-tags.ts).                                               *)

ListedImages(list) == {r \in ImageRefs : list[r] # Absent}

(* ":latest" wins, else the first in order.                                *)
PickPrimaryRef(refs) == CHOOSE r \in refs : \A s \in refs : r.tag <= s.tag

(* Mutant: the groups are keyed by the digest alone.                       *)
VersionsAnywhere(list, n) ==
  LET named == {r \in ListedImages(list) : r.name = n}
      Refs(d) == {r \in ListedImages(list) : list[r] = d}
  IN {[digest |-> list[r], refs |-> Refs(list[r]), primary |-> PickPrimaryRef(Refs(list[r]))] :
        r \in named}

(* One entry per digest among the tags of a name.                          *)
Versions(list, n) ==
  LET named == {r \in ListedImages(list) : r.name = n}
      Refs(d) == {r \in named : list[r] = d}
  IN {[digest |-> list[r], refs |-> Refs(list[r]), primary |-> PickPrimaryRef(Refs(list[r]))] :
        r \in named}

(* The card of a name stands for its ":latest", else for the newest digest.*)
GroupImagesByName(list) ==
  LET Newest(vs) == CHOOSE v \in vs : \A w \in vs : v.digest >= w.digest
      Card(n) ==
        LET vs == Versions(list, n)
            latest == {r \in ListedImages(list) : r.name = n /\ r.tag = Latest}
        IN [name |-> n, digests |-> vs,
            primary |-> IF latest # {} THEN CHOOSE r \in latest : TRUE ELSE Newest(vs).primary]
  IN {Card(r.name) : r \in ListedImages(list)}

(* The digest whose details are shown, and the tag its buttons act on.     *)
Selected(list, ref) == CHOOSE v \in Versions(list, ref.name) : v.digest = list[ref]
ProxyRef(list, ref) == Selected(list, ref).primary

-----------------------------------------------------------------------------
(* The pages.                                                              *)

UNCHANGEDDaemon == UNCHANGED <<imgExecutor, imgRegistry, imgTable, imgRaced>>

OnListing == imgPage = NoRef
OnDetail == imgPage # NoRef /\ imgPage \in ListedImages(imgSeen)     (* else "not found" *)

(* Links: cards, digests, tags.                                            *)
OpenImage(r) ==
  /\ r # imgPage /\ r \in ListedImages(imgSeen)
  /\ IF OnListing THEN \E g \in GroupImagesByName(imgSeen) : r = g.primary
                  ELSE OnDetail /\ r.name = imgPage.name
  /\ imgPage' = r
  /\ imgAsking' = ""
  /\ imgLast' = IF OnListing THEN NoRef ELSE imgLast
  /\ UNCHANGED <<imgSeen, imgRemovals, imgPulls, imgOps>> /\ UNCHANGEDDaemon

BackToListing ==
  /\ imgPage # NoRef
  /\ imgPage' = NoRef
  /\ imgAsking' = ""
  /\ imgLast' = NoRef
  /\ UNCHANGED <<imgSeen, imgRemovals, imgPulls, imgOps>> /\ UNCHANGEDDaemon

(* The interval.  A card or page that is gone takes its dialog with it.    *)
RefetchImages ==
  /\ imgSeen # imgTable
  /\ imgSeen' = imgTable
  /\ imgAsking' = IF \/ imgPage # NoRef /\ imgTable[imgPage] = Absent
                     \/ imgPage = NoRef /\ \A r \in ListedImages(imgTable) : r.name # imgAsking
                    THEN "" ELSE imgAsking
  /\ UNCHANGED <<imgPage, imgRemovals, imgLast, imgPulls, imgOps>> /\ UNCHANGEDDaemon

(* The trash button: of a card, or of the digest shown.                    *)
AskDeleteImage ==
  /\ imgAsking = ""
  /\ \/ OnListing /\ \E g \in GroupImagesByName(imgSeen) : imgAsking' = g.name
     \/ OnDetail /\ imgAsking' = imgPage.name
  /\ UNCHANGED <<imgSeen, imgPage, imgRemovals, imgLast, imgPulls, imgOps>> /\ UNCHANGEDDaemon

CancelDelete ==
  /\ imgAsking # ""
  /\ imgAsking' = ""
  /\ UNCHANGED <<imgSeen, imgPage, imgRemovals, imgLast, imgPulls, imgOps>> /\ UNCHANGEDDaemon

RemovePending(refs) == imgLast \in refs /\ \E c \in imgRemovals : c.ref = imgLast

(* A removal per tag; the page knows of the last one whether it is over.   *)
SendRemovals(refs, last) ==
  /\ imgOps < MaxImageOps /\ imgOps' = imgOps + 1
  /\ ~RemovePending(refs)
  /\ imgRemovals' = imgRemovals \cup
       {[ref |-> r, page |-> imgPage, at |-> "sent", digest |-> Absent] : r \in refs}
  /\ imgLast' = last
  /\ imgAsking' = ""
  /\ UNCHANGED <<imgSeen, imgPage, imgPulls>> /\ UNCHANGEDDaemon

LastOf(refs) == CHOOSE r \in refs : \A s \in refs : r.tag >= s.tag

(* Confirmed: the tags of the name, or of the digest, as they are on       *)
(* screen now; newest digest first.                                        *)
DeleteImage ==
  /\ OnListing /\ imgAsking # ""
  /\ ~RemovePending(ImageRefs)
  /\ \E oldest \in Versions(imgSeen, imgAsking) :
       /\ \A v \in Versions(imgSeen, imgAsking) : oldest.digest <= v.digest
       /\ SendRemovals({r \in ListedImages(imgSeen) : r.name = imgAsking}, LastOf(oldest.refs))

DeleteDigest ==
  /\ OnDetail /\ imgAsking # ""
  /\ LET refs == Selected(imgSeen, imgPage).refs IN SendRemovals(refs, LastOf(refs))

(* Re-pull, of a card or of the digest shown.  (Push changes nothing here.)*)
RePull ==
  /\ imgOps < MaxImageOps /\ imgOps' = imgOps + 1
  /\ imgPulls = {}
  /\ \/ /\ OnListing
        /\ \E g \in GroupImagesByName(imgSeen) : imgPulls' = {g.primary}
     \/ OnDetail /\ imgPulls' = {ProxyRef(imgSeen, imgPage)}
  /\ UNCHANGED <<imgSeen, imgPage, imgAsking, imgRemovals, imgLast>> /\ UNCHANGEDDaemon

(* The answer: the page of the tag that was removed gives way to the list, *)
(* wherever the operator is by now.                                        *)
RemovalAnswered(c, ok) ==
  /\ imgRemovals' = imgRemovals \ {c}
  /\ IF ok /\ c.page = c.ref THEN imgPage' = NoRef /\ imgAsking' = "" /\ imgLast' = NoRef
                             ELSE UNCHANGED <<imgPage, imgAsking, imgLast>>

-----------------------------------------------------------------------------
(* The daemon.                                                             *)

Advance(c, at, digest) ==
  imgRemovals' = (imgRemovals \ {c}) \cup {[c EXCEPT !.at = at, !.digest = digest]}

(* RemoveImage asks for the digest of the tag first ...                    *)
InspectForRemoval(c) ==
  /\ c \in imgRemovals /\ c.at = "sent"
  /\ Advance(c, "inspected", imgRegistry[c.ref])
  /\ UNCHANGED <<imgSeen, imgPage, imgAsking, imgLast, imgPulls, imgOps>> /\ UNCHANGEDDaemon

(* What the executor removes with a tag: Docker every alias of the image;  *)
(* the daemon's registry (deleteCascade) every tag in the repository with  *)
(* the same manifest.                                                      *)
Aliases(ref) ==
  {r \in ListedImages(imgRegistry) :
     /\ imgRegistry[r] = imgRegistry[ref]
     /\ imgExecutor = "system" => r.name = ref.name}

(* ... then removes the tag, or fails on one that is gone ...              *)
RemoveFromRegistry(c) ==
  /\ c \in imgRemovals /\ c.at = "inspected"
  /\ IF imgRegistry[c.ref] # Absent
       THEN /\ imgRegistry' = [r \in ImageRefs |->
                                 IF r \in Aliases(c.ref) THEN Absent ELSE imgRegistry[r]]
            /\ Advance(c, "removed", c.digest)
            /\ UNCHANGED <<imgPage, imgAsking, imgLast>>
       ELSE /\ RemovalAnswered(c, FALSE)
            /\ UNCHANGED imgRegistry
  /\ UNCHANGED <<imgExecutor, imgTable, imgSeen, imgPulls, imgOps, imgRaced>>

(* Mutant: the rows of the aliases stay.                                   *)
DeleteRowOnly(c) ==
  /\ c \in imgRemovals /\ c.at = "removed"
  /\ imgTable' = [imgTable EXCEPT ![c.ref] = Absent]
  /\ RemovalAnswered(c, TRUE)
  /\ UNCHANGED <<imgExecutor, imgRegistry, imgSeen, imgPulls, imgOps, imgRaced>>

(* ... and last deletes the rows with the digest it was told, whatever     *)
(* their names.                                                            *)
DeleteRows(c) ==
  /\ c \in imgRemovals /\ c.at = "removed"
  /\ imgTable' = [r \in ImageRefs |->
       IF (IF c.digest = Absent THEN r = c.ref ELSE imgTable[r] = c.digest)
         THEN Absent ELSE imgTable[r]]
  /\ RemovalAnswered(c, TRUE)
  /\ UNCHANGED <<imgExecutor, imgRegistry, imgSeen, imgPulls, imgOps, imgRaced>>

(* A build or pull is stored and its row written: one step, for nothing    *)
(* but a removal reads both.                                               *)
StoreImage(r, d) ==
  /\ imgRegistry' = [imgRegistry EXCEPT ![r] = d]
  /\ imgTable' = [imgTable EXCEPT ![r] = d]
  /\ imgRaced' = (imgRaced \/ imgRemovals # {})
  /\ UNCHANGED <<imgExecutor, imgSeen, imgPage, imgAsking, imgRemovals, imgLast>>

PullDone(r) ==
  /\ r \in imgPulls
  /\ imgPulls' = {}
  /\ \/ \E d \in 1..MaxDigest : StoreImage(r, d)
     \/ UNCHANGED <<imgExecutor, imgRegistry, imgTable, imgSeen, imgPage, imgAsking,
                    imgRemovals, imgLast, imgRaced>>
  /\ UNCHANGED imgOps

ImageStored ==
  /\ imgOps < MaxImageOps /\ imgOps' = imgOps + 1
  /\ \E r \in ImageRefs, d \in 1..MaxDigest : StoreImage(r, d)
  /\ UNCHANGED imgPulls

-----------------------------------------------------------------------------
(* The page of BINs is the page of images without Re-pull.                 *)
BinsPage == OnListing /\ (AskDeleteImage \/ DeleteImage)
ImagesPage == BinsPage \/ (OnListing /\ RePull)
ArtifactDetailView == OnDetail /\ (AskDeleteImage \/ DeleteDigest \/ RePull \/ BackToListing)

ImgNext ==
  \/ ImagesPage \/ ArtifactDetailView
  \/ CancelDelete \/ RefetchImages \/ BackToListing
  \/ \E r \in ImageRefs : OpenImage(r) \/ PullDone(r)
  \/ \E c \in imgRemovals : InspectForRemoval(c) \/ RemoveFromRegistry(c) \/ DeleteRows(c)
  \/ ImageStored

-----------------------------------------------------------------------------
(* Properties.                                                             *)

ImgTypeOK ==
  /\ imgRegistry \in Listings /\ imgTable \in Listings /\ imgSeen \in Listings
  /\ imgPage \in ImageRefs \cup {NoRef}
  /\ imgAsking \in ImageNames \cup {""}
  /\ imgPulls \subseteq ImageRefs /\ imgLast \in ImageRefs \cup {NoRef}
  /\ imgRemovals \subseteq [ref : ImageRefs, page : ImageRefs \cup {NoRef},
                            at : {"sent", "inspected", "removed"}, digest : 0..MaxDigest]
  /\ imgOps \in 0..MaxImageOps
  /\ imgRaced \in BOOLEAN

(* Whatever is listed, each tag is on exactly one card and under exactly   *)
(* one digest of it, its own; and the tag a digest's buttons act on means  *)
(* that digest.                                                            *)
CardsAddUp ==
  LET cards == GroupImagesByName(imgSeen)
      OnCard(r) == {on \in UNION {{g} \X g.digests : g \in cards} : r \in on[2].refs}
  IN /\ \A r \in ListedImages(imgSeen) : \E g \in cards :
          g.name = r.name /\ {[card |-> on[1], digest |-> on[2].digest] : on \in OnCard(r)}
                              = {[card |-> g, digest |-> imgSeen[r]]}
     /\ \A g \in cards : \A v \in g.digests : imgSeen[v.primary] = v.digest

(* The listing shows no ghosts: a tag in the table is in the registry, and *)
(* means the same; unless a tag was moved while a removal was under way,   *)
(* or between the two steps of a removal.                                  *)
NoGhosts ==
  ~imgRaced =>
    \A r \in ListedImages(imgTable) :
      \/ imgTable[r] = imgRegistry[r]
      \/ \E c \in imgRemovals : c.at = "removed" /\ c.digest = imgTable[r]
=============================================================================
