------------------------ MODULE BusinessRowsProofs -------------------------
(***************************************************************************)
(* Theorems about the rows of a business and of its people: Images,        *)
(* Customers, Appointments, Mailing, Vat, Sessions and Onboarding, for     *)
(* every number of rows and overlapping handlers.                          *)
(***************************************************************************)
EXTENDS Images, Customers, Appointments, Mailing, Vat, Sessions, Onboarding, TLAPS

-----------------------------------------------------------------------------
(***************************************************************************)
(* Images: what a row holds and what the bucket stores.                    *)
(***************************************************************************)

(* The inductive invariant *)

\* What a row holds is in the bucket, and was noted when it was attached.
HeldAreStored ==
    \A h \in Holders : KeysOf(held[h]) \subseteq stored \cap attached

\* No image is in two rows.
HoldersApart ==
    \A h, g \in Holders : h # g => KeysOf(held[h]) \cap KeysOf(held[g]) = {}

\* Updates of one resource come one after the other.
PhotosAreAlone ==
    \A e, f \in Editors : e # f =>
        \A h \in Photos : h \notin editor[e].holder \/ h \notin editor[f].holder

\* What a handler e will write over h: uploads that are its own, or photos that
\* are in the row; and what it will delete is none of these and in no other row.
PendingFits(e, h) ==
    LET q == editor[e]
    IN  /\ KeysOf(q.new) \subseteq stored
        /\ \A k \in KeysOf(q.new) :
              \/ /\ k \notin attached
                 /\ \A f \in Editors : f # e => k \notin KeysOf(editor[f].new)
              \/ h \in Photos /\ k \in KeysOf(held[h])
        /\ KeysOf(q.old) \subseteq attached
        /\ \A g \in Holders : g # h => KeysOf(q.old) \cap KeysOf(held[g]) = {}
        /\ Doomed(q.old, q.new) \cap KeysOf(q.new) = {}

WritesFit ==
    \A e \in Editors : editor[e].pc = "write" =>
        \A h \in editor[e].holder : PendingFits(e, h)

\* What is being deleted was in use, and is in no row.
DoomedAreGone ==
    \A e \in Editors : \A k \in editor[e].doomed :
        k \in attached /\ \A h \in Holders : k \notin KeysOf(held[h])

\* A handler about to write has one row, and deletes nothing yet.
OneHolder ==
    \A e \in Editors : editor[e].pc = "write" =>
        editor[e].doomed = {} /\ \E h \in Holders : editor[e].holder = {h}

ImageInv ==
    /\ ImageTypeOK
    /\ HeldAreStored
    /\ HoldersApart
    /\ PhotosAreAlone
    /\ OneHolder
    /\ WritesFit
    /\ DoomedAreGone

EditorType ==
    [pc : {"idle", "write", "clean"}, holder : SUBSET Holders,
     old : Row, new : Row, doomed : SUBSET Keys]

-----------------------------------------------------------------------------
(* Rows and handlers *)

LEMMA BareIsEmpty == Bare \in Row /\ KeysOf(Bare) = {}
BY DEF Bare, Row, KeysOf

LEMMA KeysOfType == ASSUME NEW row \in Row PROVE KeysOf(row) \subseteq Keys
BY DEF Row, KeysOf

LEMMA DoomedWereOld ==
  ASSUME NEW old \in Row, NEW new \in Row
  PROVE  Doomed(old, new) \subseteq KeysOf(old)
BY DEF Doomed, KeysOf

LEMMA NoEditorFits ==
  /\ NoEditor \in EditorType
  /\ NoEditor.pc = "idle" /\ NoEditor.holder = {} /\ NoEditor.doomed = {}
  /\ KeysOf(NoEditor.new) = {}
BY BareIsEmpty DEF NoEditor, EditorType

LEMMA ImageInitOK == ASSUME ImageInit PROVE ImageInv
<1>1. ImageTypeOK
  BY BareIsEmpty, NoEditorFits DEF ImageInit, ImageTypeOK, EditorType
<1>2. HeldAreStored /\ HoldersApart
  BY BareIsEmpty DEF ImageInit, HeldAreStored, HoldersApart
<1>3. PhotosAreAlone /\ OneHolder /\ WritesFit /\ DoomedAreGone
  BY NoEditorFits DEF ImageInit, PhotosAreAlone, OneHolder, WritesFit, DoomedAreGone
<1>. QED
  BY <1>1, <1>2, <1>3 DEF ImageInv

\* A handler that is done, died, or has one object less to delete disturbs nobody.
LEMMA EditorLeavesKeeps ==
  ASSUME ImageInv, NEW e \in Editors, NEW q \in EditorType,
         q.pc # "write", q.holder \subseteq editor[e].holder,
         q.doomed \subseteq editor[e].doomed, KeysOf(q.new) \subseteq KeysOf(editor[e].new),
         editor' = [editor EXCEPT ![e] = q],
         UNCHANGED <<presigned, stored, held, attached>>, litter' \subseteq Keys
  PROVE  ImageInv'
<1>1. editor'[e] = q /\ \A f \in Editors : f # e => editor'[f] = editor[f]
  BY DEF ImageInv, ImageTypeOK
<1>2. ImageTypeOK'
  BY DEF ImageInv, ImageTypeOK, EditorType
<1>3. HeldAreStored' /\ HoldersApart'
  BY DEF ImageInv, HeldAreStored, HoldersApart
<1>4. PhotosAreAlone' /\ OneHolder' /\ DoomedAreGone'
  BY <1>1 DEF ImageInv, PhotosAreAlone, OneHolder, DoomedAreGone
<1>5. WritesFit'
  <2>. SUFFICES ASSUME NEW f \in Editors, editor'[f].pc = "write", NEW h \in editor'[f].holder
                PROVE  PendingFits(f, h)'
    BY DEF WritesFit
  <2>1. f # e /\ editor'[f] = editor[f]
    BY <1>1
  <2>2. PendingFits(f, h)
    BY <2>1 DEF ImageInv, WritesFit
  <2>3. \A g \in Editors : KeysOf(editor'[g].new) \subseteq KeysOf(editor[g].new)
    BY <1>1
  <2>. QED
    BY <2>1, <2>2, <2>3 DEF PendingFits
<1>. QED
  BY <1>2, <1>3, <1>4, <1>5 DEF ImageInv

\* Rows and handlers as they are, what the bucket loses must be nobody's.
LEMMA BucketKeeps ==
  ASSUME ImageInv, UNCHANGED <<held, editor, attached, litter>>,
         presigned' \subseteq Keys, stored' \subseteq presigned',
         \A h \in Holders : KeysOf(held[h]) \subseteq stored',
         \A e \in Editors : editor[e].pc = "write" => KeysOf(editor[e].new) \subseteq stored'
  PROVE  ImageInv'
<1>1. ImageTypeOK'
  BY DEF ImageInv, ImageTypeOK
<1>2. HeldAreStored' /\ HoldersApart' /\ PhotosAreAlone' /\ OneHolder' /\ DoomedAreGone'
  BY DEF ImageInv, HeldAreStored, HoldersApart, PhotosAreAlone, OneHolder, DoomedAreGone
<1>3. WritesFit'
  <2>. SUFFICES ASSUME NEW e \in Editors, editor[e].pc = "write", NEW h \in editor[e].holder
                PROVE  PendingFits(e, h)'
    BY DEF WritesFit
  <2>1. PendingFits(e, h)
    BY DEF ImageInv, WritesFit
  <2>. QED
    BY <2>1 DEF PendingFits
<1>. QED
  BY <1>1, <1>2, <1>3 DEF ImageInv

-----------------------------------------------------------------------------
(* The bucket *)

LEMMA PresignKeeps == ASSUME ImageInv, NEW k \in Keys, Presign(k) PROVE ImageInv'
<1>1. stored \subseteq presigned /\ presigned \subseteq Keys
  BY DEF ImageInv, ImageTypeOK
<1>2. \A h \in Holders : KeysOf(held[h]) \subseteq stored
  BY DEF ImageInv, HeldAreStored
<1>3. \A e \in Editors : editor[e].pc = "write" => KeysOf(editor[e].new) \subseteq stored
  BY DEF ImageInv, OneHolder, WritesFit, PendingFits
<1>. QED
  BY <1>1, <1>2, <1>3, BucketKeeps DEF Presign

LEMMA PutKeeps == ASSUME ImageInv, NEW k \in Keys, PutObject(k) PROVE ImageInv'
<1>1. stored \subseteq presigned /\ presigned \subseteq Keys
  BY DEF ImageInv, ImageTypeOK
<1>2. \A h \in Holders : KeysOf(held[h]) \subseteq stored
  BY DEF ImageInv, HeldAreStored
<1>3. \A e \in Editors : editor[e].pc = "write" => KeysOf(editor[e].new) \subseteq stored
  BY DEF ImageInv, OneHolder, WritesFit, PendingFits
<1>. QED
  BY <1>1, <1>2, <1>3, BucketKeeps DEF PutObject

LEMMA DeleteFileKeeps == ASSUME ImageInv, NEW k \in Keys, DeleteFile(k) PROVE ImageInv'
<1>1. stored \subseteq presigned /\ presigned \subseteq Keys
  BY DEF ImageInv, ImageTypeOK
<1>2. \A h \in Holders : KeysOf(held[h]) \subseteq stored \ {k}
  BY DEF ImageInv, HeldAreStored, DeleteFile, Unclaimed
<1>3. \A e \in Editors : editor[e].pc = "write" => KeysOf(editor[e].new) \subseteq stored \ {k}
  BY DEF ImageInv, OneHolder, WritesFit, PendingFits, DeleteFile, Unclaimed
<1>. QED
  BY <1>1, <1>2, <1>3, BucketKeeps DEF DeleteFile

-----------------------------------------------------------------------------
(* Updates *)

\* An update that begins: what it sends is unclaimed or, for photos, in the row.
LEMMA LoadKeeps ==
  ASSUME ImageInv, NEW e \in Editors, NEW h \in Holders, NEW new \in Row,
         LoadHolder(e, h, new),
         \A k \in KeysOf(new) : Unclaimed(k) \/ (h \in Photos /\ k \in KeysOf(held[h])),
         h \in Photos => \A f \in Editors : h \notin editor[f].holder,
         Doomed(held[h], new) \cap KeysOf(new) = {}
  PROVE  ImageInv'
<1>. DEFINE q == [pc |-> "write", holder |-> {h}, old |-> held[h], new |-> new,
                  doomed |-> {}]
<1>1. /\ editor' = [editor EXCEPT ![e] = q]
      /\ UNCHANGED <<presigned, stored, held, attached, litter>>
  BY DEF LoadHolder
<1>2. q \in EditorType /\ held[h] \in Row
  BY DEF EditorType, ImageInv, ImageTypeOK
<1>3. editor'[e] = q /\ \A f \in Editors : f # e => editor'[f] = editor[f]
  BY <1>1 DEF ImageInv, ImageTypeOK
<1>4. /\ q.pc = "write" /\ q.holder = {h} /\ q.old = held[h] /\ q.new = new
      /\ q.doomed = {}
  OBVIOUS
<1>. HIDE DEF q
<1>5. ImageTypeOK'
  BY <1>1, <1>2 DEF ImageInv, ImageTypeOK, EditorType
<1>6. HeldAreStored' /\ HoldersApart'
  BY <1>1 DEF ImageInv, HeldAreStored, HoldersApart
<1>7. PhotosAreAlone' /\ OneHolder'
  BY <1>3, <1>4 DEF ImageInv, PhotosAreAlone, OneHolder
<1>8. DoomedAreGone'
  BY <1>1, <1>3, <1>4 DEF ImageInv, DoomedAreGone
<1>9. PendingFits(e, h)'
  <2>1. KeysOf(held[h]) \subseteq stored \cap attached
    BY DEF ImageInv, HeldAreStored
  <2>2. \A g \in Holders : g # h => KeysOf(held[h]) \cap KeysOf(held[g]) = {}
    BY DEF ImageInv, HoldersApart
  <2>. QED
    BY <1>1, <1>3, <1>4, <2>1, <2>2 DEF PendingFits, Unclaimed
<1>10. ASSUME NEW f \in Editors, f # e, editor[f].pc = "write", NEW g \in editor[f].holder
       PROVE  PendingFits(f, g)'
  <2>1. PendingFits(f, g) /\ editor'[f] = editor[f]
    BY <1>3, <1>10 DEF ImageInv, WritesFit
  <2>2. \A k \in KeysOf(editor[f].new) : k \notin attached => k \notin KeysOf(new)
    BY <1>10 DEF Unclaimed, ImageInv, HeldAreStored
  <2>. QED
    BY <1>1, <1>3, <1>4, <2>1, <2>2 DEF PendingFits
<1>11. WritesFit'
  BY <1>3, <1>4, <1>9, <1>10 DEF WritesFit
<1>. QED
  BY <1>5, <1>6, <1>7, <1>8, <1>11 DEF ImageInv

\* One key, which no row has held, replaces whatever is there.
LEMMA ReplaceKeeps ==
  ASSUME ImageInv, NEW e \in Editors, NEW h \in Avatars \cup Logos, NEW k \in Keys \cup {NoKey},
         k = NoKey \/ Unclaimed(k), LoadHolder(e, h, [Bare EXCEPT !.primary = k])
  PROVE  ImageInv'
<1>. DEFINE new == [primary |-> k, supporting |-> {}]
<1>1. new = [Bare EXCEPT !.primary = k]
  BY DEF Bare
<1>2. new \in Row /\ KeysOf(new) = {k} \ {NoKey}
  BY DEF Row, KeysOf
<1>3. LoadHolder(e, h, new)
  BY <1>1
<1>4. h \in Holders /\ h \notin Photos
  BY ImagesAssumption DEF Holders
<1>5. held[h] \in Row /\ KeysOf(held[h]) \subseteq attached
  BY <1>4 DEF ImageInv, ImageTypeOK, HeldAreStored
<1>. HIDE DEF new
<1>6. Doomed(held[h], new) \cap KeysOf(new) = {}
  BY <1>2, <1>5, DoomedWereOld DEF Unclaimed
<1>. QED
  BY <1>2, <1>3, <1>4, <1>6, LoadKeeps

\* The photos of a resource, none of which changes its field.
LEMMA PhotosKeep ==
  ASSUME ImageInv, ~Swaps, NEW e \in Editors, NEW h \in Photos, NEW new \in Row,
         UpdatePhotos(e, h, new)
  PROVE  ImageInv'
<1>1. h \in Holders /\ held[h] \in Row
  BY DEF Holders, ImageInv, ImageTypeOK
<1>2. Doomed(held[h], new) \cap KeysOf(new) = {}
  BY <1>1 DEF UpdatePhotos, Sendable, Doomed, KeysOf
<1>3. \A k \in KeysOf(new) : Unclaimed(k) \/ (h \in Photos /\ k \in KeysOf(held[h]))
  BY DEF UpdatePhotos, Sendable
<1>. QED
  BY <1>1, <1>2, <1>3, LoadKeeps DEF UpdatePhotos

LEMMA WriteHolderKeeps == ASSUME ImageInv, NEW e \in Editors, WriteHolder(e) PROVE ImageInv'
<1>1. PICK h \in editor[e].holder :
          /\ held' = [held EXCEPT ![h] = editor[e].new]
          /\ editor' = [editor EXCEPT ![e] = [editor[e] EXCEPT !.pc = "clean",
                            !.doomed = Doomed(editor[e].old, editor[e].new)]]
          /\ attached' = attached \cup KeysOf(editor[e].new)
          /\ litter' = litter \cup (KeysOf(held[h]) \
                                       (KeysOf(editor[e].old) \cup KeysOf(editor[e].new)))
          /\ editor[e].pc = "write"
          /\ UNCHANGED <<presigned, stored>>
  BY DEF WriteHolder
<1>. DEFINE old == editor[e].old
            new == editor[e].new
            q == [editor[e] EXCEPT !.pc = "clean", !.doomed = Doomed(old, new)]
<1>2. /\ editor[e] \in EditorType /\ old \in Row /\ new \in Row
      /\ h \in Holders /\ held[h] \in Row
  BY DEF ImageInv, ImageTypeOK, EditorType
<1>3. PendingFits(e, h) /\ editor[e].holder = {h}
  BY <1>1 DEF ImageInv, WritesFit, OneHolder
<1>4. Doomed(old, new) \subseteq KeysOf(old) /\ KeysOf(old) \subseteq Keys
      /\ KeysOf(new) \subseteq Keys /\ KeysOf(held[h]) \subseteq Keys
  BY <1>2, DoomedWereOld, KeysOfType
<1>5. /\ q \in EditorType /\ q.pc = "clean" /\ q.holder = {h} /\ q.new = new
      /\ q.doomed = Doomed(old, new)
  BY <1>2, <1>3, <1>4 DEF EditorType
<1>6. /\ editor'[e] = q
      /\ \A f \in Editors : f # e => editor'[f] = editor[f]
      /\ held'[h] = new
      /\ \A g \in Holders : g # h => held'[g] = held[g]
  BY <1>1, <1>2 DEF ImageInv, ImageTypeOK
<1>7. ImageTypeOK'
  <2>1. attached' \subseteq Keys /\ litter' \subseteq Keys
    BY <1>1, <1>4 DEF ImageInv, ImageTypeOK
  <2>2. held' \in [Holders -> Row]
    BY <1>1, <1>2 DEF ImageInv, ImageTypeOK
  <2>3. editor' = [editor EXCEPT ![e] = q]
    BY <1>1
  <2>. HIDE DEF q
  <2>. QED
    BY <1>1, <1>5, <2>1, <2>2, <2>3 DEF ImageInv, ImageTypeOK, EditorType
<1>. HIDE DEF old, new, q
<1>8. /\ KeysOf(new) \subseteq stored
      /\ \A k \in KeysOf(new) :
            \/ k \notin attached /\ \A f \in Editors : f # e => k \notin KeysOf(editor[f].new)
            \/ h \in Photos /\ k \in KeysOf(held[h])
      /\ KeysOf(old) \subseteq attached
      /\ \A g \in Holders : g # h => KeysOf(old) \cap KeysOf(held[g]) = {}
      /\ Doomed(old, new) \cap KeysOf(new) = {}
  BY <1>3 DEF PendingFits, old, new
<1>9. attached' = attached \cup KeysOf(new)
  BY <1>1 DEF new
<1>10. HeldAreStored'
  BY <1>1, <1>6, <1>8, <1>9 DEF ImageInv, HeldAreStored
<1>11. \A g \in Holders : g # h => KeysOf(new) \cap KeysOf(held[g]) = {}
  BY <1>2, <1>8 DEF ImageInv, HeldAreStored, HoldersApart
<1>12. HoldersApart'
  BY <1>6, <1>11 DEF ImageInv, HoldersApart
<1>13. PhotosAreAlone' /\ OneHolder'
  BY <1>3, <1>5, <1>6 DEF ImageInv, PhotosAreAlone, OneHolder
<1>14. DoomedAreGone'
  <2>. SUFFICES ASSUME NEW f \in Editors, NEW k \in editor'[f].doomed
                PROVE  k \in attached' /\ \A g \in Holders : k \notin KeysOf(held'[g])
    BY DEF DoomedAreGone
  <2>1. CASE f = e
    BY <1>4, <1>5, <1>6, <1>8, <1>9, <2>1
  <2>2. CASE f # e
    BY <1>2, <1>6, <1>8, <1>9, <2>2 DEF ImageInv, DoomedAreGone
  <2>. QED
    BY <2>1, <2>2
<1>15. WritesFit'
  <2>. SUFFICES ASSUME NEW f \in Editors, editor'[f].pc = "write", NEW g \in editor'[f].holder
                PROVE  PendingFits(f, g)'
    BY DEF WritesFit
  <2>1. f # e /\ editor'[f] = editor[f]
    BY <1>5, <1>6
  <2>2. PendingFits(f, g) /\ g \in Holders
    BY <2>1 DEF ImageInv, WritesFit, ImageTypeOK
  <2>3. \A x \in Editors : KeysOf(editor'[x].new) = KeysOf(editor[x].new)
    BY <1>5, <1>6 DEF new
  <2>4. ASSUME NEW k \in KeysOf(editor[f].new)
        PROVE  \/ /\ k \notin attached'
                  /\ \A x \in Editors : x # f => k \notin KeysOf(editor'[x].new)
               \/ g \in Photos /\ k \in KeysOf(held'[g])
    <3>1. CASE k \notin attached /\ \A x \in Editors : x # f => k \notin KeysOf(editor[x].new)
      BY <1>9, <2>1, <2>3, <3>1 DEF new
    <3>2. CASE g \in Photos /\ k \in KeysOf(held[g])
      <4>1. g # h
        BY <1>3, <2>1, <3>2 DEF ImageInv, PhotosAreAlone
      <4>. QED
        BY <1>6, <2>2, <3>2, <4>1
    <3>. QED
      BY <2>2, <2>4, <3>1, <3>2 DEF PendingFits
  <2>5. ASSUME NEW x \in Holders, x # g
        PROVE  KeysOf(editor[f].old) \cap KeysOf(held'[x]) = {}
    <3>1. /\ KeysOf(editor[f].old) \subseteq attached
          /\ KeysOf(editor[f].old) \cap KeysOf(held[x]) = {}
      BY <2>2, <2>5 DEF PendingFits
    <3>2. CASE x = h
      BY <1>6, <1>8, <3>1, <3>2
    <3>3. CASE x # h
      BY <1>6, <3>1, <3>3
    <3>. QED
      BY <3>2, <3>3
  <2>6. /\ KeysOf(editor[f].new) \subseteq stored'
        /\ KeysOf(editor[f].old) \subseteq attached'
        /\ Doomed(editor[f].old, editor[f].new) \cap KeysOf(editor[f].new) = {}
    BY <1>1, <1>9, <2>2 DEF PendingFits
  <2>. QED
    BY <2>1, <2>4, <2>5, <2>6 DEF PendingFits
<1>. QED
  BY <1>7, <1>10, <1>12, <1>13, <1>14, <1>15 DEF ImageInv

\* An object that is deleted is in no row and will be in none.
LEMMA DeleteObjectKeeps ==
  ASSUME ImageInv, NEW e \in Editors, NEW k \in Keys, DeleteObject(e, k)
  PROVE  ImageInv'
<1>. DEFINE q == [editor[e] EXCEPT !.doomed = @ \ {k}]
<1>1. /\ k \in editor[e].doomed
      /\ stored' = stored \ {k}
      /\ editor' = [editor EXCEPT ![e] = q]
      /\ UNCHANGED <<presigned, held, attached, litter>>
  BY DEF DeleteObject
<1>2. editor[e] \in EditorType
  BY DEF ImageInv, ImageTypeOK, EditorType
<1>3. /\ q \in EditorType /\ q.pc = editor[e].pc /\ q.holder = editor[e].holder
      /\ q.old = editor[e].old /\ q.new = editor[e].new /\ q.doomed = editor[e].doomed \ {k}
  BY <1>2 DEF EditorType
<1>. HIDE DEF q
<1>4. editor'[e] = q /\ \A f \in Editors : f # e => editor'[f] = editor[f]
  BY <1>1 DEF ImageInv, ImageTypeOK
<1>5. k \in attached /\ \A h \in Holders : k \notin KeysOf(held[h])
  BY <1>1 DEF ImageInv, DoomedAreGone
<1>6. ImageTypeOK'
  BY <1>1, <1>3 DEF ImageInv, ImageTypeOK, EditorType
<1>7. HeldAreStored' /\ HoldersApart'
  BY <1>1, <1>5 DEF ImageInv, HeldAreStored, HoldersApart
<1>8. PhotosAreAlone' /\ OneHolder' /\ DoomedAreGone'
  BY <1>1, <1>3, <1>4 DEF ImageInv, PhotosAreAlone, OneHolder, DoomedAreGone
<1>9. WritesFit'
  <2>. SUFFICES ASSUME NEW f \in Editors, editor'[f].pc = "write", NEW h \in editor'[f].holder
                PROVE  PendingFits(f, h)'
    BY DEF WritesFit
  <2>1. /\ editor[f].pc = "write" /\ h \in editor[f].holder
        /\ editor'[f].old = editor[f].old /\ editor'[f].new = editor[f].new
    BY <1>3, <1>4
  <2>2. PendingFits(f, h) /\ h \in Holders
    BY <2>1 DEF ImageInv, WritesFit, ImageTypeOK
  <2>3. k \notin KeysOf(editor[f].new)
    BY <1>5, <2>2 DEF PendingFits
  <2>4. \A x \in Editors : KeysOf(editor'[x].new) = KeysOf(editor[x].new)
    BY <1>3, <1>4
  <2>. QED
    BY <1>1, <2>1, <2>2, <2>3, <2>4 DEF PendingFits
<1>. QED
  BY <1>6, <1>7, <1>8, <1>9 DEF ImageInv

\* The photos of a resource that no update has loaded may go.
LEMMA DeleteResourceKeeps ==
  ASSUME ImageInv, NEW h \in Photos, DeleteResourceOf(h)
  PROVE  ImageInv'
<1>1. /\ \A f \in Editors : h \notin editor[f].holder
      /\ held' = [held EXCEPT ![h] = Bare]
      /\ litter' = litter \cup KeysOf(held[h])
      /\ UNCHANGED <<presigned, stored, editor, attached>>
  BY DEF DeleteResourceOf
<1>2. h \in Holders /\ held[h] \in Row
  BY DEF Holders, ImageInv, ImageTypeOK
<1>3. KeysOf(held'[h]) = {} /\ \A g \in Holders : g # h => held'[g] = held[g]
  BY <1>1, <1>2, BareIsEmpty DEF ImageInv, ImageTypeOK
<1>4. ImageTypeOK'
  BY <1>1, <1>2, BareIsEmpty, KeysOfType DEF ImageInv, ImageTypeOK
<1>5. HeldAreStored' /\ HoldersApart'
  BY <1>1, <1>3 DEF ImageInv, HeldAreStored, HoldersApart
<1>6. PhotosAreAlone' /\ OneHolder' /\ DoomedAreGone'
  BY <1>1, <1>3 DEF ImageInv, PhotosAreAlone, OneHolder, DoomedAreGone
<1>7. WritesFit'
  <2>. SUFFICES ASSUME NEW f \in Editors, editor[f].pc = "write", NEW g \in editor[f].holder
                PROVE  PendingFits(f, g)'
    BY <1>1 DEF WritesFit
  <2>1. PendingFits(f, g) /\ g \in Holders /\ g # h
    BY <1>1 DEF ImageInv, WritesFit, ImageTypeOK
  <2>. QED
    BY <1>1, <1>3, <2>1 DEF PendingFits
<1>. QED
  BY <1>4, <1>5, <1>6, <1>7 DEF ImageInv

-----------------------------------------------------------------------------
LEMMA ImageStep == ASSUME ImageInv, ~Swaps, [ImageNext]_imageVars PROVE ImageInv'
<1>1. CASE UNCHANGED imageVars
  <2>1. ImageTypeOK' /\ HeldAreStored' /\ HoldersApart'
    BY <1>1 DEF imageVars, ImageInv, ImageTypeOK, HeldAreStored, HoldersApart
  <2>2. PhotosAreAlone' /\ OneHolder' /\ DoomedAreGone'
    BY <1>1 DEF imageVars, ImageInv, PhotosAreAlone, OneHolder, DoomedAreGone
  <2>3. ASSUME NEW e \in Editors, NEW h, PendingFits(e, h)
        PROVE  PendingFits(e, h)'
    BY <1>1, <2>3 DEF imageVars, PendingFits
  <2>4. WritesFit'
    BY <1>1, <2>3 DEF imageVars, ImageInv, WritesFit
  <2>. QED
    BY <2>1, <2>2, <2>4 DEF ImageInv
<1>2. ASSUME NEW k \in Keys, Presign(k) \/ PutObject(k) \/ DeleteFile(k)
      PROVE  ImageInv'
  BY <1>2, PresignKeeps, PutKeeps, DeleteFileKeeps
<1>3. ASSUME NEW e \in Editors, NEW h \in Avatars, NEW k \in Keys \cup {NoKey},
             UpdateAvatar(e, h, k)
      PROVE  ImageInv'
  BY <1>3, ReplaceKeeps DEF UpdateAvatar
<1>4. ASSUME NEW e \in Editors, NEW h \in Logos, NEW k \in Keys \cup {NoKey},
             UpdateLogo(e, h, k)
      PROVE  ImageInv'
  BY <1>4, ReplaceKeeps DEF UpdateLogo
<1>5. ASSUME NEW e \in Editors, NEW h \in Photos, NEW p \in Keys \cup {NoKey},
             NEW s \in SUBSET Keys, UpdatePhotos(e, h, [primary |-> p, supporting |-> s])
      PROVE  ImageInv'
  <2>1. [primary |-> p, supporting |-> s] \in Row
    BY DEF Row
  <2>. QED
    BY <1>5, <2>1, PhotosKeep
<1>6. ASSUME NEW e \in Editors, NEW k \in Keys, DeleteObjectFails(e, k)
      PROVE  ImageInv'
  <2>. DEFINE q == [editor[e] EXCEPT !.doomed = @ \ {k}]
  <2>1. /\ k \in editor[e].doomed
        /\ editor' = [editor EXCEPT ![e] = q]
        /\ UNCHANGED <<presigned, stored, held, attached>>
        /\ litter' \subseteq Keys
    BY <1>6 DEF DeleteObjectFails, ImageInv, ImageTypeOK
  <2>2. editor[e] \in EditorType
    BY DEF ImageInv, ImageTypeOK, EditorType
  <2>3. /\ q \in EditorType /\ q.pc = editor[e].pc /\ q.holder = editor[e].holder
        /\ q.new = editor[e].new /\ q.doomed \subseteq editor[e].doomed
    BY <2>2 DEF EditorType
  <2>4. editor[e].pc # "write"
    BY <2>1 DEF ImageInv, OneHolder
  <2>. HIDE DEF q
  <2>. QED
    BY <2>1, <2>3, <2>4, EditorLeavesKeeps
<1>7. ASSUME NEW e \in Editors, UpdateDone(e) \/ EditorEnds(e)
      PROVE  ImageInv'
  <2>1. /\ editor' = [editor EXCEPT ![e] = NoEditor]
        /\ UNCHANGED <<presigned, stored, held, attached>>
        /\ litter' \subseteq Keys
    BY <1>7 DEF UpdateDone, EditorEnds, ImageInv, ImageTypeOK
  <2>. QED
    BY <2>1, NoEditorFits, EditorLeavesKeeps
<1>8. ASSUME NEW h \in Photos, DeleteResourceOf(h)
      PROVE  ImageInv'
  BY <1>8, DeleteResourceKeeps
<1>. QED
  BY <1>1, <1>2, <1>3, <1>4, <1>5, <1>6, <1>7, <1>8, WriteHolderKeeps, DeleteObjectKeeps
  DEF ImageNext

LEMMA ImageInvariant == ASSUME ~Swaps PROVE ImageSpec => []ImageInv
<1>1. ImageInv /\ [ImageNext]_imageVars => ImageInv'
  BY ImageStep
<1>. QED
  BY <1>1, ImageInitOK, PTL DEF ImageSpec

-----------------------------------------------------------------------------
(* What is replaced goes *)

\* Only a handler that has written deletes.
OnlyCleanersDoom ==
    \A e \in Editors : editor[e].pc # "clean" => editor[e].doomed = {}

GoneInv == ImageInv /\ OnlyCleanersDoom /\ ReplacedImagesGo

\* What an update takes from a row and does not put back is doomed.
LEMMA DoomedOrKept ==
  ASSUME NEW old \in Row, NEW new \in Row
  PROVE  KeysOf(old) \subseteq KeysOf(new) \cup Doomed(old, new)
BY DEF Row, KeysOf, Doomed

LEMMA WriteDooms ==
  ASSUME GoneInv, NEW e \in Editors, WriteHolder(e)
  PROVE  OnlyCleanersDoom' /\ ReplacedImagesGo'
<1>1. PICK h \in editor[e].holder :
          /\ held' = [held EXCEPT ![h] = editor[e].new]
          /\ editor' = [editor EXCEPT ![e] = [editor[e] EXCEPT !.pc = "clean",
                            !.doomed = Doomed(editor[e].old, editor[e].new)]]
          /\ attached' = attached \cup KeysOf(editor[e].new)
          /\ litter' = litter \cup (KeysOf(held[h]) \
                                       (KeysOf(editor[e].old) \cup KeysOf(editor[e].new)))
          /\ editor[e].pc = "write"
          /\ UNCHANGED <<presigned, stored>>
  BY DEF WriteHolder
<1>. DEFINE old == editor[e].old
            new == editor[e].new
<1>2. editor[e] \in EditorType /\ h \in Holders /\ old \in Row /\ new \in Row
  BY DEF GoneInv, ImageInv, ImageTypeOK, EditorType
<1>3. /\ editor'[e].pc = "clean" /\ editor'[e].doomed = Doomed(old, new)
      /\ \A f \in Editors : f # e => editor'[f] = editor[f]
      /\ held'[h] = new
      /\ \A g \in Holders : g # h => held'[g] = held[g]
  BY <1>1, <1>2 DEF GoneInv, ImageInv, ImageTypeOK, EditorType
<1>4. editor[e].doomed = {}
  BY <1>1 DEF GoneInv, OnlyCleanersDoom
<1>5. KeysOf(old) \subseteq KeysOf(new) \cup Doomed(old, new)
  BY <1>2, DoomedOrKept
<1>6. OnlyCleanersDoom'
  BY <1>3 DEF GoneInv, OnlyCleanersDoom
<1>7. ReplacedImagesGo'
  <2>. SUFFICES ASSUME NEW k \in (stored \cap attached') \ litter',
                       \A g \in Holders : k \notin KeysOf(held'[g])
                PROVE  \E f \in Editors : k \in editor'[f].doomed
    BY <1>1 DEF ReplacedImagesGo
  <2>1. k \notin KeysOf(new) /\ k \in (stored \cap attached) \ litter
    BY <1>1, <1>2, <1>3
  <2>2. CASE k \in KeysOf(held[h])
    <3>1. k \in KeysOf(old)
      BY <1>1, <2>1, <2>2
    <3>. QED
      BY <1>3, <1>5, <2>1, <3>1
  <2>3. CASE k \notin KeysOf(held[h])
    <3>1. PICK f \in Editors : k \in editor[f].doomed
      BY <1>2, <1>3, <2>1, <2>3 DEF GoneInv, ReplacedImagesGo
    <3>. QED
      BY <1>3, <1>4, <3>1
  <2>. QED
    BY <2>2, <2>3
<1>. QED
  BY <1>6, <1>7

\* A handler that writes nothing in a row dooms no more than it did, and what it
\* gives up is deleted or noted.
LEMMA EditorGivesUp ==
  ASSUME GoneInv, NEW e \in Editors, NEW q,
         editor' = [editor EXCEPT ![e] = q],
         q.pc # "clean" => q.doomed = {},
         UNCHANGED <<held, attached>>, stored' \subseteq stored, litter \subseteq litter',
         \A k \in editor[e].doomed \ q.doomed : k \notin stored' \/ k \in litter'
  PROVE  OnlyCleanersDoom' /\ ReplacedImagesGo'
<1>1. editor'[e] = q /\ \A f \in Editors : f # e => editor'[f] = editor[f]
  BY DEF GoneInv, ImageInv, ImageTypeOK
<1>. QED
  BY <1>1 DEF GoneInv, OnlyCleanersDoom, ReplacedImagesGo

LEMMA GoneStep == ASSUME GoneInv, ~Swaps, [ImageNext]_imageVars PROVE GoneInv'
<1>1. ImageInv'
  BY ImageStep DEF GoneInv
<1>. SUFFICES OnlyCleanersDoom' /\ ReplacedImagesGo'
  BY <1>1 DEF GoneInv
<1>2. CASE UNCHANGED imageVars
  BY <1>2 DEF imageVars, GoneInv, OnlyCleanersDoom, ReplacedImagesGo
<1>3. ASSUME NEW k \in Keys, Presign(k) \/ PutObject(k) \/ DeleteFile(k)
      PROVE  OnlyCleanersDoom' /\ ReplacedImagesGo'
  BY <1>3
  DEF Presign, PutObject, DeleteFile, GoneInv, OnlyCleanersDoom, ReplacedImagesGo
<1>4. ASSUME NEW e \in Editors, NEW h, NEW new, LoadHolder(e, h, new)
      PROVE  OnlyCleanersDoom' /\ ReplacedImagesGo'
  <2>. DEFINE q == [pc |-> "write", holder |-> {h}, old |-> held[h], new |-> new,
                    doomed |-> {}]
  <2>1. /\ editor' = [editor EXCEPT ![e] = q]
        /\ editor[e].doomed = {}
        /\ UNCHANGED <<presigned, stored, held, attached, litter>>
    BY <1>4 DEF LoadHolder, GoneInv, OnlyCleanersDoom
  <2>2. q.pc = "write" /\ q.doomed = {}
    OBVIOUS
  <2>. HIDE DEF q
  <2>. QED
    BY <2>1, <2>2, EditorGivesUp
<1>5. ASSUME NEW e \in Editors, NEW h \in Avatars, NEW k \in Keys \cup {NoKey},
             UpdateAvatar(e, h, k)
      PROVE  OnlyCleanersDoom' /\ ReplacedImagesGo'
  BY <1>4, <1>5 DEF UpdateAvatar
<1>6. ASSUME NEW e \in Editors, NEW h \in Logos, NEW k \in Keys \cup {NoKey},
             UpdateLogo(e, h, k)
      PROVE  OnlyCleanersDoom' /\ ReplacedImagesGo'
  BY <1>4, <1>6 DEF UpdateLogo
<1>7. ASSUME NEW e \in Editors, NEW h \in Photos, NEW new, UpdatePhotos(e, h, new)
      PROVE  OnlyCleanersDoom' /\ ReplacedImagesGo'
  BY <1>4, <1>7 DEF UpdatePhotos
<1>8. ASSUME NEW e \in Editors, NEW k \in Keys, DeleteObject(e, k) \/ DeleteObjectFails(e, k)
      PROVE  OnlyCleanersDoom' /\ ReplacedImagesGo'
  <2>. DEFINE q == [editor[e] EXCEPT !.doomed = @ \ {k}]
  <2>1. /\ k \in editor[e].doomed
        /\ editor' = [editor EXCEPT ![e] = q]
        /\ UNCHANGED <<held, attached>>
        /\ stored' \subseteq stored /\ litter \subseteq litter'
        /\ k \notin stored' \/ k \in litter'
    BY <1>8 DEF DeleteObject, DeleteObjectFails
  <2>2. editor[e].pc = "clean" /\ editor[e] \in EditorType
    BY <2>1 DEF GoneInv, OnlyCleanersDoom, ImageInv, ImageTypeOK, EditorType
  <2>3. q.pc = "clean" /\ q.doomed = editor[e].doomed \ {k}
    BY <2>2 DEF EditorType
  <2>. HIDE DEF q
  <2>. QED
    BY <2>1, <2>3, EditorGivesUp
<1>9. ASSUME NEW e \in Editors, UpdateDone(e) \/ EditorEnds(e)
      PROVE  OnlyCleanersDoom' /\ ReplacedImagesGo'
  <2>1. /\ editor' = [editor EXCEPT ![e] = NoEditor]
        /\ UNCHANGED <<presigned, stored, held, attached>>
        /\ litter \subseteq litter' /\ editor[e].doomed \subseteq litter'
    BY <1>9 DEF UpdateDone, EditorEnds
  <2>. QED
    BY <2>1, NoEditorFits, EditorGivesUp
<1>10. ASSUME NEW h \in Photos, DeleteResourceOf(h)
       PROVE  OnlyCleanersDoom' /\ ReplacedImagesGo'
  <2>1. /\ \A g \in Holders : g # h => held'[g] = held[g]
        /\ litter' = litter \cup KeysOf(held[h])
        /\ UNCHANGED <<stored, editor, attached>>
    BY <1>10 DEF DeleteResourceOf, GoneInv, ImageInv, ImageTypeOK
  <2>. QED
    BY <2>1 DEF GoneInv, OnlyCleanersDoom, ReplacedImagesGo
<1>. QED
  BY <1>2, <1>3, <1>5, <1>6, <1>7, <1>8, <1>9, <1>10, WriteDooms DEF ImageNext

LEMMA GoneInitOK == ASSUME ImageInit PROVE GoneInv
BY ImageInitOK, NoEditorFits
DEF ImageInit, GoneInv, OnlyCleanersDoom, ReplacedImagesGo

-----------------------------------------------------------------------------
(* Theorems *)

\* Every column and local variable keeps its type.
THEOREM ImageTypesHold == ASSUME ~Swaps PROVE ImageSpec => []ImageTypeOK
<1>1. ImageInv => ImageTypeOK
  BY DEF ImageInv
<1>. QED
  BY <1>1, ImageInvariant, PTL

\* While no update moves a photo from one field to the other, no object is deleted
\* that a row still holds, in any overlap of updates and cleanups.
THEOREM ImagesAreThere == ASSUME ~Swaps PROVE ImageSpec => []NoBrokenImage
<1>1. ImageInv => NoBrokenImage
  BY DEF ImageInv, HeldAreStored, NoBrokenImage
<1>. QED
  BY <1>1, ImageInvariant, PTL

\* An image that was in use and is not any more leaves the bucket, unless what the
\* property names got in the way: a failed deletion, a handler that ended, an
\* overlapping update, a deleted resource (update, deleteObject).
THEOREM ReplacedImagesLeave == ASSUME ~Swaps PROVE ImageSpec => []ReplacedImagesGo
<1>1. GoneInv /\ [ImageNext]_imageVars => GoneInv'
  BY GoneStep
<1>2. GoneInv => ReplacedImagesGo
  BY DEF GoneInv
<1>. QED
  BY <1>1, <1>2, GoneInitOK, PTL DEF ImageSpec

-----------------------------------------------------------------------------
(***************************************************************************)
(* Customers: one customer per address, and the report of an import.       *)
(***************************************************************************)

(* The inductive invariant *)

MaybeEmail == CustomerEmails \cup {NoAddress}

Reports == [created : SUBSET Nat, skipped : SUBSET Nat, failed : SUBSET Nat]

Handler == [pc : {"idle", "count", "insert", "row", "reread", "flush"},
            op : {"none", "create", "import", "update"},
            id : SUBSET People, email : MaybeEmail, loaded : MaybeEmail,
            batch : Seq(MaybeEmail), index : Nat, report : Reports]

Settled(q) == IF q.pc = "row" THEN q.index ELSE q.index - 1

\* The report of a running import is true, if these addresses were seen.
ReportIsTrue(q, known) ==
    LET r == q.report
    IN  /\ r.created \cup r.skipped \cup r.failed = 1 .. Settled(q)
        /\ r.created \cap r.skipped = {}
        /\ (r.created \cup r.skipped) \cap r.failed = {}
        /\ \A i \in r.created : ~IsBatchDuplicate(q.batch, i)
        /\ \A i \in r.skipped :
              \/ Folded(q.batch[i]) \subseteq known
              \/ \E j \in r.failed : j < i /\ Folded(q.batch[j]) = Folded(q.batch[i])

\* An import is at a row of its batch, which it counts or inserts only if no
\* earlier row has the address; what it created, customers have had.
ImportFits(q, known) ==
    /\ q.pc \in {"row", "count", "insert"}
    /\ q.index <= Len(q.batch)
    /\ q.pc # "row" => /\ q.index >= 1
                       /\ q.email = q.batch[q.index]
                       /\ ~IsBatchDuplicate(q.batch, q.index)
    /\ \A i \in q.report.created : Folded(q.batch[i]) \subseteq known
    /\ ReportIsTrue(q, known)

ClerkFits(q, known) ==
    /\ q \in Handler
    /\ q.index <= Len(q.batch)
    /\ q.op # "update" => q.id = {}
    /\ q.op = "update" => q.pc \in {"count", "reread", "flush"} /\ \E p \in People : q.id = {p}
    /\ q.op = "create" => q.pc \in {"count", "insert"}
    /\ q.op = "none" => q.pc = "idle"
    /\ q.op = "import" => ImportFits(q, known)

\* The handler is about to write an address.
Writes(q) == q.pc \in {"insert", "reread", "flush"} /\ q.email \in CustomerEmails

\* What a handler is about to write is on no row but its own, and no other
\* handler is about to write it, unless they raced.
Alone ==
    /\ \A c \in Clerks, p \in People :
          /\ Writes(clerk[c])
          /\ customer[p] \in CustomerEmails
          /\ Folded(customer[p]) = Folded(clerk[c].email)
          => p \in clerk[c].id \/ Folded(customer[p]) \subseteq raced
    /\ \A c, d \in Clerks :
          /\ c # d
          /\ Writes(clerk[c])
          /\ Writes(clerk[d])
          /\ Folded(clerk[c].email) = Folded(clerk[d].email)
          => Folded(clerk[c].email) \subseteq raced

CustomerInv ==
    /\ customer \in [People -> MaybeEmail \cup {Absent}]
    /\ clerk \in [Clerks -> Handler]
    /\ raced \subseteq Addresses
    /\ seen \subseteq Addresses
    /\ \A c \in Clerks : ClerkFits(clerk[c], seen)
    /\ \A p \in People : Folded(customer[p]) \subseteq seen
    /\ Alone
    /\ NoDuplicateAddresses

-----------------------------------------------------------------------------
(* Handlers *)

LEMMA OffDutyFits == ASSUME NEW known PROVE ClerkFits(OffDuty, known) /\ ~Writes(OffDuty)
BY DEF OffDuty, NoReport, ClerkFits, Handler, Reports, MaybeEmail, Writes

LEMMA FoldedType == ASSUME NEW e PROVE Folded(e) \subseteq Addresses
BY DEF Folded, CustomerEmails

LEMMA FoldedSome == ASSUME NEW e \in CustomerEmails PROVE \E a \in Addresses : Folded(e) = {a}
BY DEF Folded, CustomerEmails

\* More addresses seen spoil no report.
LEMMA SeenGrows ==
    ASSUME NEW q, NEW known, NEW more, known \subseteq more, ClerkFits(q, known)
    PROVE  ClerkFits(q, more)
BY DEF ClerkFits, ImportFits, ReportIsTrue

\* An import begins with a row that no earlier one is a duplicate of.
LEMMA RowBegins ==
    ASSUME NEW known, NEW q, NEW n, ClerkFits(q, known), q.pc = "row", q.op = "import",
           n \in Handler, n.op = "import", n.pc \in {"insert", "count"}, n.id = q.id,
           n.batch = q.batch, n.report = q.report,
           n.index = q.index + 1, n.index <= Len(n.batch),
           n.email = n.batch[n.index], ~IsBatchDuplicate(n.batch, n.index)
    PROVE  ClerkFits(n, known)
<1>1. /\ n.index \in Nat /\ q.index \in Nat /\ q \in Handler
  BY DEF ClerkFits, Handler
<1>2. Settled(n) = Settled(q) BY <1>1 DEF Settled
<1>3. ImportFits(q, known) BY DEF ClerkFits
<1>4. ReportIsTrue(n, known) BY <1>2, <1>3 DEF ImportFits, ReportIsTrue
<1>5. ImportFits(n, known) BY <1>1, <1>3, <1>4 DEF ImportFits
<1>6. n.id = {} BY DEF ClerkFits
<1> QED BY <1>1, <1>5, <1>6 DEF ClerkFits

\* An import is done with row i: it is in one list of the report, rightly.
LEMMA RowSettles ==
    ASSUME NEW known, NEW q, NEW n, NEW i \in Nat,
           ClerkFits(q, known), q.op = "import", i = Settled(q) + 1, i <= Len(q.batch),
           n \in Handler, n.op = "import", n.pc = "row", n.id = q.id,
           n.batch = q.batch, n.index = i,
           \/ /\ n.report.created = q.report.created \cup {i}
              /\ n.report.skipped = q.report.skipped
              /\ n.report.failed = q.report.failed
              /\ ~IsBatchDuplicate(q.batch, i) /\ Folded(q.batch[i]) \subseteq known
           \/ /\ n.report.created = q.report.created
              /\ n.report.skipped = q.report.skipped \cup {i}
              /\ n.report.failed = q.report.failed
              /\ IsBatchDuplicate(q.batch, i) \/ Folded(q.batch[i]) \subseteq known
           \/ /\ n.report.created = q.report.created
              /\ n.report.skipped = q.report.skipped
              /\ n.report.failed = q.report.failed \cup {i}
    PROVE  ClerkFits(n, known)
<1>1. /\ q \in Handler /\ q.index \in Nat /\ ImportFits(q, known) /\ ReportIsTrue(q, known)
      /\ q.id = {}
  BY DEF ClerkFits, Handler, ImportFits
<1>2. Settled(n) = i /\ Settled(q) = i - 1 /\ Settled(q) \in Int BY <1>1 DEF Settled
<1> DEFINE c == q.report.created
           s == q.report.skipped
           f == q.report.failed
<1>3. c \cup s \cup f = 1 .. i - 1 BY <1>1, <1>2 DEF ReportIsTrue
<1>4. i >= 1
  BY <1>1, <1>2 DEF ImportFits, Settled
<1>5. (1 .. i - 1) \cup {i} = 1 .. i /\ i \notin 1 .. i - 1 BY <1>4
<1>6. /\ c \cap s = {} /\ (c \cup s) \cap f = {}
      /\ \A j \in c : ~IsBatchDuplicate(q.batch, j) /\ Folded(q.batch[j]) \subseteq known
      /\ \A j \in s : \/ Folded(q.batch[j]) \subseteq known
                      \/ \E k \in f : k < j /\ Folded(q.batch[k]) = Folded(q.batch[j])
  BY <1>1 DEF ReportIsTrue, ImportFits
<1>8. IsBatchDuplicate(q.batch, i) =>
          \/ Folded(q.batch[i]) \subseteq known
          \/ \E j \in f : j < i /\ Folded(q.batch[j]) = Folded(q.batch[i])
  <2> SUFFICES ASSUME IsBatchDuplicate(q.batch, i)
               PROVE  \/ Folded(q.batch[i]) \subseteq known
                      \/ \E j \in f : j < i /\ Folded(q.batch[j]) = Folded(q.batch[i])
    OBVIOUS
  <2>1. PICK j \in 1 .. i - 1 : Folded(q.batch[j]) = Folded(q.batch[i])
    BY DEF IsBatchDuplicate
  <2>2. j \in c \/ j \in s \/ j \in f BY <1>3
  <2>3. j \in Int /\ j < i OBVIOUS
  <2>4. \A k \in f : k \in 1 .. i - 1 BY <1>3
  <2> QED BY <2>1, <2>2, <2>3, <2>4, <1>6
<1> HIDE DEF c, s, f
<1>9. ReportIsTrue(n, known)
  <2>1. CASE /\ n.report.created = c \cup {i} /\ n.report.skipped = s /\ n.report.failed = f
             /\ ~IsBatchDuplicate(q.batch, i) /\ Folded(q.batch[i]) \subseteq known
    BY <2>1, <1>2, <1>3, <1>5, <1>6 DEF ReportIsTrue
  <2>2. CASE /\ n.report.created = c /\ n.report.skipped = s \cup {i} /\ n.report.failed = f
             /\ IsBatchDuplicate(q.batch, i) \/ Folded(q.batch[i]) \subseteq known
    BY <2>2, <1>2, <1>3, <1>5, <1>6, <1>8 DEF ReportIsTrue
  <2>3. CASE /\ n.report.created = c /\ n.report.skipped = s /\ n.report.failed = f \cup {i}
    BY <2>3, <1>2, <1>3, <1>5, <1>6 DEF ReportIsTrue
  <2> QED BY <2>1, <2>2, <2>3 DEF c, s, f
<1>10. \A j \in n.report.created : Folded(n.batch[j]) \subseteq known
  BY <1>6 DEF c
<1>11. ImportFits(n, known)
  BY <1>9, <1>10 DEF ImportFits
<1> QED BY <1>1, <1>11 DEF ClerkFits

-----------------------------------------------------------------------------
(* Steps *)

LEMMA CustomerInitOK == ASSUME CustomerInit PROVE CustomerInv
<1>1. \A c \in Clerks : clerk[c] = OffDuty /\ ClerkFits(clerk[c], seen) /\ ~Writes(clerk[c])
  BY OffDutyFits DEF CustomerInit
<1>2. \A p \in People : customer[p] = Absent /\ customer[p] \notin CustomerEmails
  BY CustomersAssumption DEF CustomerInit
<1>3. \A p \in People : Folded(customer[p]) = {} BY <1>2 DEF Folded
<1>4. OffDuty \in Handler BY OffDutyFits DEF ClerkFits
<1> QED BY <1>1, <1>2, <1>3, <1>4 DEF CustomerInit, CustomerInv, Alone, NoDuplicateAddresses

\* A handler that is not about to write, or still writes the same, is harmless.
LEMMA ClerkKeeps ==
    ASSUME CustomerInv, NEW c \in Clerks, NEW n,
           ClerkFits(n, seen),
           Writes(n) => /\ Writes(clerk[c])
                        /\ n.email = clerk[c].email
                        /\ n.id = clerk[c].id,
           clerk' = [clerk EXCEPT ![c] = n],
           UNCHANGED <<customer, raced, seen>>
    PROVE  CustomerInv'
<1>1. n \in Handler BY DEF ClerkFits
<1>2. clerk' \in [Clerks -> Handler] BY <1>1 DEF CustomerInv
<1>3. \A d \in Clerks : clerk'[d] = IF d = c THEN n ELSE clerk[d] BY DEF CustomerInv
<1>4. \A d \in Clerks : Writes(clerk'[d]) => /\ Writes(clerk[d])
                                             /\ clerk'[d].email = clerk[d].email
                                             /\ clerk'[d].id = clerk[d].id
  BY <1>3
<1>5. \A d \in Clerks : ClerkFits(clerk'[d], seen') BY <1>3 DEF CustomerInv
<1>6. Alone' BY <1>4 DEF CustomerInv, Alone
<1> QED BY <1>2, <1>5, <1>6 DEF CustomerInv, NoDuplicateAddresses

\* Being about to write an address that no other row has is noted.
LEMMA ClaimKeeps ==
    ASSUME CustomerInv, NEW c \in Clerks, NEW n,
           ClerkFits(n, seen), n.email \in CustomerEmails,
           \A p \in People : Folded(customer[p]) = Folded(n.email)
                => p \in n.id \/ Folded(customer[p]) \subseteq raced,
           clerk' = [clerk EXCEPT ![c] = n], Claim(c, n.email),
           UNCHANGED <<customer, seen>>
    PROVE  CustomerInv'
<1>1. n \in Handler BY DEF ClerkFits
<1>2. clerk' \in [Clerks -> Handler] BY <1>1 DEF CustomerInv
<1>3. \A d \in Clerks : clerk'[d] = IF d = c THEN n ELSE clerk[d] BY DEF CustomerInv
<1>4. raced \subseteq raced' /\ raced' \subseteq Addresses
  BY FoldedType DEF Claim, CustomerInv
<1>5. \A d \in Clerks \ {c} :
          Writes(clerk[d]) /\ Folded(clerk[d].email) = Folded(n.email)
              => Folded(n.email) \subseteq raced'
  BY DEF Claim, Writes
<1>6. \A d \in Clerks : ClerkFits(clerk'[d], seen') BY <1>3 DEF CustomerInv
<1>7. ASSUME NEW d \in Clerks, NEW p \in People, Writes(clerk'[d]),
             customer[p] \in CustomerEmails, Folded(customer[p]) = Folded(clerk'[d].email)
      PROVE  p \in clerk'[d].id \/ Folded(customer[p]) \subseteq raced'
  <2>1. CASE d = c BY <2>1, <1>3, <1>4, <1>7
  <2>2. CASE d # c BY <2>2, <1>3, <1>4, <1>7 DEF CustomerInv, Alone
  <2> QED BY <2>1, <2>2
<1>8. ASSUME NEW d \in Clerks, NEW f \in Clerks, d # f, Writes(clerk'[d]), Writes(clerk'[f]),
             Folded(clerk'[d].email) = Folded(clerk'[f].email)
      PROVE  Folded(clerk'[d].email) \subseteq raced'
  <2>1. CASE d = c BY <2>1, <1>3, <1>5, <1>8
  <2>2. CASE f = c BY <2>2, <1>3, <1>5, <1>8
  <2>3. CASE d # c /\ f # c BY <2>3, <1>3, <1>4, <1>8 DEF CustomerInv, Alone
  <2> QED BY <2>1, <2>2, <2>3
<1>9. Alone' BY <1>7, <1>8 DEF Alone
<1>10. NoDuplicateAddresses' BY <1>4 DEF CustomerInv, NoDuplicateAddresses
<1> QED BY <1>2, <1>4, <1>6, <1>9, <1>10 DEF CustomerInv

\* An email that its handler was about to write lands in a row.
LEMMA WriteCustomerKeeps ==
    ASSUME CustomerInv, NEW c \in Clerks, NEW n, NEW p \in People,
           clerk[c].pc \in {"insert", "flush"},
           clerk[c].id \subseteq {p},
           ClerkFits(n, seen'), ~Writes(n),
           clerk' = [clerk EXCEPT ![c] = n],
           customer' = [customer EXCEPT ![p] = clerk[c].email],
           seen' = seen \cup Folded(clerk[c].email),
           UNCHANGED raced
    PROVE  CustomerInv'
<1> DEFINE e == clerk[c].email
<1>1. n \in Handler /\ e \in MaybeEmail BY DEF ClerkFits, CustomerInv, Handler
<1>2. clerk' \in [Clerks -> Handler] BY <1>1 DEF CustomerInv
<1>3. \A d \in Clerks : clerk'[d] = IF d = c THEN n ELSE clerk[d] BY DEF CustomerInv
<1>4. /\ customer' \in [People -> MaybeEmail \cup {Absent}]
      /\ \A r \in People : customer'[r] = IF r = p THEN e ELSE customer[r]
  BY <1>1 DEF CustomerInv
<1>5. seen \subseteq seen' /\ seen' \subseteq Addresses BY FoldedType DEF CustomerInv
<1>6. \A d \in Clerks : ClerkFits(clerk'[d], seen') BY <1>3, <1>5, SeenGrows DEF CustomerInv
<1>7. \A r \in People : Folded(customer'[r]) \subseteq seen'
  BY <1>4, <1>5 DEF CustomerInv
<1> HIDE DEF e
<1>8. e \in CustomerEmails => Writes(clerk[c]) BY DEF Writes, e
<1>9. ASSUME NEW d \in Clerks, NEW r \in People, Writes(clerk'[d]),
             customer'[r] \in CustomerEmails, Folded(customer'[r]) = Folded(clerk'[d].email)
      PROVE  r \in clerk'[d].id \/ Folded(customer'[r]) \subseteq raced'
  <2>1. d # c /\ clerk'[d] = clerk[d] BY <1>3, <1>9
  <2>2. CASE r = p BY <2>1, <2>2, <1>4, <1>8, <1>9 DEF CustomerInv, Alone, e
  <2>3. CASE r # p BY <2>1, <2>3, <1>4, <1>9 DEF CustomerInv, Alone
  <2> QED BY <2>2, <2>3
<1>10. Alone' BY <1>3, <1>9 DEF CustomerInv, Alone
<1>11. \A r \in People \ {p} :
           customer[r] \in CustomerEmails /\ e \in CustomerEmails /\ Folded(customer[r]) = Folded(e)
            => Folded(e) \subseteq raced
  BY <1>8 DEF CustomerInv, Alone, e
<1>12. NoDuplicateAddresses'
  <2> SUFFICES ASSUME NEW r \in People, NEW t \in People, r # t, customer'[r] \in CustomerEmails,
                      customer'[t] \in CustomerEmails, Folded(customer'[r]) = Folded(customer'[t])
               PROVE  Folded(customer'[r]) \subseteq raced
    BY DEF NoDuplicateAddresses
  <2>1. CASE r = p BY <2>1, <1>4, <1>11
  <2>2. CASE t = p BY <2>2, <1>4, <1>11
  <2>3. CASE r # p /\ t # p BY <2>3, <1>4 DEF CustomerInv, NoDuplicateAddresses
  <2> QED BY <2>1, <2>2, <2>3
<1> QED BY <1>2, <1>4, <1>5, <1>6, <1>7, <1>10, <1>12 DEF CustomerInv

LEMMA CreateKeeps ==
    ASSUME CustomerInv, NEW c \in Clerks, NEW e \in MaybeEmail, CreateCustomer(c, e)
    PROVE  CustomerInv'
<1> DEFINE n == [OffDuty EXCEPT !.op = "create", !.email = e,
                                !.pc = IF e = NoAddress THEN "insert" ELSE "count"]
<1>1. ClerkFits(n, seen)
  <2>1. OffDuty \in Handler BY OffDutyFits DEF ClerkFits
  <2>2. n \in Handler BY <2>1 DEF Handler
  <2>3. n.op = "create" /\ n.id = {} /\ n.pc \in {"count", "insert"} /\ n.index <= Len(n.batch)
    BY DEF OffDuty
  <2> QED BY <2>2, <2>3 DEF ClerkFits
<1>2. ~Writes(n) BY CustomersAssumption DEF Writes, OffDuty
<1> HIDE DEF n
<1>3. clerk' = [clerk EXCEPT ![c] = n] /\ UNCHANGED <<customer, raced, seen>>
  BY DEF CreateCustomer, Do, n
<1> QED BY <1>1, <1>2, <1>3, ClerkKeeps

LEMMA BulkCreateKeeps ==
    ASSUME CustomerInv, NEW c \in Clerks, NEW batch \in Seq(MaybeEmail), BulkCreate(c, batch)
    PROVE  CustomerInv'
<1> DEFINE n == [OffDuty EXCEPT !.op = "import", !.pc = "row", !.batch = batch]
<1>1. n \in Handler
  <2>1. OffDuty \in Handler BY OffDutyFits DEF ClerkFits
  <2> QED BY <2>1 DEF Handler
<1>2. /\ n.op = "import" /\ n.pc = "row" /\ n.id = {} /\ n.index = 0 /\ n.batch = batch
      /\ n.report.created = {} /\ n.report.skipped = {} /\ n.report.failed = {}
  BY DEF OffDuty, NoReport
<1> HIDE DEF n
<1>3. 0 <= Len(n.batch) BY <1>2
<1>4. 1 .. Settled(n) = {} BY <1>2 DEF Settled
<1>5. ClerkFits(n, seen)
  BY <1>1, <1>2, <1>3, <1>4 DEF ClerkFits, ImportFits, ReportIsTrue
<1>6. ~Writes(n) BY <1>2 DEF Writes
<1>7. clerk' = [clerk EXCEPT ![c] = n] /\ UNCHANGED <<customer, raced, seen>>
  BY DEF BulkCreate, Do, n
<1> QED BY <1>5, <1>6, <1>7, ClerkKeeps

\* A handler that is done with its row, and what it takes from there.
LEMMA TakenFits ==
    ASSUME NEW known, NEW q, ClerkFits(q, known), q.pc = "count",
           Folded(q.email) \subseteq known
    PROVE  ClerkFits(Taken(q), known) /\ ~Writes(Taken(q))
<1>1. CASE q.op # "import" BY <1>1, OffDutyFits DEF Taken
<1>2. CASE q.op = "import"
  <2> DEFINE n == [q EXCEPT !.pc = "row", !.report.skipped = @ \cup {q.index}]
  <2>1. q \in Handler /\ ImportFits(q, known) BY <1>2 DEF ClerkFits
  <2>2. n \in Handler BY <2>1 DEF Handler, Reports
  <2>3. /\ n.op = "import" /\ n.pc = "row" /\ n.id = q.id /\ n.batch = q.batch
        /\ n.index = q.index /\ n.report.created = q.report.created
        /\ n.report.skipped = q.report.skipped \cup {q.index}
        /\ n.report.failed = q.report.failed
    BY <1>2, <2>1 DEF Handler, Reports
  <2>4. /\ q.index \in Nat /\ q.index = Settled(q) + 1 /\ q.index <= Len(q.batch)
        /\ Folded(q.batch[q.index]) \subseteq known
    BY <2>1 DEF Handler, Settled, ImportFits
  <2>5. Taken(q) = n BY <1>2 DEF Taken
  <2> HIDE DEF n
  <2>6. ClerkFits(n, known) BY <1>2, <2>2, <2>3, <2>4, RowSettles
  <2> QED BY <2>3, <2>5, <2>6 DEF Writes
<1> QED BY <1>1, <1>2

LEMMA CountKeeps == ASSUME CustomerInv, NEW c \in Clerks, CountEmail(c) PROVE CustomerInv'
<1> DEFINE q == clerk[c]
<1>1. ClerkFits(q, seen) /\ q \in Handler /\ q.pc = "count" BY DEF CustomerInv, CountEmail
<1>2. CASE EmailExists(q.email)
  <2>1. Folded(q.email) \subseteq seen BY <1>2 DEF EmailExists, CustomerInv
  <2>2. clerk' = [clerk EXCEPT ![c] = Taken(q)] /\ UNCHANGED <<customer, raced, seen>>
    BY <1>2 DEF CountEmail, Do
  <2>3. ClerkFits(Taken(q), seen) /\ ~Writes(Taken(q)) BY <1>1, <2>1, TakenFits
  <2> QED BY <2>2, <2>3, ClerkKeeps
<1>3. CASE ~EmailExists(q.email)
  <2> DEFINE n == Free(q)
  <2>1. /\ clerk' = [clerk EXCEPT ![c] = n] /\ Claim(c, q.email)
        /\ UNCHANGED <<customer, seen>>
    BY <1>3 DEF CountEmail, Do
  <2>2. /\ n \in Handler
        /\ n.op = q.op /\ n.id = q.id /\ n.email = q.email /\ n.batch = q.batch
        /\ n.index = q.index /\ n.report = q.report
        /\ n.pc = IF q.op = "update" THEN "reread" ELSE "insert"
    BY <1>1 DEF Free, Handler
  <2> HIDE DEF n
  <2>3. q.op = "import" => ImportFits(n, seen)
    BY <1>1, <2>2 DEF ClerkFits, ImportFits, ReportIsTrue, Settled
  <2>4. ClerkFits(n, seen) BY <1>1, <2>2, <2>3 DEF ClerkFits
  <2>5. \A p \in People : Folded(customer[p]) = Folded(q.email) => q.email \notin CustomerEmails
    <3> SUFFICES ASSUME NEW p \in People, Folded(customer[p]) = Folded(q.email), q.email \in CustomerEmails
                 PROVE  FALSE
      OBVIOUS
    <3>1. customer[p] \in CustomerEmails BY FoldedSome DEF Folded
    <3> QED BY <3>1, <1>3 DEF EmailExists
  <2>6. CASE q.email \in CustomerEmails BY <2>1, <2>2, <2>4, <2>5, <2>6, ClaimKeeps
  <2>7. CASE q.email \notin CustomerEmails
    <3>1. ~Writes(n) BY <2>2, <2>7 DEF Writes
    <3>2. raced' = raced BY <2>1, <2>7 DEF Claim, Folded
    <3> QED BY <2>1, <2>4, <3>1, <3>2, ClerkKeeps
  <2> QED BY <2>6, <2>7
<1> QED BY <1>2, <1>3

LEMMA InsertCustomerKeeps == ASSUME CustomerInv, NEW c \in Clerks, Insert(c) PROVE CustomerInv'
<1> DEFINE q == clerk[c]
           n == IF q.op = "import"
                THEN [q EXCEPT !.pc = "row", !.report.created = @ \cup {q.index}]
                ELSE OffDuty
<1>1. ClerkFits(q, seen) /\ q \in Handler /\ q.pc = "insert" /\ q.id = {}
  BY DEF CustomerInv, Insert, ClerkFits
<1>2. PICK p \in People : customer' = [customer EXCEPT ![p] = q.email]
  BY DEF Insert
<1>3. /\ clerk' = [clerk EXCEPT ![c] = n] /\ seen' = seen \cup Folded(q.email)
      /\ UNCHANGED raced
  BY DEF Insert, Do
<1>4. ClerkFits(q, seen') BY <1>1, <1>3, SeenGrows
<1>5. ClerkFits(n, seen') /\ ~Writes(n)
  <2>1. CASE q.op # "import" BY <2>1, OffDutyFits
  <2>2. CASE q.op = "import"
    <3>1. ImportFits(q, seen') BY <1>4, <2>2 DEF ClerkFits
    <3>2. n \in Handler BY <1>1, <2>2 DEF Handler, Reports
    <3>3. /\ n.op = "import" /\ n.pc = "row" /\ n.id = q.id /\ n.batch = q.batch
          /\ n.index = q.index /\ n.report.created = q.report.created \cup {q.index}
          /\ n.report.skipped = q.report.skipped
          /\ n.report.failed = q.report.failed
      BY <1>1, <2>2 DEF Handler, Reports
    <3>4. /\ q.index \in Nat /\ q.index = Settled(q) + 1 /\ q.index <= Len(q.batch)
          /\ Folded(q.batch[q.index]) \subseteq seen'
          /\ ~IsBatchDuplicate(q.batch, q.index)
      BY <1>1, <1>3, <3>1 DEF Handler, Settled, ImportFits
    <3> HIDE DEF n
    <3>5. ClerkFits(n, seen') BY <1>4, <2>2, <3>2, <3>3, <3>4, RowSettles
    <3> QED BY <3>3, <3>5 DEF Writes
  <2> QED BY <2>1, <2>2
<1> HIDE DEF n
<1> QED BY <1>1, <1>2, <1>3, <1>5, WriteCustomerKeeps

LEMMA NextRowKeeps == ASSUME CustomerInv, NEW c \in Clerks, NextRow(c) PROVE CustomerInv'
<1> DEFINE q == clerk[c]
           i == q.index + 1
           e == q.batch[i]
           k == [q EXCEPT !.index = i, !.email = e]
           b == [k EXCEPT !.pc = IF e = NoAddress THEN "insert" ELSE "count"]
           n == IF IsBatchDuplicate(q.batch, i) THEN Taken(k) ELSE b
<1>1. ClerkFits(q, seen) /\ q \in Handler /\ q.pc = "row" /\ q.op = "import" /\ i <= Len(q.batch)
  <2>1. ClerkFits(q, seen) /\ q.pc = "row" /\ i <= Len(q.batch) BY DEF CustomerInv, NextRow
  <2>2. q \in Handler /\ q.op \in {"none", "create", "import", "update"}
    BY <2>1 DEF ClerkFits, Handler
  <2>3. q.op = "import" BY <2>1, <2>2 DEF ClerkFits
  <2> QED BY <2>1, <2>2, <2>3
<1>2. clerk' = [clerk EXCEPT ![c] = n] /\ UNCHANGED <<customer, raced, seen>>
  BY DEF NextRow, Do
<1>3. q.index \in Nat /\ i \in 1 .. Len(q.batch) /\ q.batch \in Seq(MaybeEmail)
  BY <1>1 DEF Handler
<1>4. e \in MaybeEmail BY <1>3
<1>5. /\ k \in Handler /\ k.op = "import" /\ k.pc = "row" /\ k.id = q.id /\ k.batch = q.batch
      /\ k.report = q.report /\ k.index = i /\ k.email = e
  <2> HIDE DEF e
  <2>1. i \in Nat BY <1>3
  <2> HIDE DEF i
  <2> QED BY <1>1, <1>4, <2>1 DEF Handler
<1>6. CASE IsBatchDuplicate(q.batch, i)
  <2> DEFINE t == [k EXCEPT !.pc = "row", !.report.skipped = @ \cup {k.index}]
  <2>1. n = t BY <1>5, <1>6 DEF Taken
  <2>2. t \in Handler BY <1>3, <1>5 DEF Handler, Reports
  <2>3. /\ t.op = "import" /\ t.pc = "row" /\ t.id = q.id /\ t.batch = q.batch
        /\ t.index = i /\ t.report.created = q.report.created
        /\ t.report.skipped = q.report.skipped \cup {i}
        /\ t.report.failed = q.report.failed
    BY <1>5 DEF Handler, Reports
  <2>4. i \in Nat /\ i = Settled(q) + 1 BY <1>1, <1>3 DEF Settled
  <2> HIDE DEF t, i, k
  <2>5. ClerkFits(t, seen) BY <1>1, <1>6, <2>2, <2>3, <2>4, RowSettles
  <2>6. ~Writes(t) BY <2>3 DEF Writes
  <2> HIDE DEF n
  <2> QED BY <1>2, <2>1, <2>5, <2>6, ClerkKeeps
<1>7. CASE ~IsBatchDuplicate(q.batch, i)
  <2>1. n = b BY <1>7
  <2>2. /\ b \in Handler /\ b.op = "import" /\ b.id = q.id /\ b.batch = q.batch
        /\ b.report = q.report /\ b.index = i /\ b.email = e
        /\ b.pc = IF e = NoAddress THEN "insert" ELSE "count"
    BY <1>5 DEF Handler
  <2> HIDE DEF b
  <2>3. ClerkFits(b, seen) BY <1>1, <1>7, <2>2, RowBegins
  <2>4. ~Writes(b) BY <2>2, CustomersAssumption DEF Writes
  <2> HIDE DEF n
  <2> QED BY <1>2, <2>1, <2>3, <2>4, ClerkKeeps
<1> QED BY <1>6, <1>7

LEMMA RowFailsKeeps == ASSUME CustomerInv, NEW c \in Clerks, RowFails(c) PROVE CustomerInv'
<1> DEFINE q == clerk[c]
           n == [q EXCEPT !.pc = "row", !.report.failed = @ \cup {q.index}]
<1>1. /\ ClerkFits(q, seen) /\ q \in Handler /\ q.pc \in {"count", "insert"}
      /\ q.op = "import" /\ ImportFits(q, seen)
  BY DEF CustomerInv, RowFails, ClerkFits
<1>2. n \in Handler BY <1>1 DEF Handler, Reports
<1>3. /\ n.op = "import" /\ n.pc = "row" /\ n.id = q.id /\ n.batch = q.batch
      /\ n.index = q.index /\ n.report.created = q.report.created
      /\ n.report.skipped = q.report.skipped
      /\ n.report.failed = q.report.failed \cup {q.index}
  BY <1>1 DEF Handler, Reports
<1>4. q.index \in Nat /\ q.index = Settled(q) + 1 /\ q.index <= Len(q.batch)
  BY <1>1 DEF Handler, Settled, ImportFits
<1>5. clerk' = [clerk EXCEPT ![c] = n] /\ UNCHANGED <<customer, raced, seen>>
  BY DEF RowFails, Do
<1> HIDE DEF n
<1>6. ClerkFits(n, seen) BY <1>1, <1>2, <1>3, <1>4, RowSettles
<1>7. ~Writes(n) BY <1>3 DEF Writes
<1> QED BY <1>5, <1>6, <1>7, ClerkKeeps

LEMMA UpdateCustomerKeeps ==
    ASSUME CustomerInv, NEW c \in Clerks, NEW p \in People, NEW e \in MaybeEmail,
           UpdateCustomer(c, p, e)
    PROVE  CustomerInv'
<1> DEFINE counted == e # NoAddress /\ e # customer[p]
           n == [OffDuty EXCEPT !.op = "update", !.id = {p}, !.email = e,
                                !.pc = IF counted THEN "count" ELSE "reread"]
<1>1. /\ clerk' = [clerk EXCEPT ![c] = n] /\ UNCHANGED <<customer, seen>>
      /\ IF counted THEN UNCHANGED raced ELSE Claim(c, e)
  BY DEF UpdateCustomer, Do
<1>2. OffDuty \in Handler BY OffDutyFits DEF ClerkFits
<1>3. /\ n \in Handler /\ n.op = "update" /\ n.id = {p} /\ n.email = e /\ n.index = 0
      /\ n.batch = <<>> /\ n.pc = IF counted THEN "count" ELSE "reread"
  BY <1>2 DEF Handler, OffDuty
<1> HIDE DEF n
<1>4. ClerkFits(n, seen) BY <1>3 DEF ClerkFits
<1>5. CASE counted \/ e \notin CustomerEmails
  <2>1. ~Writes(n) BY <1>3, <1>5 DEF Writes
  <2>2. UNCHANGED raced BY <1>1, <1>5 DEF Claim, Folded
  <2> QED BY <1>1, <1>4, <2>1, <2>2, ClerkKeeps
<1>6. CASE ~counted /\ e \in CustomerEmails
  <2>1. e = customer[p] BY <1>6, CustomersAssumption
  <2>2. ASSUME NEW r \in People, Folded(customer[r]) = Folded(e)
        PROVE  r \in n.id \/ Folded(customer[r]) \subseteq raced
    <3>1. customer[r] \in CustomerEmails BY <1>6, <2>2, FoldedSome DEF Folded
    <3> QED BY <1>3, <1>6, <2>1, <2>2, <3>1 DEF CustomerInv, NoDuplicateAddresses
  <2> QED BY <1>1, <1>3, <1>4, <1>6, <2>2, ClaimKeeps
<1> QED BY <1>5, <1>6

LEMMA RereadCustomerKeeps == ASSUME CustomerInv, NEW c \in Clerks, Reread(c) PROVE CustomerInv'
<1> DEFINE q == clerk[c]
<1>1. ClerkFits(q, seen) /\ q \in Handler /\ q.pc = "reread" /\ q.op = "update"
  BY DEF CustomerInv, Reread, ClerkFits, ImportFits
<1>2. PICK p \in q.id :
          clerk' = [clerk EXCEPT ![c] = IF customer[p] = Absent THEN OffDuty
                        ELSE [q EXCEPT !.pc = "flush", !.loaded = customer[p]]]
  BY DEF Reread, Do
<1>3. UNCHANGED <<customer, raced, seen>> BY DEF Reread
<1>4. p \in People /\ customer[p] \in MaybeEmail \cup {Absent}
  BY <1>1 DEF Handler, CustomerInv
<1>5. CASE customer[p] = Absent
  <2>1. clerk' = [clerk EXCEPT ![c] = OffDuty] BY <1>2, <1>5
  <2> QED BY <1>3, <2>1, OffDutyFits, ClerkKeeps
<1>6. CASE customer[p] # Absent
  <2> DEFINE n == [q EXCEPT !.pc = "flush", !.loaded = customer[p]]
  <2>1. clerk' = [clerk EXCEPT ![c] = n] BY <1>2, <1>6
  <2>2. /\ n \in Handler /\ n.op = "update" /\ n.pc = "flush" /\ n.id = q.id
        /\ n.email = q.email /\ n.index = q.index /\ n.batch = q.batch
    BY <1>1, <1>4, <1>6 DEF Handler
  <2> HIDE DEF n
  <2>3. ClerkFits(n, seen) BY <1>1, <2>2 DEF ClerkFits
  <2>4. Writes(n) => Writes(q) BY <1>1, <2>2 DEF Writes
  <2> QED BY <1>3, <2>1, <2>2, <2>3, <2>4, ClerkKeeps
<1> QED BY <1>5, <1>6

LEMMA SaveKeeps == ASSUME CustomerInv, NEW c \in Clerks, SaveCustomer(c) PROVE CustomerInv'
<1> DEFINE q == clerk[c]
<1>1. ClerkFits(q, seen) /\ q \in Handler /\ q.pc = "flush" /\ q.op = "update"
  BY DEF CustomerInv, SaveCustomer, ClerkFits, ImportFits
<1>2. clerk' = [clerk EXCEPT ![c] = OffDuty] /\ UNCHANGED raced BY DEF SaveCustomer, Do
<1>3. PICK p \in q.id :
          IF customer[p] = Absent \/ q.email = q.loaded
          THEN UNCHANGED <<customer, seen>>
          ELSE /\ customer' = [customer EXCEPT ![p] = q.email]
               /\ seen' = seen \cup Folded(q.email)
  BY DEF SaveCustomer
<1>4. p \in People /\ q.id \subseteq {p} BY <1>1 DEF ClerkFits
<1>5. CASE customer[p] = Absent \/ q.email = q.loaded
  <2>1. UNCHANGED <<customer, raced, seen>> BY <1>2, <1>3, <1>5
  <2> QED BY <1>2, <2>1, OffDutyFits, ClerkKeeps
<1>6. CASE ~(customer[p] = Absent \/ q.email = q.loaded)
  <2>1. customer' = [customer EXCEPT ![p] = q.email] /\ seen' = seen \cup Folded(q.email)
    BY <1>3, <1>6
  <2> QED BY <1>1, <1>2, <1>4, <2>1, OffDutyFits, WriteCustomerKeeps
<1> QED BY <1>5, <1>6

LEMMA DeleteCustomerKeeps == ASSUME CustomerInv, NEW p \in People, DeleteCustomer(p) PROVE CustomerInv'
<1>1. customer' = [customer EXCEPT ![p] = Absent] /\ UNCHANGED <<clerk, raced, seen>>
  BY DEF DeleteCustomer
<1>2. /\ customer' \in [People -> MaybeEmail \cup {Absent}]
      /\ \A r \in People : customer'[r] = IF r = p THEN Absent ELSE customer[r]
  BY <1>1 DEF CustomerInv
<1>3. \A r \in People : customer'[r] \in CustomerEmails => customer'[r] = customer[r]
  BY <1>2, CustomersAssumption
<1>4. \A r \in People : Folded(customer'[r]) \subseteq seen
  BY <1>2, <1>3 DEF Folded, CustomerInv
<1>5. Alone' BY <1>1, <1>3 DEF CustomerInv, Alone
<1>6. NoDuplicateAddresses' BY <1>1, <1>3 DEF CustomerInv, NoDuplicateAddresses
<1> QED BY <1>1, <1>2, <1>4, <1>5, <1>6 DEF CustomerInv

LEMMA CustomerStep == ASSUME CustomerInv, [CustomerNext]_customerVars PROVE CustomerInv'
<1>1. ASSUME NEW c \in Clerks, NEW e \in MaybeEmail, CreateCustomer(c, e) PROVE CustomerInv'
  BY <1>1, CreateKeeps
<1>2. ASSUME NEW c \in Clerks, NEW batch \in Batches, BulkCreate(c, batch) PROVE CustomerInv'
  <2>1. batch \in Seq(MaybeEmail) BY CustomersAssumption DEF Batches, MaybeEmail
  <2> QED BY <1>2, <2>1, BulkCreateKeeps
<1>3. ASSUME NEW c \in Clerks, NEW p \in People, NEW e \in MaybeEmail, UpdateCustomer(c, p, e)
      PROVE  CustomerInv'
  BY <1>3, UpdateCustomerKeeps
<1>4. ASSUME NEW c \in Clerks, ReportImport(c) \/ ClerkEnds(c) PROVE CustomerInv'
  <2>1. clerk' = [clerk EXCEPT ![c] = OffDuty] /\ UNCHANGED <<customer, raced, seen>>
    BY <1>4 DEF ReportImport, ClerkEnds, Do
  <2> QED BY <2>1, OffDutyFits, ClerkKeeps
<1>5. CASE UNCHANGED customerVars
  BY <1>5 DEF customerVars, CustomerInv, Alone, NoDuplicateAddresses
<1> QED
  BY <1>1, <1>2, <1>3, <1>4, <1>5, CountKeeps, InsertCustomerKeeps, NextRowKeeps, RowFailsKeeps,
     RereadCustomerKeeps, SaveKeeps, DeleteCustomerKeeps
  DEF CustomerNext, MaybeEmail

-----------------------------------------------------------------------------
(* Theorems *)

LEMMA CustomerInvariant == CustomerSpec => []CustomerInv
<1>1. CustomerInit => CustomerInv BY CustomerInitOK
<1>2. CustomerInv /\ [CustomerNext]_customerVars => CustomerInv' BY CustomerStep
<1> QED BY <1>1, <1>2, PTL DEF CustomerSpec

\* The rows and the running handlers of the customers keep their types (the
\* columns of CustomerEntity, the locals of CustomerService).
THEOREM CustomerTypesHold == CustomerSpec => []CustomerTypeOK
<1>1. CustomerInv => CustomerTypeOK
  <2> SUFFICES ASSUME CustomerInv PROVE CustomerTypeOK OBVIOUS
  <2>1. \A c \in Clerks : clerk[c] \in Handler /\ clerk[c].index <= Len(clerk[c].batch)
    BY DEF CustomerInv, ClerkFits
  <2>2. \A c \in Clerks : clerk[c].index \in 0 .. Len(clerk[c].batch)
    BY <2>1 DEF Handler
  <2> QED BY <2>1, <2>2 DEF CustomerInv, CustomerTypeOK, Handler, MaybeEmail
<1> QED BY <1>1, CustomerInvariant, PTL

\* However many handlers overlap, two customers have one address only where two
\* of them were about to write it at once (create, bulkCreate, update).
THEOREM CustomerAddressesAreUnique == CustomerSpec => []NoDuplicateAddresses
<1>1. CustomerInv => NoDuplicateAddresses BY DEF CustomerInv
<1> QED BY <1>1, CustomerInvariant, PTL

\* An import of any length tells what became of each of its rows (bulkCreate).
THEOREM ImportsAreReported == CustomerSpec => []ImportReportIsTrue
<1>1. CustomerInv => ImportReportIsTrue
  BY DEF CustomerInv, ClerkFits, ImportFits, ReportIsTrue, Settled, ImportReportIsTrue
<1> QED BY <1>1, CustomerInvariant, PTL

-----------------------------------------------------------------------------
(***************************************************************************)
(* Appointments: the range of every booking.                               *)
(***************************************************************************)

(* The inductive invariant *)

\* The columns a handler writes: both ends of a range, or none of them.
ColumnsFit ==
    \A c \in Planners : planner[c].columns \in {{}, {"start", "end"}, {"status"}}

\* What a handler is about to insert, or to write over a range, is a range.
PatchesAreRanges ==
    \A c \in Planners : \A patch \in planner[c].patch :
        planner[c].id = {} \/ planner[c].columns = {"start", "end"}
            => patch.end > patch.start

AppointmentInv ==
    /\ AppointmentTypeOK
    /\ ColumnsFit
    /\ PatchesAreRanges
    /\ RangesAreValid

\* What the invariant asks of one handler.
Plans == [pc : {"idle", "invite", "flush"}, id : SUBSET Slots,
          patch : SUBSET AppointmentRow, columns : SUBSET {"start", "end", "status"},
          loaded : SUBSET AppointmentRow, unchecked : SUBSET Guests]

PlanFits(q) ==
    /\ q \in Plans
    /\ q.columns \in {{}, {"start", "end"}, {"status"}}
    /\ \A patch \in q.patch :
           q.id = {} \/ q.columns = {"start", "end"} => patch.end > patch.start

-----------------------------------------------------------------------------
(* Steps *)

LEMMA HoursAreIntegers == Hours \subseteq Int /\ 0 \in Hours
BY AppointmentsAssumption DEF Hours

LEMMA NoPlanFits == PlanFits(NoPlan)
BY DEF PlanFits, Plans, NoPlan

LEMMA AppointmentInitOK == ASSUME AppointmentInit PROVE AppointmentInv
BY DEF AppointmentInit, AppointmentInv, AppointmentTypeOK, ColumnsFit, PatchesAreRanges,
       RangesAreValid, NoPlan

\* What is known of one handler.
LEMMA PlannerFits ==
  ASSUME AppointmentInv, NEW c \in Planners
  PROVE  PlanFits(planner[c])
BY DEF AppointmentInv, AppointmentTypeOK, ColumnsFit, PatchesAreRanges, PlanFits, Plans

\* A handler that has checked a request has a plan.
LEMMA CheckedFits ==
  ASSUME NEW id \in SUBSET Slots, NEW columns \in {{}, {"start", "end"}, {"status"}},
         NEW row \in AppointmentRow, NEW invitees \in SUBSET Guests,
         id = {} \/ columns = {"start", "end"} => row.end > row.start
  PROVE  PlanFits(Checked(id, columns, row, invitees))
<1>. DEFINE q == Checked(id, columns, row, invitees)
<1>1. columns \in SUBSET {"start", "end", "status"}
  BY SMT
<1>2. {row} \in SUBSET AppointmentRow /\ {} \in SUBSET AppointmentRow
  OBVIOUS
<1>3. q \in Plans
  BY <1>1, <1>2 DEF Plans, Checked
<1>4. q.columns = columns /\ q.patch = {row} /\ q.id = id
  BY DEF Checked
<1>5. PlanFits(q)
  <2>. HIDE DEF q
  <2>. QED
    BY <1>3, <1>4 DEF PlanFits
<1>. QED
  BY <1>5

\* The handlers after one of them changed its plan.
LEMMA PlanTypes ==
  ASSUME AppointmentInv, NEW c \in Planners, NEW q, PlanFits(q), Plan(c, q)
  PROVE  planner' \in [Planners -> Plans] /\ ColumnsFit' /\ PatchesAreRanges'
<1>1. planner' \in [Planners -> Plans]
  BY DEF AppointmentInv, AppointmentTypeOK, PlanFits, Plans, Plan
<1>2. \A d \in Planners : planner'[d] = q \/ planner'[d] = planner[d]
  BY DEF AppointmentInv, AppointmentTypeOK, Plan
<1>3. ColumnsFit'
  BY <1>2 DEF AppointmentInv, ColumnsFit, PlanFits
<1>4. PatchesAreRanges'
  BY <1>2 DEF AppointmentInv, PatchesAreRanges, PlanFits
<1>. QED
  BY <1>1, <1>3, <1>4

\* A step that changes one handler's plan only.
LEMMA PlanKeeps ==
  ASSUME AppointmentInv, NEW c \in Planners, NEW q, PlanFits(q), Plan(c, q),
         UNCHANGED <<appointment, guests, clashed>>
  PROVE  AppointmentInv'
<1>1. AppointmentTypeOK'
  BY PlanTypes DEF AppointmentInv, AppointmentTypeOK, Plans
<1>. QED
  BY <1>1, PlanTypes DEF AppointmentInv, RangesAreValid

LEMMA PatchedType ==
  ASSUME NEW row \in AppointmentRow, NEW patch \in AppointmentRow, NEW columns
  PROVE  Patched(row, patch, columns) \in AppointmentRow
BY DEF Patched, AppointmentRow

LEMMA KeptType ==
  ASSUME NEW row \in AppointmentRow, NEW columns
  PROVE  Kept(row, columns) \in AppointmentRow
BY HoursAreIntegers DEF Kept, Patched, Booking, AppointmentRow, Statuses

LEMMA BookKeeps ==
  ASSUME AppointmentInv, NEW c \in Planners, NEW start \in Hours, NEW end \in Hours,
         NEW invitees \in SUBSET Guests, BookAppointment(c, start, end, invitees)
  PROVE  AppointmentInv'
<1>1. Booking(start, end) \in AppointmentRow
  BY DEF Booking, AppointmentRow, Statuses
<1>2. Booking(start, end).end > Booking(start, end).start
  BY DEF BookAppointment, Booking, RangeIsValid
<1>3. PlanFits(Checked({}, {}, Booking(start, end), invitees))
  BY <1>1, <1>2, CheckedFits
<1>. QED
  BY <1>3, PlanKeeps DEF BookAppointment

LEMMA UpdateAppointmentKeeps ==
  ASSUME AppointmentInv, NEW c \in Planners, NEW s \in Slots,
         NEW sent \in SUBSET {"start", "end"}, NEW start \in Hours, NEW end \in Hours,
         NEW invitees \in SUBSET Guests,
         UpdateAppointment(c, s, sent, start, end, invitees)
  PROVE  AppointmentInv'
<1>. DEFINE columns == IF sent = {} THEN {} ELSE {"start", "end"}
            patch(row) == Patched(row, Booking(start, end), sent)
<1>1. PICK row \in appointment[s] :
          /\ RangeIsValid(sent, patch(row).start, patch(row).end)
          /\ Plan(c, Checked({s}, columns, Kept(patch(row), columns), invitees))
  BY DEF UpdateAppointment
<1>2. row \in AppointmentRow /\ Booking(start, end) \in AppointmentRow
  BY DEF AppointmentInv, AppointmentTypeOK, Booking, AppointmentRow, Statuses
<1>3. patch(row) \in AppointmentRow
  BY <1>2, PatchedType
<1>4. Kept(patch(row), columns) \in AppointmentRow
  BY <1>3, KeptType
<1>5. columns = {"start", "end"} =>
          Kept(patch(row), columns).end > Kept(patch(row), columns).start
  <2>. HIDE DEF patch
  <2>. QED
    BY <1>1, <1>3 DEF Kept, Patched, RangeIsValid
<1>6. PlanFits(Checked({s}, columns, Kept(patch(row), columns), invitees))
  <2>1. {s} \in SUBSET Slots /\ columns \in {{}, {"start", "end"}, {"status"}} /\ {s} # {}
    OBVIOUS
  <2>. HIDE DEF patch, columns
  <2>. QED
    BY <1>4, <1>5, <2>1, CheckedFits
<1>7. UNCHANGED <<appointment, guests, clashed>>
  BY DEF UpdateAppointment
<1>. HIDE DEF patch, columns
<1>. QED
  BY <1>1, <1>6, <1>7, PlanKeeps

LEMMA UpdateStatusKeeps ==
  ASSUME AppointmentInv, NEW c \in Planners, NEW s \in Slots, NEW status \in Statuses,
         UpdateStatus(c, s, status)
  PROVE  AppointmentInv'
<1>. DEFINE kept(row) == Kept([row EXCEPT !.status = status], {"status"})
<1>1. PICK row \in appointment[s] : Plan(c, Checked({s}, {"status"}, kept(row), {}))
  BY DEF UpdateStatus
<1>2. [row EXCEPT !.status = status] \in AppointmentRow
  BY DEF AppointmentInv, AppointmentTypeOK, AppointmentRow
<1>3. kept(row) \in AppointmentRow
  BY <1>2, KeptType
<1>4. PlanFits(Checked({s}, {"status"}, kept(row), {}))
  <2>. HIDE DEF kept
  <2>1. {"status"} # {"start", "end"} /\ {s} \in SUBSET Slots /\ {s} # {}
    OBVIOUS
  <2>. QED
    BY <1>3, <2>1, CheckedFits
<1>. HIDE DEF kept
<1>. QED
  BY <1>1, <1>4, PlanKeeps DEF UpdateStatus

LEMMA CheckInviteeKeeps ==
  ASSUME AppointmentInv, NEW c \in Planners, NEW g \in Guests, CheckInvitee(c, g)
  PROVE  AppointmentInv'
<1>. DEFINE q == [planner[c] EXCEPT !.unchecked = @ \ {g}]
<1>1. PlanFits(q)
  BY PlannerFits DEF PlanFits, Plans
<1>2. Plan(c, q) \/ Plan(c, NoPlan)
  BY DEF CheckInvitee
<1>3. UNCHANGED <<appointment, guests, clashed>>
  BY DEF CheckInvitee
<1>. HIDE DEF q
<1>. QED
  BY <1>1, <1>2, <1>3, NoPlanFits, PlanKeeps

LEMMA InsertAppointmentKeeps ==
  ASSUME AppointmentInv, NEW c \in Planners, InsertAppointment(c)
  PROVE  AppointmentInv'
<1>1. PICK s \in Slots : appointment' = [appointment EXCEPT ![s] = planner[c].patch]
  BY DEF InsertAppointment
<1>2. /\ planner[c].id = {} /\ Plan(c, NoPlan)
      /\ UNCHANGED <<guests, clashed>>
  BY DEF InsertAppointment
<1>3. /\ planner[c].patch \subseteq AppointmentRow
      /\ \A row \in planner[c].patch : row.end > row.start
  BY <1>2, PlannerFits DEF PlanFits, Plans
<1>4. planner' \in [Planners -> Plans] /\ ColumnsFit' /\ PatchesAreRanges'
  BY <1>2, NoPlanFits, PlanTypes
<1>5. AppointmentTypeOK'
  BY <1>1, <1>2, <1>3, <1>4 DEF AppointmentInv, AppointmentTypeOK, Plans
<1>6. RangesAreValid'
  BY <1>1, <1>2, <1>3 DEF AppointmentInv, AppointmentTypeOK, RangesAreValid
<1>. QED
  BY <1>4, <1>5, <1>6 DEF AppointmentInv

LEMMA RereadAppointmentKeeps ==
  ASSUME AppointmentInv, NEW c \in Planners, RereadAppointment(c)
  PROVE  AppointmentInv'
<1>. DEFINE q(s) == [planner[c] EXCEPT
                        !.pc = "flush",
                        !.loaded = {Kept(row, planner[c].columns) : row \in appointment[s]}]
<1>1. PICK s \in planner[c].id : Plan(c, NoPlan) \/ Plan(c, q(s))
  BY DEF RereadAppointment
<1>2. s \in Slots
  BY PlannerFits DEF PlanFits, Plans
<1>3. {Kept(row, planner[c].columns) : row \in appointment[s]} \subseteq AppointmentRow
  BY <1>2, KeptType DEF AppointmentInv, AppointmentTypeOK
<1>4. PlanFits(q(s))
  BY <1>3, PlannerFits DEF PlanFits, Plans
<1>5. UNCHANGED <<appointment, guests, clashed>>
  BY DEF RereadAppointment
<1>. HIDE DEF q
<1>. QED
  BY <1>1, <1>4, <1>5, NoPlanFits, PlanKeeps

\* A flush that meets the range it loaded leaves the one it checked.
LEMMA FlushKeeps ==
  ASSUME AppointmentInv, NEW c \in Planners, FlushAppointment(c)
  PROVE  AppointmentInv'
<1>. DEFINE columns == planner[c].columns
<1>1. PICK s \in planner[c].id, patch \in planner[c].patch, loaded \in planner[c].loaded :
          /\ appointment' = [appointment EXCEPT ![s] =
                 {Patched(row, patch, {k \in columns : patch[k] # loaded[k]}) :
                      row \in appointment[s]}]
          /\ clashed' = clashed \cup
                 {t \in {s} : \E row \in appointment[s] :
                      Span(Kept(row, columns)) # Span(loaded)}
  BY DEF FlushAppointment
<1>. DEFINE changed == {k \in columns : patch[k] # loaded[k]}
<1>2. Plan(c, NoPlan) /\ UNCHANGED guests
  BY DEF FlushAppointment
<1>3. /\ s \in Slots /\ patch \in AppointmentRow /\ loaded \in AppointmentRow
      /\ columns \in {{}, {"start", "end"}, {"status"}}
      /\ columns = {"start", "end"} => patch.end > patch.start
  BY PlannerFits DEF PlanFits, Plans
<1>4. planner' \in [Planners -> Plans] /\ ColumnsFit' /\ PatchesAreRanges'
  BY <1>2, NoPlanFits, PlanTypes
<1>5. /\ appointment'[s] = {Patched(row, patch, changed) : row \in appointment[s]}
      /\ \A t \in Slots : t # s => appointment'[t] = appointment[t]
  BY <1>1, <1>3 DEF AppointmentInv, AppointmentTypeOK
<1>6. \A row \in appointment[s] : row \in AppointmentRow
  BY <1>3 DEF AppointmentInv, AppointmentTypeOK
<1>7. AppointmentTypeOK'
  <2>1. appointment' \in [Slots -> SUBSET AppointmentRow]
    <3>1. {Patched(row, patch, changed) : row \in appointment[s]} \subseteq AppointmentRow
      <4>. HIDE DEF changed
      <4>. QED
        BY <1>3, <1>6, PatchedType
    <3>. HIDE DEF changed
    <3>. QED
      BY <1>1, <3>1 DEF AppointmentInv, AppointmentTypeOK, changed
  <2>. QED
    BY <1>1, <1>2, <1>3, <1>4, <2>1 DEF AppointmentInv, AppointmentTypeOK, Plans
<1>8. RangesAreValid'
  <2>. SUFFICES ASSUME NEW t \in Slots, t \notin clashed', NEW new \in appointment'[t]
                PROVE  new.end > new.start
    BY DEF RangesAreValid
  <2>1. CASE t # s
    BY <1>1, <1>5, <2>1 DEF AppointmentInv, RangesAreValid
  <2>2. CASE t = s
    <3>1. PICK row \in appointment[s] : new = Patched(row, patch, changed)
      BY <1>5, <2>2
    <3>2. Span(Kept(row, columns)) = Span(loaded) /\ s \notin clashed
      BY <1>1, <2>2
    <3>3. row \in AppointmentRow /\ row.end > row.start
      BY <1>3, <1>6, <3>2 DEF AppointmentInv, RangesAreValid
    <3>4. CASE columns = {"start", "end"}
      <4>1. row.start = loaded.start /\ row.end = loaded.end
        BY <3>2, <3>4 DEF Span, Kept, Patched
      <4>2. new.start = patch.start /\ new.end = patch.end
        BY <3>1, <3>4, <4>1 DEF Patched
      <4>. QED
        BY <1>3, <3>4, <4>2
    <3>5. CASE columns # {"start", "end"}
      <4>1. "start" \notin changed /\ "end" \notin changed
        BY <1>3, <3>5
      <4>2. new.start = row.start /\ new.end = row.end
        BY <3>1, <4>1 DEF Patched
      <4>. QED
        BY <3>3, <4>2
    <3>. QED
      BY <3>4, <3>5
  <2>. QED
    BY <2>1, <2>2
<1>. QED
  BY <1>4, <1>7, <1>8 DEF AppointmentInv

LEMMA DeleteAppointmentKeeps ==
  ASSUME AppointmentInv, NEW s \in Slots, DeleteAppointment(s)
  PROVE  AppointmentInv'
<1>1. /\ appointment' = [appointment EXCEPT ![s] = {}]
      /\ clashed' = clashed \ {s}
      /\ UNCHANGED <<guests, planner>>
  BY DEF DeleteAppointment
<1>2. AppointmentTypeOK' /\ RangesAreValid'
  BY <1>1 DEF AppointmentInv, AppointmentTypeOK, RangesAreValid
<1>3. ColumnsFit' /\ PatchesAreRanges'
  BY <1>1 DEF AppointmentInv, ColumnsFit, PatchesAreRanges
<1>. QED
  BY <1>2, <1>3 DEF AppointmentInv

LEMMA AppointmentStep ==
  ASSUME AppointmentInv, [AppointmentNext]_appointmentVars
  PROVE  AppointmentInv'
<1>1. CASE UNCHANGED appointmentVars
  BY <1>1 DEF appointmentVars, AppointmentInv, AppointmentTypeOK, ColumnsFit,
              PatchesAreRanges, RangesAreValid
<1>2. ASSUME NEW c \in Planners, NEW start \in Hours, NEW end \in Hours,
             NEW i \in SUBSET Guests, BookAppointment(c, start, end, i)
      PROVE  AppointmentInv'
  BY <1>2, BookKeeps
<1>3. ASSUME NEW c \in Planners, NEW s \in Slots, NEW sent \in SUBSET {"start", "end"},
             NEW i \in SUBSET Guests, NEW start \in Sent("start", sent),
             NEW end \in Sent("end", sent), UpdateAppointment(c, s, sent, start, end, i)
      PROVE  AppointmentInv'
  <2>1. start \in Hours /\ end \in Hours
    BY HoursAreIntegers DEF Sent
  <2>. QED
    BY <1>3, <2>1, UpdateAppointmentKeeps
<1>4. ASSUME NEW c \in Planners, NEW s \in Slots, NEW status \in Statuses,
             UpdateStatus(c, s, status)
      PROVE  AppointmentInv'
  BY <1>4, UpdateStatusKeeps
<1>5. ASSUME NEW c \in Planners, NEW g \in Guests, CheckInvitee(c, g)
      PROVE  AppointmentInv'
  BY <1>5, CheckInviteeKeeps
<1>6. ASSUME NEW c \in Planners, PlannerEnds(c)
      PROVE  AppointmentInv'
  BY <1>6, NoPlanFits, PlanKeeps DEF PlannerEnds
<1>7. ASSUME NEW g \in Guests, CustomersChange(g)
      PROVE  AppointmentInv'
  <2>1. AppointmentTypeOK' /\ RangesAreValid'
    BY <1>7 DEF CustomersChange, AppointmentInv, AppointmentTypeOK, RangesAreValid
  <2>2. ColumnsFit' /\ PatchesAreRanges'
    BY <1>7 DEF CustomersChange, AppointmentInv, ColumnsFit, PatchesAreRanges
  <2>. QED
    BY <2>1, <2>2 DEF AppointmentInv
<1>. QED
  BY <1>1, <1>2, <1>3, <1>4, <1>5, <1>6, <1>7, InsertAppointmentKeeps, RereadAppointmentKeeps, FlushKeeps,
     DeleteAppointmentKeeps DEF AppointmentNext

LEMMA AppointmentInvariant == AppointmentSpec => []AppointmentInv
BY AppointmentInitOK, AppointmentStep, PTL DEF AppointmentSpec

-----------------------------------------------------------------------------
(* Theorems *)

\* Every column and local variable keeps its type.
THEOREM AppointmentTypesHold == AppointmentSpec => []AppointmentTypeOK
<1>1. AppointmentInv => AppointmentTypeOK
  BY DEF AppointmentInv
<1>. QED
  BY <1>1, AppointmentInvariant, PTL

\* An appointment ends after it starts, for any number of overlapping requests that
\* each send one end only, unless a repository call was overtaken (update).
THEOREM AppointmentsAreRanges == AppointmentSpec => []RangesAreValid
<1>1. AppointmentInv => RangesAreValid
  BY DEF AppointmentInv
<1>. QED
  BY <1>1, AppointmentInvariant, PTL

-----------------------------------------------------------------------------
(***************************************************************************)
(* Mailing: what the log says of a letter.                                 *)
(***************************************************************************)

(* The inductive invariant *)

\* The attempt a handler carries was addressed; who is to write a sent_at sent a letter.
CarriedAreAddressed ==
    \A s \in Senders : \A e \in sender[s].envelope :
        /\ addressed[e] # NoLetter
        /\ sender[s].pc = "stamp" => addressed[e] \in Letters

\* A handler carries one attempt, and nobody else does.
CarriedOnce ==
    /\ \A s \in Senders : \A e, f \in sender[s].envelope : e = f
    /\ \A s, u \in Senders : s # u => sender[s].envelope \cap sender[u].envelope = {}

\* Of an attempt that was not addressed nobody knows anything.
SealedAreUnknown ==
    \A e \in Envelopes : Sealed(e) => mails[e] = "none" /\ e \notin accepted

\* How far an attempt is, by the place its handler is at.
AtProvider(e) == mails[e] = "none" /\ e \notin accepted

AtLog(e, status) ==
    /\ mails[e] = "none"
    /\ status = "sent" => e \in accepted
    /\ status = "failed" => e \notin accepted \ unheard
    /\ status # "none"

ProgressIsKnown ==
    \A s \in Senders : \A e \in sender[s].envelope :
        /\ sender[s].pc = "provider" => AtProvider(e)
        /\ sender[s].pc = "log" => AtLog(e, sender[s].status)
        /\ sender[s].pc = "stamp" => mails[e] # "none"
        /\ sender[s].pc # "idle"

\* An invoice with a sent_at was mailed by an attempt in the log.
StampedAreLogged ==
    \A letter \in sentAt : \E e \in Envelopes : addressed[e] = letter /\ mails[e] # "none"

\* The first part of MailLogIsTrue, for one attempt.
EntryIsTrue(e) ==
    /\ mails[e] = "sent" => e \in accepted
    /\ mails[e] = "failed" => e \notin accepted \ unheard
    /\ e \in accepted /\ mails[e] = "none" =>
           e \in unlogged \/ \E s \in Senders : Carries(s, e) /\ sender[s].pc = "log"

MailInv ==
    /\ MailTypeOK
    /\ CarriedAreAddressed
    /\ CarriedOnce
    /\ SealedAreUnknown
    /\ ProgressIsKnown
    /\ StampedAreLogged
    /\ \A e \in Envelopes : EntryIsTrue(e)

SenderType ==
    [pc : {"idle", "provider", "log", "stamp"}, envelope : SUBSET Envelopes,
     status : {"none", "sent", "failed"}]

-----------------------------------------------------------------------------
(* Steps *)

LEMMA NoMailFits ==
  NoMail \in SenderType /\ NoMail.envelope = {} /\ NoMail.pc = "idle"
BY DEF NoMail, SenderType

LEMMA MailInitOK == ASSUME MailInit PROVE MailInv
<1>1. MailTypeOK
  BY NoMailFits DEF MailInit, MailTypeOK, SenderType
<1>2. CarriedAreAddressed /\ CarriedOnce /\ ProgressIsKnown
  BY NoMailFits DEF MailInit, CarriedAreAddressed, CarriedOnce, ProgressIsKnown
<1>3. SealedAreUnknown /\ StampedAreLogged /\ \A e \in Envelopes : EntryIsTrue(e)
  BY DEF MailInit, SealedAreUnknown, StampedAreLogged, EntryIsTrue
<1>. QED
  BY <1>1, <1>2, <1>3 DEF MailInv

LEMMA SendKeeps ==
  ASSUME MailInv, NEW s \in Senders, NEW e \in Envelopes,
         NEW letter \in Letters \cup Notices, SendMail(s, e, letter)
  PROVE  MailInv'
<1>. DEFINE q == [NoMail EXCEPT !.pc = "provider", !.envelope = {e}]
<1>1. /\ sender[s].pc = "idle" /\ Sealed(e)
      /\ addressed' = [addressed EXCEPT ![e] = letter]
      /\ sender' = [sender EXCEPT ![s] = q]
      /\ UNCHANGED <<mails, sentAt, accepted, unheard, unlogged>>
  BY DEF SendMail
<1>2. q \in SenderType /\ q.pc = "provider" /\ q.envelope = {e}
  BY NoMailFits DEF SenderType
<1>. HIDE DEF q
<1>3. /\ sender'[s] = q
      /\ \A u \in Senders : u # s => sender'[u] = sender[u]
      /\ addressed'[e] = letter
      /\ \A f \in Envelopes : f # e => addressed'[f] = addressed[f]
  BY <1>1 DEF MailInv, MailTypeOK
<1>4. letter # NoLetter
  BY MailingAssumption
<1>5. \A u \in Senders : e \notin sender[u].envelope
  BY <1>1 DEF MailInv, CarriedAreAddressed, Sealed
<1>6. mails[e] = "none" /\ e \notin accepted
  BY <1>1 DEF MailInv, SealedAreUnknown
<1>7. \A u \in Senders : sender[u].envelope \subseteq Envelopes
  BY DEF MailInv, MailTypeOK
<1>8. MailTypeOK'
  BY <1>1, <1>2 DEF MailInv, MailTypeOK, SenderType
<1>9. CarriedAreAddressed'
  BY <1>2, <1>3, <1>4, <1>5, <1>7 DEF MailInv, CarriedAreAddressed
<1>10. CarriedOnce'
  BY <1>2, <1>3, <1>5 DEF MailInv, CarriedOnce
<1>11. SealedAreUnknown'
  BY <1>1, <1>3, <1>4 DEF MailInv, SealedAreUnknown, Sealed
<1>12. ProgressIsKnown'
  BY <1>1, <1>2, <1>3, <1>6 DEF MailInv, ProgressIsKnown, AtProvider, AtLog
<1>13. StampedAreLogged'
  BY <1>1, <1>3, <1>6 DEF MailInv, StampedAreLogged
<1>14. ASSUME NEW f \in Envelopes PROVE EntryIsTrue(f)'
  BY <1>1, <1>3 DEF MailInv, EntryIsTrue, Carries
<1>. QED
  BY <1>8, <1>9, <1>10, <1>11, <1>12, <1>13, <1>14 DEF MailInv

\* The provider's answer, whatever it is, when it is noted as what it was or when it
\* was lost.
LEMMA NotedKeeps ==
  ASSUME MailInv, NEW s \in Senders, NEW status \in {"sent", "failed"}, Noted(s, status),
         accepted' \subseteq accepted \cup sender[s].envelope, accepted \subseteq accepted',
         unheard \subseteq unheard', unheard' \subseteq unheard \cup sender[s].envelope,
         status = "sent" => sender[s].envelope \subseteq accepted',
         status = "failed" => sender[s].envelope \cap (accepted' \ unheard') = {}
  PROVE  MailInv'
<1>. DEFINE q == [sender[s] EXCEPT !.pc = "log", !.status = status]
<1>1. /\ sender[s].pc = "provider"
      /\ sender' = [sender EXCEPT ![s] = q]
      /\ UNCHANGED <<mails, addressed, sentAt, unlogged>>
  BY DEF Noted
<1>2. sender[s] \in SenderType
  BY DEF MailInv, MailTypeOK, SenderType
<1>3. q \in SenderType /\ q.pc = "log" /\ q.envelope = sender[s].envelope /\ q.status = status
  BY <1>2 DEF SenderType
<1>. HIDE DEF q
<1>4. sender'[s] = q /\ \A u \in Senders : u # s => sender'[u] = sender[u]
  BY <1>1 DEF MailInv, MailTypeOK
<1>5. \A u \in Senders : sender'[u].envelope = sender[u].envelope
  BY <1>3, <1>4
<1>6. sender[s].envelope \subseteq Envelopes
  BY <1>2 DEF SenderType
<1>7. \A e \in sender[s].envelope : AtProvider(e) /\ addressed[e] # NoLetter
  BY <1>1 DEF MailInv, ProgressIsKnown, CarriedAreAddressed
<1>8. MailTypeOK'
  BY <1>1, <1>3, <1>6 DEF MailInv, MailTypeOK, SenderType
<1>9. CarriedAreAddressed' /\ CarriedOnce'
  BY <1>1, <1>3, <1>4, <1>5 DEF MailInv, CarriedAreAddressed, CarriedOnce
<1>10. SealedAreUnknown'
  BY <1>1, <1>7 DEF MailInv, SealedAreUnknown, Sealed
<1>11. ProgressIsKnown'
  <2>. SUFFICES ASSUME NEW u \in Senders, NEW e \in sender'[u].envelope
                PROVE  /\ sender'[u].pc = "provider" => AtProvider(e)'
                       /\ sender'[u].pc = "log" => AtLog(e, sender[u].status)'
                       /\ sender'[u].pc = "stamp" => mails'[e] # "none"
                       /\ sender'[u].pc # "idle"
    BY DEF ProgressIsKnown
  <2>1. CASE u = s
    BY <1>1, <1>3, <1>4, <1>7, <2>1 DEF AtProvider, AtLog
  <2>2. CASE u # s
    <3>1. e \notin sender[s].envelope
      BY <1>5, <2>2 DEF MailInv, CarriedOnce
    <3>2. (e \in accepted' <=> e \in accepted) /\ (e \in unheard' <=> e \in unheard)
      BY <3>1
    <3>. QED
      BY <1>1, <1>4, <2>2, <3>2 DEF MailInv, ProgressIsKnown, AtProvider, AtLog
  <2>. QED
    BY <2>1, <2>2
<1>12. StampedAreLogged'
  BY <1>1 DEF MailInv, StampedAreLogged
<1>13. ASSUME NEW e \in Envelopes PROVE EntryIsTrue(e)'
  <2>1. CASE e \in sender[s].envelope
    BY <1>1, <1>3, <1>4, <1>7, <2>1 DEF AtProvider, EntryIsTrue, Carries
  <2>2. CASE e \notin sender[s].envelope
    BY <1>1, <1>3, <1>4, <2>2 DEF MailInv, EntryIsTrue, Carries
  <2>. QED
    BY <2>1, <2>2
<1>. QED
  BY <1>8, <1>9, <1>10, <1>11, <1>12, <1>13 DEF MailInv

LEMMA AnswerKeeps ==
  ASSUME MailInv, NEW s \in Senders,
         ProviderAccepts(s) \/ ProviderRefuses(s) \/ AnswerIsLost(s)
  PROVE  MailInv'
<1>1. sender[s].pc = "provider"
  BY DEF ProviderAccepts, ProviderRefuses, AnswerIsLost, Noted
<1>2. sender[s].envelope \cap accepted = {}
  BY <1>1 DEF MailInv, ProgressIsKnown, AtProvider
<1>3. CASE ProviderAccepts(s)
  BY <1>3, NotedKeeps DEF ProviderAccepts
<1>4. CASE ProviderRefuses(s)
  BY <1>2, <1>4, NotedKeeps DEF ProviderRefuses
<1>5. CASE AnswerIsLost(s)
  BY <1>5, NotedKeeps DEF AnswerIsLost
<1>. QED
  BY <1>3, <1>4, <1>5

LEMMA LogKeeps == ASSUME MailInv, NEW s \in Senders, LogMail(s) PROVE MailInv'
<1>. DEFINE q == IF \E e \in sender[s].envelope : addressed[e] \in Letters
                 THEN [sender[s] EXCEPT !.pc = "stamp"] ELSE NoMail
<1>1. /\ sender[s].pc = "log"
      /\ mails' = [e \in Envelopes |-> IF Carries(s, e) THEN sender[s].status ELSE mails[e]]
      /\ sender' = [sender EXCEPT ![s] = q]
      /\ UNCHANGED <<addressed, sentAt, accepted, unheard, unlogged>>
  BY DEF LogMail
<1>2. sender[s] \in SenderType
  BY DEF MailInv, MailTypeOK, SenderType
<1>3. /\ q \in SenderType /\ q.pc \in {"idle", "stamp"}
      /\ q.envelope \subseteq sender[s].envelope
      /\ q.envelope # {} => q.pc = "stamp"
  BY <1>2, NoMailFits DEF SenderType
<1>14. q.envelope # {} => \E e \in sender[s].envelope : addressed[e] \in Letters
  BY NoMailFits
<1>. HIDE DEF q
<1>4. sender'[s] = q /\ \A u \in Senders : u # s => sender'[u] = sender[u]
  BY <1>1 DEF MailInv, MailTypeOK
<1>5. \A u \in Senders : sender'[u].envelope \subseteq sender[u].envelope
  BY <1>3, <1>4
<1>6. /\ \A e \in sender[s].envelope : e \in Envelopes /\ mails'[e] = sender[s].status
      /\ \A e \in Envelopes : e \notin sender[s].envelope => mails'[e] = mails[e]
  BY <1>1, <1>2 DEF SenderType, Carries
<1>7. \A e \in sender[s].envelope : AtLog(e, sender[s].status) /\ addressed[e] # NoLetter
  BY <1>1 DEF MailInv, ProgressIsKnown, CarriedAreAddressed
<1>8. MailTypeOK'
  <2>1. sender[s].status \in {"none", "sent", "failed"}
    BY <1>2 DEF SenderType
  <2>2. mails' \in [Envelopes -> {"none", "sent", "failed"}]
    BY <1>1, <2>1 DEF MailInv, MailTypeOK
  <2>. QED
    BY <1>1, <1>3, <2>2 DEF MailInv, MailTypeOK, SenderType
<1>9. CarriedAreAddressed' /\ CarriedOnce'
  <2>1. CarriedOnce'
    BY <1>5 DEF MailInv, CarriedOnce
  <2>2. \A e \in q.envelope : addressed[e] \in Letters
    BY <1>3, <1>4, <1>14 DEF MailInv, CarriedOnce
  <2>. QED
    BY <1>1, <1>4, <1>5, <2>1, <2>2 DEF MailInv, CarriedAreAddressed
<1>10. SealedAreUnknown'
  BY <1>1, <1>6, <1>7 DEF MailInv, SealedAreUnknown, Sealed
<1>11. ProgressIsKnown'
  <2>. SUFFICES ASSUME NEW u \in Senders, NEW e \in sender'[u].envelope
                PROVE  /\ sender'[u].pc = "provider" => AtProvider(e)'
                       /\ sender'[u].pc = "log" => AtLog(e, sender[u].status)'
                       /\ sender'[u].pc = "stamp" => mails'[e] # "none"
                       /\ sender'[u].pc # "idle"
    BY DEF ProgressIsKnown
  <2>1. CASE u = s
    BY <1>3, <1>4, <1>5, <1>6, <1>7, <2>1 DEF AtLog
  <2>2. CASE u # s
    <3>1. e \in Envelopes /\ e \in sender[u].envelope
      BY <1>4, <2>2 DEF MailInv, MailTypeOK
    <3>2. e \notin sender[s].envelope
      BY <2>2, <3>1 DEF MailInv, CarriedOnce
    <3>. QED
      BY <1>1, <1>4, <1>6, <2>2, <3>1, <3>2 DEF MailInv, ProgressIsKnown, AtProvider, AtLog
  <2>. QED
    BY <2>1, <2>2
<1>12. StampedAreLogged'
  <2>1. \A e \in Envelopes : mails[e] # "none" => mails'[e] # "none"
    BY <1>6, <1>7 DEF AtLog
  <2>. QED
    BY <1>1, <2>1 DEF MailInv, StampedAreLogged
<1>13. ASSUME NEW e \in Envelopes PROVE EntryIsTrue(e)'
  <2>1. CASE e \in sender[s].envelope
    BY <1>1, <1>6, <1>7, <2>1 DEF AtLog, EntryIsTrue
  <2>2. CASE e \notin sender[s].envelope
    BY <1>1, <1>4, <1>6, <2>2 DEF MailInv, EntryIsTrue, Carries
  <2>. QED
    BY <2>1, <2>2
<1>. QED
  BY <1>8, <1>9, <1>10, <1>11, <1>12, <1>13 DEF MailInv

\* A handler that leaves what is done as it is.
LEMMA LeaveKeeps ==
  ASSUME MailInv, NEW s \in Senders, sender' = [sender EXCEPT ![s] = NoMail],
         UNCHANGED <<mails, addressed, unheard>>,
         accepted \subseteq accepted', unlogged \subseteq unlogged',
         unlogged' \subseteq Envelopes, sentAt' \subseteq Letters,
         {e \in sender[s].envelope : mails[e] = "none"} \subseteq unlogged',
         accepted' \ accepted \subseteq {e \in sender[s].envelope : mails[e] = "none"},
         StampedAreLogged'
  PROVE  MailInv'
<1>1. sender'[s] = NoMail /\ \A u \in Senders : u # s => sender'[u] = sender[u]
  BY DEF MailInv, MailTypeOK
<1>2. sender[s].envelope \subseteq Envelopes
  BY DEF MailInv, MailTypeOK
<1>3. MailTypeOK'
  BY <1>2, NoMailFits DEF MailInv, MailTypeOK, SenderType
<1>4. CarriedAreAddressed' /\ CarriedOnce'
  BY <1>1, NoMailFits DEF MailInv, CarriedAreAddressed, CarriedOnce
<1>5. SealedAreUnknown'
  BY DEF MailInv, SealedAreUnknown, Sealed, CarriedAreAddressed
<1>6. ProgressIsKnown'
  <2>. SUFFICES ASSUME NEW u \in Senders, NEW e \in sender'[u].envelope
                PROVE  /\ sender'[u].pc = "provider" => AtProvider(e)'
                       /\ sender'[u].pc = "log" => AtLog(e, sender[u].status)'
                       /\ sender'[u].pc = "stamp" => mails'[e] # "none"
                       /\ sender'[u].pc # "idle"
    BY DEF ProgressIsKnown
  <2>1. u # s /\ sender'[u] = sender[u]
    BY <1>1, NoMailFits
  <2>2. e \notin sender[s].envelope
    BY <2>1 DEF MailInv, CarriedOnce
  <2>. QED
    BY <2>1, <2>2 DEF MailInv, ProgressIsKnown, AtProvider, AtLog
<1>7. ASSUME NEW e \in Envelopes PROVE EntryIsTrue(e)'
  <2>1. CASE e \in sender[s].envelope
    BY <2>1 DEF MailInv, EntryIsTrue
  <2>2. CASE e \notin sender[s].envelope
    BY <1>1, <2>2 DEF MailInv, EntryIsTrue, Carries
  <2>. QED
    BY <2>1, <2>2
<1>. QED
  BY <1>3, <1>4, <1>5, <1>6, <1>7 DEF MailInv

LEMMA StampKeeps == ASSUME MailInv, NEW s \in Senders, StampInvoice(s) PROVE MailInv'
<1>1. /\ sender[s].pc = "stamp"
      /\ sentAt' = sentAt \cup {addressed[e] : e \in sender[s].envelope}
      /\ sender' = [sender EXCEPT ![s] = NoMail]
      /\ UNCHANGED <<mails, addressed, accepted, unheard, unlogged>>
  BY DEF StampInvoice
<1>2. \A e \in sender[s].envelope :
          e \in Envelopes /\ mails[e] # "none" /\ addressed[e] \in Letters
  BY <1>1 DEF MailInv, MailTypeOK, CarriedAreAddressed, ProgressIsKnown
<1>3. StampedAreLogged'
  BY <1>1, <1>2 DEF MailInv, StampedAreLogged
<1>4. sentAt' \subseteq Letters /\ unlogged \subseteq Envelopes
  BY <1>1, <1>2 DEF MailInv, MailTypeOK
<1>. QED
  BY <1>1, <1>2, <1>3, <1>4, LeaveKeeps

LEMMA SenderEndsKeeps == ASSUME MailInv, NEW s \in Senders, SenderEnds(s) PROVE MailInv'
<1>. DEFINE lost == {e \in sender[s].envelope : mails[e] = "none"}
<1>1. /\ sender[s].pc # "idle"
      /\ sender' = [sender EXCEPT ![s] = NoMail]
      /\ unlogged' = unlogged \cup lost
      /\ accepted' \in {accepted, IF sender[s].pc = "provider"
                                  THEN accepted \cup sender[s].envelope ELSE accepted}
      /\ UNCHANGED <<mails, addressed, sentAt, unheard>>
  BY DEF SenderEnds
<1>2. accepted \subseteq accepted' /\ accepted' \ accepted \subseteq lost
  BY <1>1 DEF MailInv, ProgressIsKnown, AtProvider
<1>3. unlogged' \subseteq Envelopes /\ sentAt' \subseteq Letters
  BY <1>1 DEF MailInv, MailTypeOK
<1>4. StampedAreLogged'
  BY <1>1 DEF MailInv, StampedAreLogged
<1>. QED
  BY <1>1, <1>2, <1>3, <1>4, LeaveKeeps

LEMMA MailStep == ASSUME MailInv, [MailNext]_mailVars PROVE MailInv'
<1>1. CASE MailNext
  <2>1. PICK s \in Senders :
            \/ \E e \in Envelopes, letter \in Letters \cup Notices : SendMail(s, e, letter)
            \/ ProviderAccepts(s) \/ ProviderRefuses(s) \/ AnswerIsLost(s)
            \/ LogMail(s)
            \/ StampInvoice(s)
            \/ SenderEnds(s)
    BY <1>1 DEF MailNext
  <2>. QED
    BY <2>1, SendKeeps, AnswerKeeps, LogKeeps, StampKeeps, SenderEndsKeeps
<1>2. CASE UNCHANGED mailVars
  <2>1. MailTypeOK'
    BY <1>2 DEF mailVars, MailInv, MailTypeOK
  <2>2. CarriedAreAddressed' /\ CarriedOnce' /\ SealedAreUnknown' /\ StampedAreLogged'
    BY <1>2 DEF mailVars, MailInv, CarriedAreAddressed, CarriedOnce, SealedAreUnknown,
                Sealed, StampedAreLogged
  <2>3. ProgressIsKnown'
    BY <1>2 DEF mailVars, MailInv, ProgressIsKnown, AtProvider, AtLog
  <2>4. (\A e \in Envelopes : EntryIsTrue(e))'
    BY <1>2 DEF mailVars, MailInv, EntryIsTrue, Carries
  <2>. QED
    BY <2>1, <2>2, <2>3, <2>4 DEF MailInv
<1>. QED
  BY <1>1, <1>2

LEMMA MailInvariant == MailSpec => []MailInv
BY MailInitOK, MailStep, PTL DEF MailSpec

-----------------------------------------------------------------------------
(* Theorems *)

\* The variables keep their types.
THEOREM MailTypesHold == MailSpec => []MailTypeOK
<1>1. MailInv => MailTypeOK
  BY DEF MailInv
<1>. QED
  BY <1>1, MailInvariant, PTL

\* The log tells what the provider did, whatever handlers overlap, fail or die, and an
\* invoice is marked as sent only after an attempt to mail it was logged.
THEOREM LogTellsWhatWasSent == MailSpec => []MailLogIsTrue
<1>1. MailInv => MailLogIsTrue
  BY DEF MailInv, EntryIsTrue, StampedAreLogged, MailLogIsTrue
<1>. QED
  BY <1>1, MailInvariant, PTL

-----------------------------------------------------------------------------
(***************************************************************************)
(* Vat: what the breakdown of a bill comes to.                             *)
(***************************************************************************)

\* Rounding is off by at most half a pesewa.
LEMMA RoundedIsNear ==
  \A n \in Int : \A k \in Rounded(n) : k \in Int /\ n - 1000 * k \in -500 .. 500
BY DEF Rounded

\* A bill is within 1.65 pesewas of what the law says.
LEMMA BillIsNear ==
  ASSUME NEW c \in Nat, NEW b \in Bills(c)
  PROVE  AsTheLawSays(b)
<1>1. PICK levies \in Levies(c) : b \in
          {[subtotal |-> c, nhil |-> levies[1], getfund |-> levies[2], vat |-> vat,
            total |-> c + levies[1] + levies[2] + vat] :
                vat \in Rounded(VatBase(c, levies) * VAT_RATE)}
  BY SMT DEF Bills
<1>2. PICK vat \in Rounded(VatBase(c, levies) * VAT_RATE) :
          b = [subtotal |-> c, nhil |-> levies[1], getfund |-> levies[2], vat |-> vat,
               total |-> c + levies[1] + levies[2] + vat]
  BY <1>1, SMT
<1>3. levies[1] \in Rounded(c * NHIL_RATE) /\ levies[2] \in Rounded(c * GETFUND_RATE)
  BY SMT DEF Levies
<1>4. /\ levies[1] \in Int /\ c * 25 - 1000 * levies[1] \in -500 .. 500
      /\ levies[2] \in Int /\ c * 25 - 1000 * levies[2] \in -500 .. 500
  <2>1. c * NHIL_RATE = c * 25 /\ c * GETFUND_RATE = c * 25 /\ c * 25 \in Int
    BY SMT DEF NHIL_RATE, GETFUND_RATE
  <2>. QED
    BY <1>3, <2>1, RoundedIsNear, SMT
<1>5. vat \in Int /\ (c + levies[1] + levies[2]) * 150 - 1000 * vat \in -500 .. 500
  <2>1. /\ VatBase(c, levies) * VAT_RATE = (c + levies[1] + levies[2]) * 150
        /\ (c + levies[1] + levies[2]) * 150 \in Int
    BY <1>4, SMT DEF VatBase, VAT_RATE
  <2>. QED
    BY <2>1, RoundedIsNear, SMT
<1>6. b.subtotal = c /\ b.total = c + levies[1] + levies[2] + vat
  BY <1>2, SMT
<1>7. 400 * (c + levies[1] + levies[2] + vat) - 483 * c \in -660 .. 660
  <2>. DEFINE nhil == levies[1]
              getfund == levies[2]
  <2>1. /\ nhil \in Int /\ c * 25 - 1000 * nhil \in -500 .. 500
        /\ getfund \in Int /\ c * 25 - 1000 * getfund \in -500 .. 500
        /\ vat \in Int /\ (c + nhil + getfund) * 150 - 1000 * vat \in -500 .. 500
    BY <1>4, <1>5
  <2>. HIDE DEF nhil, getfund
  \* the three roundings add up to at most 1.65 pesewas
  <2>2. 400 * (c + nhil + getfund + vat) - 483 * c \in -660 .. 660
    BY <2>1, SMT
  <2>. QED
    BY <2>2 DEF nhil, getfund
<1>. QED
  BY <1>6, <1>7, SMT DEF AsTheLawSays

LEMMA ChargedStep ==
  ASSUME ChargedAsTheLawSays, [Compute]_bill
  PROVE  ChargedAsTheLawSays'
<1>1. CASE Compute
  <2>1. PICK c \in Nat : bill' \in Bills(c)
    BY <1>1, VatAssumption DEF Compute
  <2>2. AsTheLawSays(bill')
    BY <2>1, BillIsNear
  <2>. QED
    BY <2>2, SMT DEF ChargedAsTheLawSays, AsTheLawSays
<1>2. CASE UNCHANGED bill
  BY <1>2, SMT DEF ChargedAsTheLawSays, AsTheLawSays
<1>. QED
  BY <1>1, <1>2

\* Whatever an invoice's orders come to, the total charged is the statutory one to
\* within two pesewas: the three roundings never add up to more.
THEOREM ChargesAreStatutory == VatSpec => []ChargedAsTheLawSays
<1>1. VatInit => ChargedAsTheLawSays
  BY BillIsNear, VatAssumption DEF VatInit, ChargedAsTheLawSays
<1>2. ChargedAsTheLawSays /\ [Compute]_bill => ChargedAsTheLawSays'
  BY ChargedStep
<1>. QED
  BY <1>1, <1>2, PTL DEF VatSpec

-----------------------------------------------------------------------------
(***************************************************************************)
(* Sessions and Onboarding: the columns of a user row that two handlers    *)
(* write.                                                                  *)
(***************************************************************************)

(* Sessions: the inductive invariant *)

\* The token in a row was handed out to its member.
StoredTokensAreTheirs ==
    \A m \in Members : secret[m].refresh # NoToken => <<secret[m].refresh, m>> \in bearer

\* No token was handed out twice.
OneBearer ==
    \A t \in Tokens, m, n \in Members : <<t, m>> \in bearer /\ <<t, n>> \in bearer => m = n

\* What was retired had been handed out: a new token is none of these.
RetiredWereIssued ==
    \A t \in retired : \E m \in Members : <<t, m>> \in bearer

SessionInv ==
    /\ SessionTypeOK
    /\ StoredTokensAreTheirs
    /\ OneBearer
    /\ RetiredWereIssued
    /\ RetiredTokensStayOut

-----------------------------------------------------------------------------
(* Sessions: steps *)

LEMMA SessionInitOK == ASSUME SessionInit PROVE SessionInv
BY SessionsAssumption
DEF SessionInit, SessionInv, SessionTypeOK, Secret, NoSecret, NoCall,
    StoredTokensAreTheirs, OneBearer, RetiredWereIssued, RetiredTokensStayOut

\* Loading a row disturbs nothing but the handler.
LEMMA CallLoadKeeps ==
  ASSUME SessionInv, NEW c \in Calls, NEW m \in Members,
         NEW pc \in {"issue", "clear", "password", "profile"},
         LoadSecret(c, m, pc), UNCHANGED <<secret, bearer, retired>>
  PROVE  SessionInv'
<1>1. SessionTypeOK'
  BY DEF SessionInv, SessionTypeOK, LoadSecret
<1>. QED
  BY <1>1
  DEF SessionInv, StoredTokensAreTheirs, OneBearer, RetiredWereIssued, RetiredTokensStayOut

\* What a flush does: the row keeps its token or gets the patch's, and a token
\* that goes is retired.
LEMMA SaveWrites ==
  ASSUME SessionTypeOK, NEW c \in Calls, NEW m \in Members, NEW patch \in Secret,
         SaveSecret(c, m, patch)
  PROVE  /\ secret' \in [Members -> Secret]
         /\ call' \in [Calls -> [pc : {"idle", "issue", "clear", "password", "profile"},
                                 member : SUBSET Members, loaded : Secret]]
         /\ \A n \in Members \ {m} : secret'[n] = secret[n]
         /\ \/ secret'[m].refresh = secret[m].refresh
            \/ secret'[m].refresh = patch.refresh /\ patch.refresh # call[c].loaded.refresh
         /\ retired' = retired \cup ({secret[m].refresh} \ {NoToken, secret'[m].refresh})
         /\ retired' \subseteq Tokens
<1>. DEFINE row == Columns(secret[m], call[c].loaded, patch)
<1>1. row \in Secret
  BY DEF SessionTypeOK, Columns, Secret
<1>2. /\ row.refresh = secret[m].refresh
         \/ (row.refresh = patch.refresh /\ patch.refresh # call[c].loaded.refresh)
      /\ secret[m].refresh \in Tokens \cup {NoToken}
  BY DEF SessionTypeOK, Columns, Secret
<1>3. NoCall \in [pc : {"idle", "issue", "clear", "password", "profile"},
                  member : SUBSET Members, loaded : Secret]
  BY DEF NoCall, NoSecret, Secret
<1>4. /\ secret' = [secret EXCEPT ![m] = row]
      /\ retired' = retired \cup ({secret[m].refresh} \ {NoToken, row.refresh})
      /\ call' = [call EXCEPT ![c] = NoCall]
  BY DEF SaveSecret
<1>. HIDE DEF row
<1>5. secret'[m] = row /\ \A n \in Members \ {m} : secret'[n] = secret[n]
  BY <1>4 DEF SessionTypeOK
<1>. QED
  BY <1>1, <1>2, <1>3, <1>4, <1>5 DEF SessionTypeOK

\* A flush that does not touch the token, or clears it, brings none back.
LEMMA QuietSaveKeeps ==
  ASSUME SessionInv, NEW c \in Calls, NEW m \in Members, NEW patch \in Secret,
         SaveSecret(c, m, patch), UNCHANGED bearer,
         patch.refresh = NoToken \/ patch.refresh = call[c].loaded.refresh
  PROVE  SessionInv'
<1>1. /\ SessionTypeOK'
      /\ \A n \in Members \ {m} : secret'[n] = secret[n]
      /\ secret'[m].refresh \in {secret[m].refresh, NoToken}
      /\ retired' = retired \cup ({secret[m].refresh} \ {NoToken, secret'[m].refresh})
  BY SaveWrites DEF SessionInv, SessionTypeOK
<1>2. StoredTokensAreTheirs'
  BY <1>1 DEF SessionInv, StoredTokensAreTheirs
<1>3. OneBearer'
  BY DEF SessionInv, OneBearer
<1>4. RetiredWereIssued'
  BY <1>1 DEF SessionInv, StoredTokensAreTheirs, RetiredWereIssued
<1>5. RetiredTokensStayOut'
  <2>. SUFFICES ASSUME NEW n \in Members, secret'[n].refresh \in retired'
                PROVE  FALSE
    BY DEF RetiredTokensStayOut
  <2>1. NoToken \notin retired'
    BY <1>1, SessionsAssumption DEF SessionTypeOK
  <2>2. secret'[n].refresh = secret[n].refresh /\ secret[n].refresh # NoToken
    BY <1>1, <2>1
  <2>3. secret[n].refresh \notin retired
    BY DEF SessionInv, RetiredTokensStayOut
  <2>4. secret[n].refresh = secret[m].refresh /\ secret'[m].refresh # secret[m].refresh
    BY <1>1, <2>2, <2>3
  <2>5. n # m
    BY <2>2, <2>4
  <2>6. secret[n].refresh \in Tokens
    BY <2>2 DEF SessionInv, SessionTypeOK, Secret
  <2>. QED
    BY <2>2, <2>4, <2>5, <2>6 DEF SessionInv, StoredTokensAreTheirs, OneBearer
<1>. QED
  BY <1>1, <1>2, <1>3, <1>4, <1>5 DEF SessionInv

\* A token nobody had is in no row and was never retired.
LEMMA IssueKeeps ==
  ASSUME SessionInv, NEW c \in Calls, NEW t \in Tokens, IssueTokens(c, t)
  PROVE  SessionInv'
<1>1. PICK m \in call[c].member :
          /\ \A n \in Members : <<t, n>> \notin bearer
          /\ SaveSecret(c, m, [call[c].loaded EXCEPT !.refresh = t])
          /\ bearer' = bearer \cup {<<t, m>>}
  BY DEF IssueTokens
<1>. DEFINE patch == [call[c].loaded EXCEPT !.refresh = t]
<1>2. m \in Members /\ patch \in Secret /\ patch.refresh = t
  BY DEF SessionInv, SessionTypeOK, Secret
<1>3. SaveSecret(c, m, patch)
  BY <1>1
<1>. HIDE DEF patch
<1>4. /\ SessionTypeOK'
      /\ \A n \in Members \ {m} : secret'[n] = secret[n]
      /\ secret'[m].refresh \in {secret[m].refresh, t}
      /\ retired' = retired \cup ({secret[m].refresh} \ {NoToken, secret'[m].refresh})
  BY <1>1, <1>2, <1>3, SaveWrites DEF SessionInv, SessionTypeOK
<1>5. StoredTokensAreTheirs'
  BY <1>1, <1>2, <1>4 DEF SessionInv, StoredTokensAreTheirs
<1>6. OneBearer'
  BY <1>1, <1>2 DEF SessionInv, OneBearer
<1>7. RetiredWereIssued'
  BY <1>1, <1>2, <1>4 DEF SessionInv, StoredTokensAreTheirs, RetiredWereIssued
<1>8. RetiredTokensStayOut'
  <2>. SUFFICES ASSUME NEW n \in Members, secret'[n].refresh \in retired'
                PROVE  FALSE
    BY DEF RetiredTokensStayOut
  <2>1. NoToken \notin retired'
    BY <1>4, SessionsAssumption DEF SessionTypeOK
  <2>2. t \notin retired /\ (secret[m].refresh # NoToken => secret[m].refresh # t)
    BY <1>1, <1>2 DEF SessionInv, RetiredWereIssued, StoredTokensAreTheirs
  <2>3. secret[n].refresh \notin retired /\ secret[m].refresh \notin retired
    BY <1>2 DEF SessionInv, RetiredTokensStayOut
  <2>4. n # m /\ secret'[n].refresh = secret[n].refresh
    BY <1>2, <1>4, <2>1, <2>2, <2>3
  <2>5. secret[n].refresh = secret[m].refresh /\ secret[n].refresh # NoToken
    BY <1>4, <2>1, <2>3, <2>4
  <2>6. secret[n].refresh \in Tokens
    BY <2>5 DEF SessionInv, SessionTypeOK, Secret
  <2>. QED
    BY <1>2, <2>4, <2>5, <2>6 DEF SessionInv, StoredTokensAreTheirs, OneBearer
<1>. QED
  BY <1>4, <1>5, <1>6, <1>7, <1>8 DEF SessionInv

LEMMA SessionStep == ASSUME SessionInv, [SessionNext]_sessionVars PROVE SessionInv'
<1>1. CASE UNCHANGED sessionVars
  BY <1>1
  DEF sessionVars, SessionInv, SessionTypeOK, StoredTokensAreTheirs, OneBearer,
      RetiredWereIssued, RetiredTokensStayOut
<1>. SUFFICES ASSUME NEW c \in Calls,
                     \/ \E m \in Members, p \in Passwords : SignInByPassword(c, m, p)
                     \/ \E m \in Members : SignInOtherwise(c, m)
                     \/ \E t \in Tokens, m \in Members : Refresh(c, t, m)
                     \/ \E t \in Tokens : IssueTokens(c, t)
                     \/ \E m \in Members : Logout(c, m)
                     \/ ClearRefreshToken(c)
                     \/ \E m \in Members : CreatePassword(c, m)
                     \/ \E m \in Members, p \in Passwords : UpdatePassword(c, m, p)
                     \/ \E p \in Passwords : SavePassword(c, p)
                     \/ \E m \in Members : UpdateProfile(c, m)
                     \/ SaveProfile(c)
                     \/ CallEnds(c)
              PROVE  SessionInv'
  BY <1>1 DEF SessionNext
<1>2. call[c].loaded \in Secret /\ call[c].member \subseteq Members
  BY DEF SessionInv, SessionTypeOK
<1>3. ASSUME NEW m \in Members, NEW p \in Passwords, SignInByPassword(c, m, p)
      PROVE  SessionInv'
  BY <1>3, CallLoadKeeps DEF SignInByPassword
<1>4. ASSUME NEW m \in Members, SignInOtherwise(c, m)
      PROVE  SessionInv'
  BY <1>4, CallLoadKeeps DEF SignInOtherwise
<1>5. ASSUME NEW t \in Tokens, NEW m \in Members, Refresh(c, t, m)
      PROVE  SessionInv'
  BY <1>5, CallLoadKeeps DEF Refresh
<1>6. ASSUME NEW m \in Members, Logout(c, m)
      PROVE  SessionInv'
  BY <1>6, CallLoadKeeps DEF Logout
<1>7. ASSUME ClearRefreshToken(c)
      PROVE  SessionInv'
  <2>1. PICK m \in call[c].member :
            SaveSecret(c, m, [call[c].loaded EXCEPT !.refresh = NoToken]) /\ UNCHANGED bearer
    BY <1>7 DEF ClearRefreshToken
  <2>. DEFINE patch == [call[c].loaded EXCEPT !.refresh = NoToken]
  <2>2. patch \in Secret /\ patch.refresh = NoToken
    BY <1>2 DEF Secret
  <2>3. SaveSecret(c, m, patch)
    BY <2>1
  <2>. HIDE DEF patch
  <2>. QED
    BY <1>2, <2>1, <2>2, <2>3, QuietSaveKeeps
<1>8. ASSUME NEW m \in Members, CreatePassword(c, m)
      PROVE  SessionInv'
  BY <1>8, CallLoadKeeps DEF CreatePassword
<1>9. ASSUME NEW m \in Members, NEW p \in Passwords, UpdatePassword(c, m, p)
      PROVE  SessionInv'
  BY <1>9, CallLoadKeeps DEF UpdatePassword
<1>10. ASSUME NEW p \in Passwords, SavePassword(c, p)
       PROVE  SessionInv'
  <2>1. PICK m \in call[c].member :
            SaveSecret(c, m, [call[c].loaded EXCEPT !.password = p]) /\ UNCHANGED bearer
    BY <1>10 DEF SavePassword
  <2>. DEFINE patch == [call[c].loaded EXCEPT !.password = p]
  <2>2. patch \in Secret /\ patch.refresh = call[c].loaded.refresh
    BY <1>2 DEF Secret
  <2>3. SaveSecret(c, m, patch)
    BY <2>1
  <2>. HIDE DEF patch
  <2>. QED
    BY <1>2, <2>1, <2>2, <2>3, QuietSaveKeeps
<1>11. ASSUME NEW m \in Members, UpdateProfile(c, m)
       PROVE  SessionInv'
  BY <1>11, CallLoadKeeps DEF UpdateProfile
<1>12. ASSUME SaveProfile(c)
       PROVE  SessionInv'
  <2>1. PICK m \in call[c].member :
            SaveSecret(c, m, call[c].loaded) /\ UNCHANGED bearer
    BY <1>12 DEF SaveProfile
  <2>. QED
    BY <1>2, <2>1, QuietSaveKeeps
<1>13. ASSUME CallEnds(c)
       PROVE  SessionInv'
  <2>1. SessionTypeOK'
    BY <1>13 DEF CallEnds, SessionInv, SessionTypeOK, NoCall, NoSecret, Secret
  <2>. QED
    BY <1>13, <2>1
    DEF CallEnds, SessionInv, StoredTokensAreTheirs, OneBearer, RetiredWereIssued,
        RetiredTokensStayOut
<1>. QED
  BY <1>3, <1>4, <1>5, <1>6, <1>7, <1>8, <1>9, <1>10, <1>11, <1>12, <1>13, IssueKeeps

LEMMA SessionInvariant == SessionSpec => []SessionInv
BY SessionInitOK, SessionStep, PTL DEF SessionSpec

-----------------------------------------------------------------------------
(* Sessions: theorems *)

\* Every column and local variable keeps its type.
THEOREM SessionTypesHold == SessionSpec => []SessionTypeOK
<1>1. SessionInv => SessionTypeOK
  BY DEF SessionInv
<1>. QED
  BY <1>1, SessionInvariant, PTL

\* A refresh token that was rotated out or revoked is never stored again, for any
\* number of handlers that save the same account from whatever they loaded
\* (issueTokens, logout, updatePassword, updateProfile).
THEOREM RetiredTokensNeverReturn == SessionSpec => []RetiredTokensStayOut
<1>1. SessionInv => RetiredTokensStayOut
  BY DEF SessionInv
<1>. QED
  BY <1>1, SessionInvariant, PTL

-----------------------------------------------------------------------------
(* Onboarding: the inductive invariant *)

Busy(d) == desk[d].pc # "idle"

\* An idle handler holds nothing; a running one works on a business of its owner.
DesksFit ==
    \A d \in Desks :
        /\ ~Busy(d) => desk[d] = Vacated
        /\ Busy(d) => /\ desk[d].owner \in Owners
                      /\ desk[d].business \in Businesses
                      /\ business[desk[d].business] = desk[d].owner
                      /\ desk[d].op \in {"create", "attach"}
        /\ desk[d].pc = "undo" => desk[d].op = "create"

\* No two of them work on one business.
DesksApart ==
    \A d, e \in Desks : d # e /\ Busy(d) => desk[d].business # desk[e].business

\* Nobody is linked to a business that is being created, so its roll-back is safe.
CreatedIsUnlinked ==
    \A d \in Desks : desk[d].op = "create" =>
        \A o \in Owners : owner[o].link # desk[d].business

\* A business that is being attached is no new orphan.
AttachedIsKnown ==
    \A d \in Desks : desk[d].op = "attach" =>
        \/ desk[d].business \in strays
        \/ owner[desk[d].owner].link = desk[d].business

OnboardingInv ==
    /\ OnboardingTypeOK
    /\ DesksFit
    /\ DesksApart
    /\ CreatedIsUnlinked
    /\ AttachedIsKnown
    /\ LinkedBusinessExists
    /\ NoOrphanIsLeft

-----------------------------------------------------------------------------
(* Onboarding: steps *)

LEMMA OnboardingInitOK == ASSUME OnboardingInit PROVE OnboardingInv
BY OnboardingAssumption
DEF OnboardingInit, OnboardingInv, OnboardingTypeOK, DesksFit, DesksApart, Busy,
    CreatedIsUnlinked, AttachedIsKnown, LinkedBusinessExists, NoOrphanIsLeft,
    NewOwner, Vacated

LEMMA VacatedType ==
  Vacated \in [pc : {"idle", "link", "save", "undo"}, op : {"none", "create", "attach"},
               owner : Owners \cup {NoOwner}, business : Businesses \cup {NoBusiness}]
BY DEF Vacated

\* A handler that goes on at another await keeps what it holds.
LEMMA ProceedKeeps ==
  ASSUME OnboardingInv, NEW d \in Desks, Busy(d), NEW pc \in {"link", "save", "undo"},
         pc = "undo" => desk[d].op = "create",
         Proceed(d, pc), UNCHANGED <<business, owner, strays>>
  PROVE  OnboardingInv'
<1>1. /\ desk'[d] = [desk[d] EXCEPT !.pc = pc]
      /\ \A e \in Desks : e # d => desk'[e] = desk[e]
      /\ desk' \in [Desks -> [pc : {"idle", "link", "save", "undo"},
                              op : {"none", "create", "attach"},
                              owner : Owners \cup {NoOwner},
                              business : Businesses \cup {NoBusiness}]]
  BY DEF OnboardingInv, OnboardingTypeOK, Proceed
<1>2. \A e \in Desks : /\ desk'[e].op = desk[e].op
                       /\ desk'[e].owner = desk[e].owner
                       /\ desk'[e].business = desk[e].business
                       /\ Busy(e)' <=> Busy(e)
  BY <1>1 DEF OnboardingInv, OnboardingTypeOK, Busy
<1>3. OnboardingTypeOK'
  BY <1>1 DEF OnboardingInv, OnboardingTypeOK
<1>4. DesksFit'
  BY <1>1, <1>2 DEF OnboardingInv, OnboardingTypeOK, DesksFit, Busy
<1>5. DesksApart'
  BY <1>2 DEF OnboardingInv, DesksApart
<1>6. CreatedIsUnlinked' /\ AttachedIsKnown'
  BY <1>2 DEF OnboardingInv, CreatedIsUnlinked, AttachedIsKnown
<1>7. LinkedBusinessExists' /\ NoOrphanIsLeft'
  BY <1>2 DEF OnboardingInv, LinkedBusinessExists, NoOrphanIsLeft
<1>. QED
  BY <1>3, <1>4, <1>5, <1>6, <1>7 DEF OnboardingInv

\* What holds of the other handlers when one leaves.
LEMMA LeaveFacts ==
  ASSUME OnboardingInv, NEW d \in Desks, Leave(d)
  PROVE  /\ desk'[d] = Vacated
         /\ \A e \in Desks : e # d => desk'[e] = desk[e]
         /\ desk' \in [Desks -> [pc : {"idle", "link", "save", "undo"},
                                 op : {"none", "create", "attach"},
                                 owner : Owners \cup {NoOwner},
                                 business : Businesses \cup {NoBusiness}]]
         /\ DesksApart'
BY VacatedType, OnboardingAssumption
DEF OnboardingInv, OnboardingTypeOK, Leave, DesksFit, DesksApart, Busy, Vacated

\* One that attached a business leaves no new orphan when it fails.
LEMMA DeskLeavesKeeps ==
  ASSUME OnboardingInv, NEW d \in Desks, Busy(d), desk[d].op = "attach",
         Leave(d), UNCHANGED <<business, owner, strays>>
  PROVE  OnboardingInv'
<1>1. OnboardingTypeOK' /\ DesksApart'
  BY LeaveFacts DEF OnboardingInv, OnboardingTypeOK
<1>2. DesksFit' /\ CreatedIsUnlinked' /\ AttachedIsKnown'
  BY LeaveFacts
  DEF OnboardingInv, DesksFit, Busy, Vacated, CreatedIsUnlinked, AttachedIsKnown
<1>3. LinkedBusinessExists' /\ NoOrphanIsLeft'
  BY LeaveFacts
  DEF OnboardingInv, DesksFit, AttachedIsKnown, LinkedBusinessExists, NoOrphanIsLeft
<1>. QED
  BY <1>1, <1>2, <1>3 DEF OnboardingInv

LEMMA LinkFailsKeeps ==
  ASSUME OnboardingInv, NEW d \in Desks, Busy(d), LinkFails(d),
         UNCHANGED <<business, owner, strays>>
  PROVE  OnboardingInv'
<1>1. CASE desk[d].op = "create"
  BY <1>1, ProceedKeeps DEF LinkFails
<1>2. CASE desk[d].op # "create"
  <2>1. desk[d].op = "attach"
    BY <1>2 DEF OnboardingInv, DesksFit
  <2>. QED
    BY <1>2, <2>1, DeskLeavesKeeps DEF LinkFails
<1>. QED
  BY <1>1, <1>2

LEMMA CreateBusinessKeeps ==
  ASSUME OnboardingInv, NEW d \in Desks, NEW o \in Owners, CreateBusiness(d, o)
  PROVE  OnboardingInv'
<1>1. PICK b \in Businesses :
          /\ business[b] = NoOwner
          /\ b \notin strays
          /\ \A e \in Desks : desk[e].business # b
          /\ business' = [business EXCEPT ![b] = o]
          /\ desk' = [desk EXCEPT ![d] = [pc |-> "link", op |-> "create",
                                          owner |-> o, business |-> b]]
  BY DEF CreateBusiness
<1>2. UNCHANGED <<owner, strays>> /\ ~Busy(d)
  BY DEF CreateBusiness, Busy
<1>3. /\ desk'[d] = [pc |-> "link", op |-> "create", owner |-> o, business |-> b]
      /\ \A e \in Desks : e # d => desk'[e] = desk[e]
      /\ business'[b] = o
      /\ \A x \in Businesses : x # b => business'[x] = business[x]
  BY <1>1 DEF OnboardingInv, OnboardingTypeOK
<1>4. \A p \in Owners : owner[p].link # b
  BY <1>1, OnboardingAssumption DEF OnboardingInv, LinkedBusinessExists
<1>5. OnboardingTypeOK'
  BY <1>1, <1>2 DEF OnboardingInv, OnboardingTypeOK
<1>6. DesksFit' /\ DesksApart'
  BY <1>1, <1>2, <1>3 DEF OnboardingInv, DesksFit, DesksApart, Busy
<1>7. CreatedIsUnlinked' /\ AttachedIsKnown'
  BY <1>2, <1>3, <1>4 DEF OnboardingInv, CreatedIsUnlinked, AttachedIsKnown
<1>8. LinkedBusinessExists'
  BY <1>1, <1>2, <1>3, <1>4, OnboardingAssumption
  DEF OnboardingInv, OnboardingTypeOK, LinkedBusinessExists
<1>9. NoOrphanIsLeft'
  <2>. SUFFICES ASSUME NEW x \in Businesses \ strays, business'[x] # NoOwner
                PROVE  \/ owner[business'[x]].link = x
                       \/ \E e \in Desks : desk'[e].business = x
    BY <1>2 DEF NoOrphanIsLeft
  <2>1. CASE x = b
    BY <1>3, <2>1
  <2>2. CASE x # b
    <3>1. desk[d].business # x
      BY <1>2, OnboardingAssumption DEF OnboardingInv, DesksFit, Vacated
    <3>. QED
      BY <1>3, <2>2, <3>1 DEF OnboardingInv, NoOrphanIsLeft
  <2>. QED
    BY <2>1, <2>2
<1>. QED
  BY <1>5, <1>6, <1>7, <1>8, <1>9 DEF OnboardingInv

LEMMA AttachKeeps ==
  ASSUME OnboardingInv, NEW d \in Desks, NEW o \in Owners, NEW b \in Businesses,
         AttachBusiness(d, o, b)
  PROVE  OnboardingInv'
<1>1. /\ business[b] = o /\ ~Busy(d)
      /\ \A e \in Desks : desk[e].owner # o
      /\ desk' = [desk EXCEPT ![d] = [pc |-> "link", op |-> "attach",
                                      owner |-> o, business |-> b]]
      /\ UNCHANGED <<business, owner, strays>>
  BY DEF AttachBusiness, Busy
<1>2. /\ desk'[d] = [pc |-> "link", op |-> "attach", owner |-> o, business |-> b]
      /\ \A e \in Desks : e # d => desk'[e] = desk[e]
  BY <1>1 DEF OnboardingInv, OnboardingTypeOK
<1>3. \A e \in Desks : desk[e].business # b
  BY <1>1, OnboardingAssumption DEF OnboardingInv, DesksFit, Vacated
<1>4. b \in strays \/ owner[o].link = b
  BY <1>1, <1>3, OnboardingAssumption DEF OnboardingInv, NoOrphanIsLeft
<1>5. OnboardingTypeOK'
  BY <1>1 DEF OnboardingInv, OnboardingTypeOK
<1>6. DesksFit' /\ DesksApart'
  BY <1>1, <1>2, <1>3 DEF OnboardingInv, DesksFit, DesksApart, Busy
<1>7. CreatedIsUnlinked' /\ AttachedIsKnown'
  BY <1>1, <1>2, <1>4 DEF OnboardingInv, CreatedIsUnlinked, AttachedIsKnown
<1>8. LinkedBusinessExists' /\ NoOrphanIsLeft'
  <2>1. \A x \in Businesses : desk[d].business # x
    BY <1>1, OnboardingAssumption DEF OnboardingInv, DesksFit, Vacated
  <2>. QED
    BY <1>1, <1>2, <2>1 DEF OnboardingInv, LinkedBusinessExists, NoOrphanIsLeft
<1>. QED
  BY <1>5, <1>6, <1>7, <1>8 DEF OnboardingInv

LEMMA SaveLinkKeeps ==
  ASSUME OnboardingInv, NEW d \in Desks, SaveLink(d)
  PROVE  OnboardingInv'
<1>. DEFINE o == desk[d].owner
            b == desk[d].business
<1>1. /\ Busy(d) /\ UNCHANGED business /\ Leave(d)
      /\ strays' = (strays \cup ({owner[o].link} \ {NoBusiness})) \ {b}
      /\ owner' = [owner EXCEPT ![o].link = b]
  BY DEF SaveLink, Busy
<1>2. o \in Owners /\ b \in Businesses /\ business[b] = o
  BY <1>1 DEF OnboardingInv, DesksFit
<1>3. /\ desk'[d] = Vacated
      /\ \A e \in Desks : e # d => desk'[e] = desk[e]
  BY <1>1, LeaveFacts
<1>4. /\ owner'[o].link = b
      /\ \A p \in Owners : p # o => owner'[p] = owner[p]
      /\ owner' \in [Owners -> [link : Businesses \cup {NoBusiness}, deleted : BOOLEAN]]
  BY <1>1, <1>2 DEF OnboardingInv, OnboardingTypeOK
<1>5. \A e \in Desks : e # d => desk[e].business # b
  BY <1>1 DEF OnboardingInv, DesksApart
<1>6. owner[o].link \in Businesses \cup {NoBusiness} /\ strays' \subseteq Businesses
  BY <1>1, <1>2 DEF OnboardingInv, OnboardingTypeOK
<1>7. OnboardingTypeOK' /\ DesksApart'
  BY <1>1, <1>4, <1>6, LeaveFacts DEF OnboardingInv, OnboardingTypeOK
<1>. HIDE DEF o, b
<1>8. DesksFit'
  BY <1>1, <1>3 DEF OnboardingInv, DesksFit, Busy, Vacated
<1>9. CreatedIsUnlinked'
  BY <1>2, <1>3, <1>4, <1>5 DEF OnboardingInv, CreatedIsUnlinked, Vacated
<1>10. AttachedIsKnown'
  <2>. SUFFICES ASSUME NEW e \in Desks, desk'[e].op = "attach"
                PROVE  \/ desk'[e].business \in strays'
                       \/ owner'[desk'[e].owner].link = desk'[e].business
    BY DEF AttachedIsKnown
  <2>1. e # d /\ desk'[e] = desk[e] /\ desk[e].business # b
    BY <1>3, <1>5 DEF Vacated
  <2>2. desk[e].owner \in Owners /\ desk[e].business \in Businesses
    BY <2>1 DEF OnboardingInv, DesksFit, Vacated
  <2>3. CASE desk[e].business \in strays
    BY <1>1, <2>1, <2>3
  <2>4. CASE owner[desk[e].owner].link = desk[e].business
    BY <1>1, <1>4, <2>1, <2>2, <2>4, OnboardingAssumption
  <2>. QED
    BY <2>1, <2>3, <2>4 DEF OnboardingInv, AttachedIsKnown
<1>11. LinkedBusinessExists'
  BY <1>1, <1>2, <1>4 DEF OnboardingInv, LinkedBusinessExists
<1>12. NoOrphanIsLeft'
  <2>. SUFFICES ASSUME NEW x \in Businesses \ strays', business[x] # NoOwner
                PROVE  \/ owner'[business[x]].link = x
                       \/ \E e \in Desks : desk'[e].business = x
    BY <1>1 DEF NoOrphanIsLeft
  <2>1. CASE x = b
    BY <1>2, <1>4, <2>1
  <2>2. CASE x # b
    <3>1. x \notin strays /\ x # owner[o].link
      BY <1>1, <2>2, OnboardingAssumption
    <3>2. CASE owner[business[x]].link = x
      <4>1. business[x] \in Owners
        BY DEF OnboardingInv, OnboardingTypeOK
      <4>. QED
        BY <1>4, <3>1, <3>2, <4>1
    <3>3. CASE \E e \in Desks : desk[e].business = x
      BY <1>3, <2>2, <3>3 DEF b
    <3>. QED
      BY <3>1, <3>2, <3>3 DEF OnboardingInv, NoOrphanIsLeft
  <2>. QED
    BY <2>1, <2>2
<1>. QED
  BY <1>7, <1>8, <1>9, <1>10, <1>11, <1>12 DEF OnboardingInv

LEMMA RollBackKeeps ==
  ASSUME OnboardingInv, NEW d \in Desks, RollBack(d)
  PROVE  OnboardingInv'
<1>. DEFINE b == desk[d].business
<1>1. /\ Busy(d) /\ desk[d].op = "create" /\ b \in Businesses
      /\ business' = [business EXCEPT ![b] = NoOwner]
      /\ Leave(d) /\ UNCHANGED <<owner, strays>>
  BY DEF RollBack, Busy, OnboardingInv, DesksFit
<1>2. /\ business'[b] = NoOwner
      /\ \A x \in Businesses : x # b => business'[x] = business[x]
  BY <1>1 DEF OnboardingInv, OnboardingTypeOK
<1>3. OnboardingTypeOK' /\ DesksApart'
  BY <1>1, LeaveFacts DEF OnboardingInv, OnboardingTypeOK
<1>4. DesksFit'
  <2>1. \A e \in Desks : e # d => desk[e].business # b
    BY <1>1 DEF OnboardingInv, DesksApart
  <2>. QED
    BY <1>1, <1>2, <2>1, LeaveFacts DEF OnboardingInv, DesksFit, Busy, Vacated
<1>5. CreatedIsUnlinked' /\ AttachedIsKnown'
  BY <1>1, LeaveFacts
  DEF OnboardingInv, Vacated, CreatedIsUnlinked, AttachedIsKnown
<1>6. LinkedBusinessExists'
  <2>1. \A o \in Owners : owner[o].link # b
    BY <1>1 DEF OnboardingInv, CreatedIsUnlinked
  <2>. QED
    BY <1>1, <1>2, <2>1 DEF OnboardingInv, OnboardingTypeOK, LinkedBusinessExists
<1>7. NoOrphanIsLeft'
  BY <1>1, <1>2, LeaveFacts DEF OnboardingInv, NoOrphanIsLeft
<1>. QED
  BY <1>3, <1>4, <1>5, <1>6, <1>7 DEF OnboardingInv

LEMMA DeskEndsKeeps ==
  ASSUME OnboardingInv, NEW d \in Desks, DeskEnds(d)
  PROVE  OnboardingInv'
<1>1. CASE desk[d].op = "create"
  <2>1. /\ Busy(d) /\ Leave(d) /\ UNCHANGED <<business, owner>>
        /\ strays' = strays \cup {desk[d].business}
    BY <1>1 DEF DeskEnds, Busy
  <2>2. desk[d].business \in Businesses
    BY <2>1 DEF OnboardingInv, DesksFit
  <2>3. OnboardingTypeOK' /\ DesksApart'
    BY <2>1, <2>2, LeaveFacts DEF OnboardingInv, OnboardingTypeOK
  <2>4. DesksFit' /\ CreatedIsUnlinked' /\ AttachedIsKnown'
    BY <2>1, LeaveFacts
    DEF OnboardingInv, DesksFit, Busy, Vacated, CreatedIsUnlinked, AttachedIsKnown
  <2>5. LinkedBusinessExists' /\ NoOrphanIsLeft'
    BY <2>1, LeaveFacts DEF OnboardingInv, LinkedBusinessExists, NoOrphanIsLeft
  <2>. QED
    BY <2>3, <2>4, <2>5 DEF OnboardingInv
<1>2. CASE desk[d].op # "create"
  <2>1. Busy(d) /\ Leave(d) /\ UNCHANGED <<business, owner, strays>>
    BY <1>2 DEF DeskEnds, Busy
  <2>2. desk[d].op = "attach"
    BY <1>2, <2>1 DEF OnboardingInv, DesksFit
  <2>. QED
    BY <2>1, <2>2, DeskLeavesKeeps
<1>. QED
  BY <1>1, <1>2

\* A deletion or reactivation leaves the link where it is.
LEMMA DeleteOwnerKeeps ==
  ASSUME OnboardingInv, NEW o \in Owners, DeleteOwner(o)
  PROVE  OnboardingInv'
<1>1. /\ \A p \in Owners : owner'[p].link = owner[p].link
      /\ owner' \in [Owners -> [link : Businesses \cup {NoBusiness}, deleted : BOOLEAN]]
  BY DEF DeleteOwner, OnboardingInv, OnboardingTypeOK
<1>2. UNCHANGED <<business, desk, strays>>
  BY DEF DeleteOwner
<1>3. OnboardingTypeOK' /\ DesksFit' /\ DesksApart'
  BY <1>1, <1>2 DEF OnboardingInv, OnboardingTypeOK, DesksFit, DesksApart, Busy
<1>4. CreatedIsUnlinked' /\ LinkedBusinessExists'
  BY <1>1, <1>2 DEF OnboardingInv, CreatedIsUnlinked, LinkedBusinessExists
<1>5. AttachedIsKnown'
  BY <1>1, <1>2 DEF OnboardingInv, DesksFit, Vacated, AttachedIsKnown
<1>6. NoOrphanIsLeft'
  BY <1>1, <1>2 DEF OnboardingInv, OnboardingTypeOK, NoOrphanIsLeft
<1>. QED
  BY <1>3, <1>4, <1>5, <1>6 DEF OnboardingInv

LEMMA OnboardingStep ==
  ASSUME OnboardingInv, [OnboardingNext]_onboardingVars
  PROVE  OnboardingInv'
<1>1. CASE UNCHANGED onboardingVars
  BY <1>1
  DEF onboardingVars, OnboardingInv, OnboardingTypeOK, DesksFit, DesksApart, Busy,
      CreatedIsUnlinked, AttachedIsKnown, LinkedBusinessExists, NoOrphanIsLeft
<1>2. ASSUME NEW d \in Desks, NEW o \in Owners, CreateBusiness(d, o)
      PROVE  OnboardingInv'
  BY <1>2, CreateBusinessKeeps
<1>3. ASSUME NEW d \in Desks, NEW o \in Owners, NEW b \in Businesses,
             AttachBusiness(d, o, b)
      PROVE  OnboardingInv'
  BY <1>3, AttachKeeps
<1>4. ASSUME NEW d \in Desks, SetBusinessId(d)
      PROVE  OnboardingInv'
  <2>1. Busy(d) /\ UNCHANGED <<business, owner, strays>>
    BY <1>4 DEF SetBusinessId, Busy
  <2>2. LinkFails(d) \/ Proceed(d, "save")
    BY <1>4 DEF SetBusinessId
  <2>. QED
    BY <2>1, <2>2, LinkFailsKeeps, ProceedKeeps
<1>5. ASSUME NEW d \in Desks, SaveLink(d)
      PROVE  OnboardingInv'
  BY <1>5, SaveLinkKeeps
<1>6. ASSUME NEW d \in Desks, LinkErrs(d)
      PROVE  OnboardingInv'
  BY <1>6, LinkFailsKeeps DEF LinkErrs, Busy
<1>7. ASSUME NEW d \in Desks, RollBack(d)
      PROVE  OnboardingInv'
  BY <1>7, RollBackKeeps
<1>8. ASSUME NEW d \in Desks, DeskEnds(d)
      PROVE  OnboardingInv'
  BY <1>8, DeskEndsKeeps
<1>9. ASSUME NEW o \in Owners, DeleteOwner(o)
      PROVE  OnboardingInv'
  BY <1>9, DeleteOwnerKeeps
<1>. QED
  BY <1>1, <1>2, <1>3, <1>4, <1>5, <1>6, <1>7, <1>8, <1>9 DEF OnboardingNext

LEMMA OnboardingInvariant == OnboardingSpec => []OnboardingInv
BY OnboardingInitOK, OnboardingStep, PTL DEF OnboardingSpec

-----------------------------------------------------------------------------
(* Onboarding: theorems *)

\* Every column and local variable keeps its type.
THEOREM OnboardingTypesHold == OnboardingSpec => []OnboardingTypeOK
<1>1. OnboardingInv => OnboardingTypeOK
  BY DEF OnboardingInv
<1>. QED
  BY <1>1, OnboardingInvariant, PTL

\* However creations, attachments, failing links, roll-backs and deaths overlap, no
\* account is left naming a business that is gone or another's, and a business no
\* account names is one of the known strays (create, setBusinessId).
THEOREM AccountsAndBusinessesAgree == OnboardingSpec => []BusinessesAreOwned
<1>1. OnboardingInv => BusinessesAreOwned
  BY DEF OnboardingInv, BusinessesAreOwned
<1>. QED
  BY <1>1, OnboardingInvariant, PTL

=============================================================================
