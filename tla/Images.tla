------------------------------- MODULE Images -------------------------------
(***************************************************************************)
(* Images: objects in a bucket, and the rows that hold their keys -- the   *)
(* avatar of a user, the logo of a business, the photos of a resource.     *)
(* Clients upload straight to the bucket; the services write the row and   *)
(* then delete, best-effort, the objects it no longer holds.               *)
(*                                                                         *)
(* Clients behave: they send a key after its upload went through, once and *)
(* to one row, and delete only what no row held.  Edits of one resource    *)
(* come one after the other (its photos are sent as a whole); avatars and  *)
(* logos are edited in every overlap.                                      *)
(***************************************************************************)
EXTENDS FiniteSets

CONSTANTS
    Avatars, Logos, Photos,  \* users, businesses and resources that hold images
    Keys, NoKey,             \* object keys, and the absence of one
    Editors,                 \* concurrently running handlers
    Swaps                    \* may an edit move a photo between its two fields?

ASSUME ImagesAssumption ==
    /\ NoKey \notin Keys
    /\ Photos \cap (Avatars \cup Logos) = {}
    /\ Swaps \in BOOLEAN

Holders == Avatars \cup Logos \cup Photos

VARIABLES
    presigned,  \* keys the service handed out
    stored,     \* keys with an object in the bucket
    held,       \* the image columns of each holder
    editor,     \* the running updates
    attached,   \* history: keys a row has held
    litter      \* history: objects nothing will delete any more

imageVars == <<presigned, stored, held, editor, attached, litter>>

-----------------------------------------------------------------------------
Bare == [primary |-> NoKey, supporting |-> {}]

KeysOf(row) == ({row.primary} \cup row.supporting) \ {NoKey}

NoEditor == [pc |-> "idle", holder |-> {}, old |-> Bare, new |-> Bare, doomed |-> {}]

\* An upload that no row has held and no running update is about to put in one.
Unclaimed(k) ==
    /\ k \in stored \ attached
    /\ \A e \in Editors : k \notin KeysOf(editor[e].new)

-----------------------------------------------------------------------------
(* The bucket *)

\* createPresignedUpload: a key nobody has.
Presign(k) ==
    /\ k \notin presigned
    /\ presigned' = presigned \cup {k}
    /\ UNCHANGED <<stored, held, editor, attached, litter>>

\* The client uploads to the presigned URL, once.
PutObject(k) ==
    /\ k \in presigned \ (stored \cup attached)
    /\ stored' = stored \cup {k}
    /\ UNCHANGED <<presigned, held, editor, attached, litter>>

\* DELETE /files: a client drops an upload it did not use.  Deleting a key that
\* is not there succeeds too.
DeleteFile(k) ==
    /\ Unclaimed(k)
    /\ stored' = stored \ {k}
    /\ UNCHANGED <<presigned, held, editor, attached, litter>>

-----------------------------------------------------------------------------
(* Updates *)

\* The handler e reads the row of h and will make it `new`.
LoadHolder(e, h, new) ==
    /\ editor[e].pc = "idle"
    /\ editor' = [editor EXCEPT ![e] = [pc |-> "write", holder |-> {h},
                                        old |-> held[h], new |-> new, doomed |-> {}]]
    /\ UNCHANGED <<presigned, stored, held, attached, litter>>

UpdateAvatar(e, h, k) ==
    /\ k = NoKey \/ Unclaimed(k)
    /\ LoadHolder(e, h, [Bare EXCEPT !.primary = k])

UpdateLogo(e, h, k) ==
    /\ k = NoKey \/ Unclaimed(k)
    /\ LoadHolder(e, h, [Bare EXCEPT !.primary = k])

\* The photos an update may send: those of the row, and unclaimed uploads.
\* Without Swaps a photo stays in its field or goes.
Sendable(row, new) ==
    /\ \A k \in KeysOf(new) : k \in KeysOf(row) \/ Unclaimed(k)
    /\ new.primary \notin new.supporting
    /\ ~Swaps => new.primary \notin row.supporting /\ row.primary \notin new.supporting

\* A field that is not sent is kept.
UpdatePhotos(e, h, new) ==
    /\ \A f \in Editors : h \notin editor[f].holder
    /\ Sendable(held[h], new)
    /\ LoadHolder(e, h, new)

\* Mutant: what is deleted is what the row held, kept or not.
DoomedEverything(old, new) == KeysOf(old)

\* What an update deletes: the primary image that was replaced and the
\* supporting ones that were removed, each looked up in its own field.
Doomed(old, new) ==
    (({old.primary} \ {new.primary}) \cup (old.supporting \ new.supporting)) \ {NoKey}

\* An object an overlapping update put in the row is not among them.
WriteHolder(e) ==
    \E h \in editor[e].holder :
        LET q == editor[e]
        IN  /\ q.pc = "write"
            /\ held' = [held EXCEPT ![h] = q.new]
            /\ editor' = [editor EXCEPT ![e] = [q EXCEPT !.pc = "clean",
                                                !.doomed = Doomed(q.old, q.new)]]
            /\ attached' = attached \cup KeysOf(q.new)
            /\ litter' = litter \cup (KeysOf(held[h]) \ (KeysOf(q.old) \cup KeysOf(q.new)))
            /\ UNCHANGED <<presigned, stored>>

\* Mutant: the objects are not deleted.
DeleteNoObject(e, k) ==
    /\ k \in editor[e].doomed
    /\ editor' = [editor EXCEPT ![e].doomed = @ \ {k}]
    /\ UNCHANGED <<presigned, stored, held, attached, litter>>

DeleteObject(e, k) ==
    /\ k \in editor[e].doomed
    /\ stored' = stored \ {k}
    /\ editor' = [editor EXCEPT ![e].doomed = @ \ {k}]
    /\ UNCHANGED <<presigned, held, attached, litter>>

\* The failure is logged, and the next object has its turn.
DeleteObjectFails(e, k) ==
    /\ k \in editor[e].doomed
    /\ litter' = litter \cup {k}
    /\ editor' = [editor EXCEPT ![e].doomed = @ \ {k}]
    /\ UNCHANGED <<presigned, stored, held, attached>>

UpdateDone(e) ==
    /\ editor[e].pc = "clean"
    /\ editor[e].doomed = {}
    /\ editor' = [editor EXCEPT ![e] = NoEditor]
    /\ UNCHANGED <<presigned, stored, held, attached, litter>>

\* The handler ends at an await.
EditorEnds(e) ==
    /\ editor[e].pc # "idle"
    /\ litter' = litter \cup editor[e].doomed
    /\ editor' = [editor EXCEPT ![e] = NoEditor]
    /\ UNCHANGED <<presigned, stored, held, attached>>

\* ResourceService.delete: the objects stay behind.  (The id is used again
\* here for another resource.)
DeleteResourceOf(h) ==
    /\ \A f \in Editors : h \notin editor[f].holder
    /\ held' = [held EXCEPT ![h] = Bare]
    /\ litter' = litter \cup KeysOf(held[h])
    /\ UNCHANGED <<presigned, stored, editor, attached>>

-----------------------------------------------------------------------------
ImageInit ==
    /\ presigned = {}
    /\ stored = {}
    /\ held = [h \in Holders |-> Bare]
    /\ editor = [e \in Editors |-> NoEditor]
    /\ attached = {}
    /\ litter = {}

ImageNext ==
    \/ \E k \in Keys : Presign(k) \/ PutObject(k) \/ DeleteFile(k)
    \/ \E h \in Photos : DeleteResourceOf(h)
    \/ \E e \in Editors :
          \/ \E h \in Avatars, k \in Keys \cup {NoKey} : UpdateAvatar(e, h, k)
          \/ \E h \in Logos, k \in Keys \cup {NoKey} : UpdateLogo(e, h, k)
          \/ \E h \in Photos, p \in Keys \cup {NoKey}, s \in SUBSET Keys :
                UpdatePhotos(e, h, [primary |-> p, supporting |-> s])
          \/ WriteHolder(e)
          \/ \E k \in Keys : DeleteObject(e, k) \/ DeleteObjectFails(e, k)
          \/ UpdateDone(e)
          \/ EditorEnds(e)

ImageSpec == ImageInit /\ [][ImageNext]_imageVars

-----------------------------------------------------------------------------
(* Properties *)

Row == [primary : Keys \cup {NoKey}, supporting : SUBSET Keys]

\* The values the variables take.
ImageTypeOK ==
    /\ presigned \subseteq Keys /\ attached \subseteq Keys /\ litter \subseteq Keys
    /\ stored \subseteq presigned
    /\ held \in [Holders -> Row]
    /\ editor \in [Editors -> [pc : {"idle", "write", "clean"}, holder : SUBSET Holders,
                               old : Row, new : Row, doomed : SUBSET Keys]]

\* An image a row holds is in the bucket: the objects an update deletes are the
\* ones it replaced or removed, whatever overlaps, fails or ends half-way
\* (updateAvatar; update of a business and of a resource).
NoBrokenImage ==
    \A h \in Holders : KeysOf(held[h]) \subseteq stored

\* An image that was in use and is not any more leaves the bucket, unless its
\* deletion failed, its handler died, an overlapping update replaced it unseen, or
\* its resource was deleted with its images still in it.
ReplacedImagesGo ==
    \A k \in (stored \cap attached) \ litter :
        \/ \E h \in Holders : k \in KeysOf(held[h])
        \/ \E e \in Editors : k \in editor[e].doomed

=============================================================================
