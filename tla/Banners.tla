------------------------------ MODULE Banners ------------------------------
(***************************************************************************)
(* Banners (internal/handlers/banners.go): pictures with a title and a     *)
(* link that an admin uploads, edits and deletes, and that phones list and *)
(* load.  A client keeps the picture it loaded with its ETag and asks for  *)
(* it again with If-None-Match.  Texts and pictures are names, "" when     *)
(* blank; the checksum of a picture is the name it had when it was saved.  *)
(***************************************************************************)
EXTENDS Schedules

CONSTANTS
    BannerLimits,  \* bannerPartLimits
    Pictures,      \* the contents of a JPEG, PNG or WebP file
    Links,         \* absolute http and https URLs
    BannerBodies,  \* the bodies a banner may be sent with
    OldBanner,     \* banner 1, entered before pictures were uploaded
    MaxBanners     \* bound: banner ids

BannerIds == 1..MaxBanners
Fields == {"title", "action_link", "is_active"}

ASSUME BannersAssumption ==
    /\ MaxBanners \in Nat \ {0}
    /\ DOMAIN OldBanner = Fields /\ OldBanner.is_active \in BOOLEAN
    /\ "gone" \notin Links /\ OldBanner.action_link # "gone"

NoBanner == [f \in Fields |-> IF f = "is_active" THEN FALSE ELSE "gone"]
NoImage == [checksum |-> "", data |-> ""]

\* A banner's parts, the picture included.
WithImage(banner, image) ==
    [title |-> banner.title, action_link |-> banner.action_link,
     is_active |-> banner.is_active, image |-> image]

\* The dashboard loads the picture of any banner, a phone that of an active
\* one.
Clients == {"dashboard", "phone"}

VARIABLES
    banners,     \* by id
    images,      \* banner_images by banner
    lastBanner,  \* ids handed out
    lastSent,    \* history: what requests that committed last sent of each
    copies,      \* each client's cached picture of each banner
    wanted,      \* history: the data it was to see when it last asked
    listed       \* the banners with a picture that the phone has listed

shown == <<banners, images, lastBanner, lastSent>>
caches == <<copies, wanted, listed>>
allVars == <<vars, shown, caches>>

BannersTypeOK ==
    /\ DOMAIN banners = BannerIds /\ DOMAIN images = BannerIds
    /\ lastBanner \in BannerIds /\ listed \subseteq BannerIds

BannersInit ==
    /\ ScheduleInit
    /\ banners = [id \in BannerIds |-> IF id = 1 THEN OldBanner ELSE NoBanner]
    /\ images = [id \in BannerIds |-> NoImage]
    /\ lastBanner = 1
    /\ lastSent = [id \in BannerIds |->
         WithImage(IF id = 1 THEN OldBanner ELSE NoBanner, "")]
    /\ copies = [client \in Clients |-> [id \in BannerIds |-> NoImage]]
    /\ wanted = [client \in Clients |-> [id \in BannerIds |-> ""]]
    /\ listed = {}

-----------------------------------------------------------------------------

\* parseBannerParts; a blank link is none.
ParseBannerParts(parts) ==
    /\ PartValue(parts, "image", CHOOSE p \in Pictures : TRUE) \in Pictures
    /\ PartValue(parts, "action_link", "") \in Links \cup {""}
    /\ PartValue(parts, "is_active", "true") \in {"true", "false"}

ReadBannerForm(parts) ==
    ReadFormParts(parts, BannerLimits) /\ ParseBannerParts(parts)

\* What a banner becomes: only the parts that were sent are changed.
Apply(banner, parts) ==
    [title |-> PartValue(parts, "title", banner.title),
     action_link |-> PartValue(parts, "action_link", banner.action_link),
     is_active |-> IF Sent(parts, "is_active")
                   THEN PartValue(parts, "is_active", "") = "true"
                   ELSE banner.is_active]

\* What a new banner is without the parts that are not sent.
NewBanner == [title |-> "", action_link |-> "", is_active |-> TRUE]

Upload(kind, parts, id) ==
    [kind |-> kind, pc |-> "write", input |-> [parts |-> parts, id |-> id],
     work |-> [banner |-> NoBanner, image |-> NoImage]]

\* Those about to take an id.
Creating == {r \in Requests : req[r].kind = "create" /\ req[r].pc = "write"}

\* A new banner needs a picture.
BeginCreate(r) ==
    /\ Accepts(r, "create")
    /\ lastBanner + Cardinality(Creating) < MaxBanners
    /\ \E parts \in BannerBodies :
         IF ReadBannerForm(parts) /\ Sent(parts, "image")
         THEN Goes(r, Upload("create", parts, 0)) ELSE Done(r)
    /\ UNCHANGED <<workload, timetable, taught, events, shown, caches>>

\* A change needs at least one part.
BeginUpdate(r) ==
    /\ Accepts(r, "update")
    /\ \E parts \in BannerBodies, id \in BannerIds :
         IF ReadBannerForm(parts) /\ Known(parts, BannerLimits) # {}
         THEN Goes(r, Upload("update", parts, id)) ELSE Done(r)
    /\ UNCHANGED <<workload, timetable, taught, events, shown, caches>>

\* The INSERT takes an id that a rollback does not give back.
InsertBanner(r) ==
    /\ req[r].kind = "create" /\ req[r].pc = "write"
    /\ lastBanner' = lastBanner + 1
    /\ Goes(r, [req[r] EXCEPT
         !.pc = "image", !.input.id = lastBanner + 1,
         !.work.banner = Apply(NewBanner, req[r].input.parts)])
    /\ UNCHANGED <<workload, timetable, taught, counters, banners, images,
                   lastSent, caches>>

\* The row is read with a SELECT, changed, and written back.
MutRowFree(id) == TRUE

\* The row's lock is held from the UPDATE to the end of the transaction.
RowFree(id) ==
    \A r \in Requests : req[r].kind = "update" /\ req[r].input.id = id =>
        req[r].pc \in {"idle", "write"}

UpdateBanner(r) ==
    LET id == req[r].input.id
    IN  /\ req[r].kind = "update" /\ req[r].pc = "write"
        /\ RowFree(id)
        /\ IF banners[id] = NoBanner THEN Done(r)
           ELSE Goes(r, [req[r] EXCEPT
                  !.pc = "image",
                  !.work.banner = Apply(banners[id], req[r].input.parts)])
        /\ UNCHANGED <<workload, timetable, taught, counters, shown, caches>>

\* ON CONFLICT DO UPDATE forgets the checksum.
MutSaved(old, picture) ==
    [checksum |-> IF old = NoImage THEN picture ELSE old.checksum,
     data |-> picture]

Saved(old, picture) == [checksum |-> picture, data |-> picture]

\* saveBannerImage, for a request that sent a picture.
SaveBannerImage(r) ==
    LET rec == req[r]
        old == images[rec.input.id]
    IN  /\ rec.kind \in {"create", "update"} /\ rec.pc = "image"
        /\ Goes(r, [rec EXCEPT
             !.pc = "commit",
             !.work.image = IF Sent(rec.input.parts, "image")
                            THEN Saved(old, PartValue(rec.input.parts,
                                                      "image", ""))
                            ELSE old])
        /\ UNCHANGED <<workload, timetable, taught, counters, shown, caches>>

CommitBanner(r) ==
    LET rec == req[r]
        id == rec.input.id
        parts == rec.input.parts
    IN  /\ rec.kind \in {"create", "update"} /\ rec.pc = "commit"
        /\ banners' = [banners EXCEPT ![id] = rec.work.banner]
        /\ images' = [images EXCEPT ![id] = rec.work.image]
        /\ lastSent' = [lastSent EXCEPT ![id] =
             WithImage(Apply(IF rec.kind = "create" THEN NewBanner
                             ELSE lastSent[id], parts),
                       PartValue(parts, "image", lastSent[id].image))]
        /\ Done(r)
        /\ UNCHANGED <<workload, timetable, taught, counters, lastBanner,
                       caches>>

\* The DELETE waits for an UPDATE's lock, and takes the picture with it.
DeleteBanner(r, id) ==
    /\ Accepts(r, "delete") /\ RowFree(id)
    /\ banners' = [banners EXCEPT ![id] = NoBanner]
    /\ images' = [images EXCEPT ![id] = NoImage]
    /\ UNCHANGED <<workload, timetable, taught, req, events, lastBanner,
                   lastSent, caches>>

-----------------------------------------------------------------------------
(* What clients see                                                        *)

\* GetActiveBannersHandler
ListBanners ==
    /\ "update" \in workload
    /\ listed' = {id \in BannerIds :
                    banners[id].is_active /\ images[id] # NoImage}
    /\ UNCHANGED <<vars, shown, copies, wanted>>

\* The rows of serveBannerImage's statement.
Served(client, id) ==
    /\ images[id] # NoImage
    /\ client = "phone" => banners[id].is_active

\* One statement compares the checksum and reads the data: 304, 200 or 404.
\* A client sends the one ETag it holds.
LoadPicture(client, id) ==
    /\ "update" \in workload
    /\ client = "phone" => id \in listed
    /\ LET copy == copies[client][id]
           hit == copy # NoImage /\ copy.checksum = images[id].checksum
       IN  copies' = [copies EXCEPT ![client][id] =
             IF ~Served(client, id) THEN NoImage
             ELSE IF hit THEN copy ELSE images[id]]
    /\ wanted' = [wanted EXCEPT ![client][id] =
         IF client = "dashboard" \/ banners[id].is_active
         THEN images[id].data ELSE ""]
    /\ UNCHANGED <<vars, shown, listed>>

BannerStep(r) ==
    \/ BeginCreate(r) \/ BeginUpdate(r) \/ InsertBanner(r) \/ UpdateBanner(r)
    \/ SaveBannerImage(r) \/ CommitBanner(r)
    \/ \E id \in BannerIds : DeleteBanner(r, id)

BannersNext ==
    \/ \E r \in Requests : BannerStep(r)
    \/ ListBanners
    \/ \E client \in Clients, id \in BannerIds : LoadPicture(client, id)
    \/ ScheduleNext /\ UNCHANGED <<shown, caches>>

BannersSpec == BannersInit /\ [][BannersNext]_allVars

-----------------------------------------------------------------------------

\* A banner shows of each of its parts, the picture included, what the last
\* committed request that sent the part said: two admins who edit different
\* parts at once both keep their change, and one who edits what another
\* deletes leaves nothing behind.
BannerPartsKept ==
    \A id \in BannerIds :
        IF banners[id] = NoBanner THEN images[id] = NoImage
        ELSE /\ \A f \in Fields : banners[id][f] = lastSent[id][f]
             /\ images[id].data = lastSent[id].image

\* Whoever asks for a picture has the current one afterwards, and a phone
\* only while the banner is active: an unchanged checksum never stands for a
\* picture that was replaced since.
AskedIsCurrent ==
    \A client \in Clients, id \in BannerIds :
        copies[client][id].data = wanted[client][id]
=============================================================================
