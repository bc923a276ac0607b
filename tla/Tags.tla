-------------------------------- MODULE Tags --------------------------------
(* What Music Tagger and Remove Tags do inside a file (meta/write.rs,          *)
(* meta/lyrics3.rs), and what the <Artist> family then reads (meta/audio.rs).  *)
(* A song is its format, its tag blocks and, in an MP3, the bytes in front of  *)
(* the ID3v1 trailer as tokens.  The copy the change is made in and the swap   *)
(* are in Volume; here a change is one step, and a failed one changes nothing. *)
EXTENDS Integers, Sequences, FiniteSets, TLC

CONSTANTS Silent,        \* no value, no answer
          Songs,         \* the files there may be
          Boxes,         \* the boxes of Music Tagger as they render for the file: field -> value
          Strips,        \* the sets of kinds Remove Tags may be asked for
          V1_BLOCK_MAX,  \* tokens: how far back a Lyrics3 v1 block is looked for
          V2_BLOCK_MAX,  \* tokens: the longest Lyrics3 v2 block
          TAIL,          \* tokens: how much of the end of the file is read at first
          MaxEdits       \* bound

VARIABLES song,   \* [format, audio, blocks, bytes, claims]: audio is what its extension says,
                  \* claims how many of the bytes in front are its ID3v2's
          told,   \* what the last change reported done: a set, or why it was refused
          was, wrote, stripped,  \* ghosts: the song before the last change, and what was asked
          edits

tagsVars == <<song, told, was, wrote, stripped, edits>>

Mark(k) == [k |-> k, size |-> 0]
LyricsBegin   == Mark("LYRICSBEGIN")
EndV1   == Mark("LYRICSEND")
Sound   == Mark("sound")
EndV2(n) == [k |-> "LYRICS200", size |-> n]

MusicFields == {"track", "title", "artist", "album", "year", "genre", "comment"}
TagKinds == {"id3v1", "id3v2", "lyrics"}
Unread == [text |-> "<Tag>", number |-> -2]  \* a box with a tag in it the file has no answer to

(* -- the formats: the primary tag, and what each can carry (lofty's tables) -- *)

Primary(format) ==
    CASE format = "mpeg" -> "id3v2" [] format \in {"flac", "ogg"} -> "vorbis" [] format = "wavpack" -> "ape"
      [] OTHER -> Silent
Carries(format) ==
    CASE format = "mpeg" -> {"id3v2", "id3v1"} [] format = "flac" -> {"vorbis", "id3v2"}
      [] format = "ogg" -> {"vorbis"} [] format = "wavpack" -> {"ape", "id3v1"} [] OTHER -> {}
\* The order lofty lists a file's tags in.
Rank(t) == CASE t = "id3v2" -> 1 [] t = "vorbis" -> 2 [] t = "ape" -> 3 [] OTHER -> 4
FirstTag(S) == CHOOSE t \in S : \A u \in S : Rank(t) <= Rank(u)

(* -- a value, and a block: [named: items, unnamed: what the generic view cannot name] -- *)

Item(key, desc, value) == [key |-> key, desc |-> desc, value |-> value]
EmptyBlock == [named |-> {}, unnamed |-> {}]

\* MusicField::normalise: the text trimmed; a track only as digits, leading zeros gone.
Normalised(field, v) ==
    IF v.text = "" THEN Silent
    ELSE IF field # "track" THEN v
    ELSE IF v.number < 0 THEN Silent ELSE [text |-> ToString(v.number), number |-> v.number]
Fits(field, v, type) == field = "track" /\ type = "id3v1" => v.number \in 1..255

KeyOf(field) == IF field = "year" THEN "recording date" ELSE field
YearAsElsewhere(field, type) == KeyOf(field)
KeyIn(field, type) == IF field = "year" /\ type = "id3v1" THEN "year" ELSE KeyOf(field)

\* `put`, for each field: what is under its key gives way, of the comments only the one
\* without a description.  No two fields have one key, so their order tells nothing apart.
InsertText(items, key) == {i \in items : i.key = key}
GivesWay(items, key) == {i \in items : i.key = key /\ (key = "comment" => i.desc = "")}
PutAll(items, fields, type) ==
    (items \ UNION {GivesWay(items, KeyIn(w.field, type)) : w \in fields})
    \cup {Item(KeyIn(w.field, type), "", w.value) : w \in fields}

Writable(w, type) ==
    LET v == Normalised(w.field, w.value) IN v # Silent /\ Fits(w.field, v, type)
Wanted(fields, type) ==
    {[field |-> w.field, value |-> Normalised(w.field, w.value)] : w \in {x \in fields : Writable(x, type)}}

(* -- write_into: the primary block, and the ID3v1 trailer where one is -- *)

\* Formats whose tag is split by hand, its unnamed half put back; the others' save keeps what
\* came with a block that was read, and not what came with a block of another kind.
Native(s) == s.format \in {"ogg", "wavpack"} \/ (s.format = "flac" /\ "vorbis" \in DOMAIN s.blocks)
Base(s, type) ==
    IF type \in DOMAIN s.blocks THEN s.blocks[type]
    ELSE IF DOMAIN s.blocks = {} \/ Native(s) THEN EmptyBlock
    ELSE [named |-> s.blocks[FirstTag(DOMAIN s.blocks)].named, unnamed |-> {}]

\* lofty writes the ID3v1 year from the "year" item where there is one, and one of each field.
AsTrailer(items) ==
    IF \E i \in items : i.key = "year" THEN {i \in items : i.key # "recording date"}
    ELSE {[i EXCEPT !.key = IF @ = "recording date" THEN "year" ELSE @] : i \in items}

Rewritten(s, fields) ==
    LET type    == Primary(s.format)
        base    == Base(s, type)
        primary == [base EXCEPT !.named = PutAll(@, Wanted(fields, type), type)]
        trailer == AsTrailer(PutAll(s.blocks["id3v1"].named, Wanted(fields, "id3v1"), "id3v1"))
    IN  [s EXCEPT !.blocks =
            [t \in DOMAIN @ \cup {type} |->
                IF t = type THEN primary
                ELSE IF t = "id3v1" /\ s.format = "mpeg" THEN [@[t] EXCEPT !.named = trailer]
                ELSE @[t]]]

Settled(s) ==
    /\ song' = s /\ was' = song /\ edits' = edits + 1

\* MusicTagger::effect: nothing for a file that is no music by its name, or where one box has
\* no answer; empty boxes and a track that is no number are passed over.
Effect(boxes) ==
    IF ~song.audio \/ \E f \in DOMAIN boxes : boxes[f] = Unread THEN {}
    ELSE {[field |-> f, value |-> boxes[f]] : f \in {g \in DOMAIN boxes : Normalised(g, boxes[g]) # Silent}}

WriteFields(boxes) ==
    /\ edits < MaxEdits /\ song.format # "link"
    /\ Effect(boxes) # {}
    /\ LET fields == Effect(boxes)
           type == Primary(song.format)
           wanted == IF type = Silent THEN {} ELSE Wanted(fields, type)
       IN  /\ told' = IF type = Silent THEN {"not audio"} ELSE {w.field : w \in wanted}
           /\ Settled(IF wanted = {} THEN song ELSE Rewritten(song, fields))
    /\ wrote' = Effect(boxes) /\ stripped' = {}

\* A link is refused before anything of it is opened.
RefuseLink ==
    /\ edits < MaxEdits /\ song.format = "link"
    /\ told' = {"link"} /\ Settled(song) /\ wrote' = {} /\ stripped' = {}

(* -- Lyrics3: a block between the sound and the trailer -- *)

Damaged == [from |-> 0]
LastBegin(s, low) ==
    LET ats == {i \in (low + 1)..Len(s.bytes) : s.bytes[i] = LyricsBegin}
    IN  IF ats = {} THEN Silent ELSE CHOOSE i \in ats : \A j \in ats : j <= i
AnyBegin(s, base) == LastBegin(s, IF base > s.claims THEN base ELSE s.claims)

\* find_in: `base` is how many tokens in front were not read, `claims` where the ID3v2 ends.
BySize(s, base, n) ==
    LET at == Len(s.bytes) - n
    IN  IF at > base /\ at > s.claims /\ at < Len(s.bytes) /\ s.bytes[at] = LyricsBegin THEN at ELSE Silent
FindIn(s, base) ==
    LET end  == Len(s.bytes)
        tail == s.bytes[end]
        from == IF tail.k = "LYRICS200" /\ BySize(s, base, tail.size) # Silent
                THEN BySize(s, base, tail.size)
                ELSE IF tail.k = "LYRICS200" THEN AnyBegin(s, base)
                ELSE AnyBegin(s, IF end - V1_BLOCK_MAX > base THEN end - V1_BLOCK_MAX ELSE base)
    IN  IF tail.k \notin {"LYRICS200", "LYRICSEND"} \/ end <= base THEN Silent
        ELSE IF from # Silent THEN [from |-> from]
        ELSE IF tail.k = "LYRICS200" THEN Damaged ELSE Silent

\* locate: a v2 footer that names more than was read has that much read, where it may be true.
Located(s) ==
    LET end   == Len(s.bytes)
        base  == IF end > TAIL THEN end - TAIL ELSE 0
        reach == s.bytes[end].size + 1
    IN  IF end = 0 THEN Silent
        ELSE IF s.bytes[end].k = "LYRICS200" /\ reach > end - base /\ reach <= V2_BLOCK_MAX
                /\ reach <= end - s.claims
        THEN FindIn(s, end - reach)
        ELSE FindIn(s, base)

(* -- remove_tags: what is present, in the card's order: lyrics last -- *)

Present(s, kind) ==
    IF kind = "lyrics" THEN s.format = "mpeg" /\ Located(s) # Silent
    ELSE kind \in Carries(s.format) \cap DOMAIN s.blocks

\* The bytes behind the ID3v2 tag.
Behind(s) == SubSeq(s.bytes, s.claims + 1, Len(s.bytes))
Unblocked(s, kinds) ==
    [s EXCEPT !.blocks = [t \in DOMAIN @ \ kinds |-> @[t]],
              !.bytes = IF "id3v2" \in kinds THEN Behind(s) ELSE @,
              !.claims = IF "id3v2" \in kinds THEN 0 ELSE @]
CutFrom(s, from) == [s EXCEPT !.bytes = SubSeq(@, 1, from - 1)]

\* strip: Lyrics3 is looked for again in what the other kinds left, and may be gone by then.
Strip(s, here) ==
    LET bare  == Unblocked(s, here \ {"lyrics"})
        block == Located(bare)
    IN  IF "lyrics" \notin here \/ block = Silent THEN [song |-> bare, done |-> here \ {"lyrics"}]
        ELSE IF block = Damaged THEN [song |-> s, done |-> {"damaged"}]
        ELSE [song |-> CutFrom(bare, block.from), done |-> here]

RemoveTags(kinds) ==
    /\ edits < MaxEdits /\ song.format # "link" /\ song.audio /\ kinds # {}
    /\ LET end == IF Primary(song.format) = Silent THEN [song |-> song, done |-> {"not audio"}]
                  ELSE IF "lyrics" \in kinds /\ song.format = "mpeg" /\ Located(song) = Damaged
                  THEN [song |-> song, done |-> {"damaged"}]
                  ELSE Strip(song, {k \in kinds : Present(song, k)})
       IN  told' = end.done /\ Settled(end.song)
    /\ wrote' = {} /\ stripped' = kinds

(* -- audio.rs: what the tags of a name read -- *)

\* first_of, for one key: the first tag that has it.
Bearing(s, key) == {t \in DOMAIN s.blocks : \E i \in s.blocks[t].named : i.key = key}
FirstOf(s, key) ==
    IF Bearing(s, key) = {} THEN Silent
    ELSE (CHOOSE i \in s.blocks[FirstTag(Bearing(s, key))].named : i.key = key).value

\* comment_of: one without a description, else any that is not iTunes' own.
Comments(s, t, plain) ==
    {i \in s.blocks[t].named : i.key = "comment" /\ IF plain THEN i.desc = "" ELSE i.desc # "iTunNORM"}
Commented(s, plain) == {t \in DOMAIN s.blocks : Comments(s, t, plain) # {}}
CommentOf(s) ==
    LET plain == Commented(s, TRUE) # {}
    IN  IF Commented(s, plain) = {} THEN Silent
        ELSE (CHOOSE i \in Comments(s, FirstTag(Commented(s, plain)), plain) : TRUE).value

Read(s, field) ==
    CASE field = "comment" -> CommentOf(s)
      [] field = "year" -> IF Bearing(s, "year") # {} THEN FirstOf(s, "year") ELSE FirstOf(s, "recording date")
      [] OTHER -> FirstOf(s, field)

\* The files there are: no block the format does not carry, no ID3v1 with a recording date, an
\* ID3v2 tag that ends in the file, and no footer that names more than its six digits can.
IsItem(i) == i = Item(i.key, i.desc, i.value)
IsBlock(b) == b = [named |-> b.named, unnamed |-> b.unnamed] /\ \A i \in b.named : IsItem(i)
IsSong(s) ==
    /\ s = [format |-> s.format, audio |-> s.audio, blocks |-> s.blocks, bytes |-> s.bytes, claims |-> s.claims]
    /\ s.blocks = [t \in DOMAIN s.blocks |-> s.blocks[t]] /\ DOMAIN s.blocks \subseteq Carries(s.format)
    /\ \A t \in DOMAIN s.blocks :
          IsBlock(s.blocks[t]) /\ (t = "id3v1" => \A i \in s.blocks[t].named : i.key # "recording date")
    /\ s.bytes \in Seq([k : STRING, size : Nat]) /\ s.claims \in 0..Len(s.bytes)
    /\ \A n \in DOMAIN s.bytes : s.bytes[n].size < V2_BLOCK_MAX
ASSUME TagsAssumption ==
    /\ V1_BLOCK_MAX \in Nat /\ V2_BLOCK_MAX \in Nat /\ TAIL \in Nat
    /\ Silent \notin Nat /\ Silent \notin [from : Nat]
    /\ \A s \in Songs : IsSong(s)
    /\ \A boxes \in Boxes : DOMAIN boxes \subseteq MusicFields
    /\ \A kinds \in Strips : kinds \subseteq TagKinds

TagsInit ==
    /\ song \in Songs /\ was = song /\ told = {} /\ wrote = {} /\ stripped = {} /\ edits = 0
TagsNext ==
    \/ \E boxes \in Boxes : WriteFields(boxes)
    \/ \E kinds \in Strips : RemoveTags(kinds)
    \/ RefuseLink
TagsSpec == TagsInit /\ [][TagsNext]_tagsVars

(* Music Tagger writes only what was asked for, and Remove Tags takes only what was asked for  *)
(* (write.rs:1-40, "whatever the file already carries is left intact"): every item under     *)
(* another key, every comment with a description, everything the generic view cannot name,   *)
(* every block of another kind and every byte in front of a Lyrics3 block are as they were,  *)
(* and a trailer's track is not written over by one that does not fit in it.                 *)
Untouched(t, b) ==
    {i \in b.named : \/ i.key \notin {KeyIn(w.field, t) : w \in Wanted(wrote, t)}
                     \/ i.key = "comment" /\ i.desc # ""}
Alike(t, a, b) ==
    /\ a.unnamed = b.unnamed
    /\ Untouched(t, a) = Untouched(t, b)
    /\ \A i \in a.named : \E j \in b.named : i.key = j.key
SoundIsKept ==
    LET before == Behind(was) IN
    \E n \in 0..Len(before) :
        /\ Behind(song) = SubSeq(before, 1, n)
        /\ n < Len(before) => "lyrics" \in told /\ before[n + 1] = LyricsBegin
                              /\ before[Len(before)].k \in {"LYRICSEND", "LYRICS200"}
        \* A footer whose size is right takes the whole block, whatever its text holds.
        /\ "lyrics" \in told /\ before[Len(before)].k = "LYRICS200" =>
            LET at == Len(before) - before[Len(before)].size
            IN  at \in 1..(Len(before) - 1) /\ before[at] = LyricsBegin => n = at - 1
TheRestStays ==
    /\ \A t \in DOMAIN was.blocks \ stripped :
          t \in DOMAIN song.blocks /\ Alike(t, was.blocks[t], song.blocks[t])
    /\ stripped # {} => DOMAIN song.blocks \subseteq DOMAIN was.blocks
    /\ SoundIsKept

\* A block that is read before the one written says something of the field, or of the year
\* under the key a trailer has for it.
Shadowed(s, field) ==
    \E t \in DOMAIN s.blocks : \E i \in s.blocks[t].named :
        \/ Rank(t) < Rank(Primary(s.format)) /\ i.key = KeyOf(field) /\ (field = "comment" => i.desc = "")
        \/ field = "year" /\ i.key = "year" /\ ~(t = "id3v1" /\ s.format = "mpeg")

(* What Music Tagger reports written is what the tags of a name then read (write.rs:336-342): *)
(* a trailer that is read first is written as well, and under the key it is read by.  Not     *)
(* where a block that is left alone is read before the one written: the ID3v2 tag of a FLAC,  *)
(* and a Year beside the recording date.                                                      *)
WrittenIsRead ==
    Primary(song.format) # Silent =>
        \A w \in wrote : w.field \in told /\ ~Shadowed(song, w.field) =>
            Read(song, w.field) = Normalised(w.field, w.value)

(* Both: what the Music operations write is there, and nothing else is disturbed. *)
TagsAreKept == TheRestStays /\ WrittenIsRead
=============================================================================
