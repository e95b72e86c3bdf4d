------------------------------ MODULE Decoding ------------------------------
(***************************************************************************)
(* What a source object holds (crates/core/src/codec.rs): compressed frames *)
(* and archives are unpacked, one in another, into documents with a path    *)
(* each; the same is done again when documents are asked for by their path. *)
(*                                                                         *)
(* A body is a text [kind, id, size, grows], a compressed frame [kind,      *)
(* size, cut, hinted, inner] or an archive [kind, size, members], a member  *)
(* is [raw, clean, hint, how, body]: its name as it stands, the parts of    *)
(* its path (none when the path is unsafe), whether the name tells a codec, *)
(* and whether it is a file, something else, or locked.                     *)
(***************************************************************************)
EXTENDS Naturals, Integers, Sequences, SequencesExt, FiniteSets

CONSTANTS
    SourceBodies,   \* bodies of source objects
    MaxDepth, MaxMembers, MaxExpanded   \* DecodeLimits

VARIABLES
    object,         \* the object
    unpacked,       \* what decode_source made of it
    asked,          \* paths that were asked for
    served          \* [doc, at]: what decode_requested gave, and for which request

decodeVars == <<object, unpacked, asked, served>>

ASSUME DecodeAssumption == {MaxDepth, MaxMembers, MaxExpanded} \subseteq Nat \ {0}

NoSource == [kind |-> "none"]
\* DecodeState, and the documents the sink was given.
Start0 == [docs |-> <<>>, members |-> 0, expanded |-> 0, used |-> {}, error |-> FALSE]
Refused(st) == [st EXCEPT !.error = TRUE]
Remaining(st) == MaxExpanded - st.expanded

\* detect_codec_for_key: some codecs are known by the name only.
IsRaw(body, hint) == body.kind = "text" \/ (body.kind = "frame" /\ body.hinted /\ ~hint)

\* A frame that is not recognised is a text like any other.
AsText(body) == IF body.kind = "text" THEN body ELSE [kind |-> "text", id |-> <<"packed", body.inner>>, size |-> body.size, grows |-> 0]

\* emit: a byte-order mark makes it UTF-8, which may be longer.
Emit(st, path, body) ==
    LET size == body.size + body.grows
    IN  IF st.expanded + size > MaxExpanded THEN Refused(st)
        ELSE [st EXCEPT !.docs = Append(@, [path |-> path, id |-> body.id, size |-> size]),
                        !.expanded = @ + size]

\* join_member_path.
Join(parent, child) == IF parent = <<>> THEN child ELSE parent \o <<"!">> \o child

Suffix == <<"#2", "#3", "#4", "#5", "#6">>
\* Mutant of Unique: a number is put behind a path that was used, and that is all.
UniqueOnce(used, path) == IF path \in used THEN path \o <<Suffix[1]>> ELSE path

\* unique_path: the first number that is free.
Unique(used, path) ==
    IF path \notin used THEN path
    ELSE path \o <<Suffix[CHOOSE n \in DOMAIN Suffix :
                     /\ path \o <<Suffix[n]>> \notin used
                     /\ \A k \in 1..(n - 1) : path \o <<Suffix[k]>> \in used]>>

\* Mutant of Listed: names may repeat.
ListedAnyway(archive) == TRUE

\* first_duplicate_zip_member_name: the zip reader would show the last one only.
Listed(archive) ==
    archive.kind = "zip" =>
        /\ Len(archive.members) <= MaxMembers
        /\ \A i, j \in DOMAIN archive.members : archive.members[i].raw = archive.members[j].raw => i = j

\* The members the archive's reader goes through: a zip has one for each name.
Entries(archive) ==
    LET ms == archive.members
        last == {i \in DOMAIN ms : \A j \in (i + 1)..Len(ms) : ms[j].raw # ms[i].raw}
    IN  IF archive.kind = "zip" THEN SelectSeq([i \in DOMAIN ms |-> [m |-> ms[i], shown |-> i \in last]], LAMBDA e : e.shown)
        ELSE [i \in DOMAIN ms |-> [m |-> ms[i], shown |-> TRUE]]

\* read_salvaging, read_strict: the body of a frame; what came before garbage is
\* kept unless nothing did or the codec is one of the strict ones.
Salvaged(frame) ==
    IF frame.cut = -1 THEN <<frame.inner>>
    ELSE IF frame.cut = 0 \/ frame.hinted THEN <<>>
    ELSE <<[kind |-> "text", id |-> <<"front", frame.inner>>, size |-> frame.cut, grows |-> 0]>>

\* Mutant of TooDeep: archives may lie in archives.
TooDeepNever(depth) == FALSE

TooDeep(depth) == depth > MaxDepth

\* read_bounded and DecodeWriter: no more is unpacked than may still be emitted.
Fits(st, body) == body.size <= Remaining(st)

\* count_member.
Counted(st) == [st EXCEPT !.members = @ + 1, !.error = @ \/ st.members + 1 > MaxMembers]

\* A member of an archive that is no error: not locked and, when it is a file, with
\* a safe path and a body within the limit.
Opens(st, m) ==
    /\ m.how # "locked"
    /\ m.how = "file" => m.clean # <<>> /\ Fits(st, m.body)

\* decode_output and decode_frame, and for each member of an archive decode_zip and
\* decode_tar.
RECURSIVE Decode(_, _, _, _, _)
Decode(st, body, path, depth, hint) ==
    LET Member(acc, m) ==
            LET full == Unique(acc.used, Join(path, m.clean))
                counted == Counted(acc)
            IN  IF acc.error \/ counted.error THEN counted
                ELSE IF ~Opens(counted, m) THEN Refused(counted)
                ELSE IF m.how = "other" THEN counted
                ELSE Decode([counted EXCEPT !.used = @ \cup {full}], m.body, full, depth + 1, m.hint)
        inner == Salvaged(body)
        entries == Entries(body)
    IN  IF st.error THEN st
        ELSE IF IsRaw(body, hint) THEN Emit(st, path, AsText(body))
        ELSE IF TooDeep(depth) THEN Refused(st)
        ELSE IF body.kind = "frame"
             THEN IF inner = <<>> \/ ~Fits(st, inner[1]) THEN Refused(st)
                  ELSE Decode(st, inner[1], path, depth + 1, FALSE)
        ELSE IF ~Listed(body) THEN Refused(st)
        ELSE FoldLeft(LAMBDA acc, e : Member(acc, e.m), st, entries)

DecodeSource(body) == Decode(Start0, body, <<>>, 1, TRUE)

-----------------------------------------------------------------------------
DecodeInit == object = NoSource /\ unpacked = Start0 /\ asked = <<>> /\ served = {}

\* decode_source_body, when the object is indexed.
IndexSource ==
    /\ object = NoSource
    /\ \E body \in SourceBodies : object' = body /\ unpacked' = DecodeSource(body)
    /\ UNCHANGED <<asked, served>>

\* Mutant of Selected: the path is looked for in the document's path.
SelectedPrefix(requests, path) == {i \in DOMAIN requests : IsPrefix(requests[i], path)}

Selected(requests, path) == {i \in DOMAIN requests : requests[i] = path}

\* decode_requested_body: every document that was asked for is handed over, to each
\* request for it.
DecodeRequested(requests) ==
    /\ object # NoSource /\ asked = <<>> /\ ~unpacked.error
    /\ asked' = requests
    /\ LET docs == DecodeSource(object).docs
       IN  served' = UNION {{[doc |-> docs[d].id, at |-> i] : i \in Selected(requests, docs[d].path)} : d \in DOMAIN docs}
    /\ UNCHANGED <<object, unpacked>>

DecodeNext ==
    \/ IndexSource
    \/ \E i, j \in DOMAIN unpacked.docs : DecodeRequested(<<unpacked.docs[i].path, unpacked.docs[j].path>>)

-----------------------------------------------------------------------------
\* The texts of a body, in the order a reader of the format meets them; a source is
\* decoded as a whole or refused.
RECURSIVE TextsOf(_, _)
TextsOf(body, hint) ==
    IF IsRaw(body, hint) THEN <<AsText(body).id>>
    ELSE IF body.kind = "frame"
         THEN IF body.cut = -1 THEN TextsOf(body.inner, FALSE)
              ELSE IF body.cut > 0 /\ ~body.hinted THEN <<<<"front", body.inner>>>> ELSE <<>>
    ELSE FlattenSeq([i \in DOMAIN body.members |->
            IF body.members[i].how = "file" THEN TextsOf(body.members[i].body, body.members[i].hint) ELSE <<>>])

RECURSIVE DepthOf(_, _)
DepthOf(body, hint) ==
    IF IsRaw(body, hint) THEN 0
    ELSE IF body.kind = "frame" THEN 1 + IF body.cut = -1 THEN DepthOf(body.inner, FALSE) ELSE 0
    ELSE LET deep == {DepthOf(m.body, m.hint) : m \in {m \in ToSet(body.members) : m.how = "file"}}
         IN  1 + Max(deep \cup {0})

\* No text of a source is lost, doubled or out of order: what is not decoded whole is
\* an error, and duplicate names, truncated frames and nesting are no exception.
NothingLost ==
    object # NoSource /\ ~unpacked.error =>
        [i \in DOMAIN unpacked.docs |-> unpacked.docs[i].id] = TextsOf(object, TRUE)

\* Documents of one source never share a path, whatever the members are called.
PathsDistinct == \A i, j \in DOMAIN unpacked.docs : unpacked.docs[i].path = unpacked.docs[j].path => i = j

\* A source that decodes kept within the limits on bytes, members and nesting.
WithinLimits ==
    object # NoSource =>
        /\ FoldLeft(LAMBDA sum, d : sum + d.size, 0, unpacked.docs) <= MaxExpanded
        /\ ~unpacked.error => unpacked.members <= MaxMembers /\ DepthOf(object, TRUE) <= MaxDepth

\* Asked for again, each request gets the text that was indexed under its path, and
\* only that.
RequestsServed ==
    \A i \in DOMAIN asked :
        {s.doc : s \in {s \in served : s.at = i}}
            = {d.id : d \in {d \in ToSet(unpacked.docs) : d.path = asked[i]}}

\* A source is decoded whole and within its limits or refused, and its documents can
\* be told apart and fetched again.
DecodingSound == NothingLost /\ PathsDistinct /\ WithinLimits /\ RequestsServed
=============================================================================
