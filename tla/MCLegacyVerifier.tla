-------------------------- MODULE MCLegacyVerifier --------------------------
(***************************************************************************)
(* An instance of LegacyVerifier: one HTML document and site.json, with    *)
(* one JPEG and one third-party mark.  Names: 0 is the manifest, 1 a.html, *)
(* 2 b.HTML, 3 site.json.  Directories and manifests with one thing wrong  *)
(* are left alone; the intact one, and one with a FIFO, are disturbed.     *)
(***************************************************************************)
EXTENDS LegacyVerifier

OneJpeg == <<1, 1>>

OneMark == <<1, 1>>

Text == [mime |-> "", payload |-> [digest |-> 0, bytes |-> 0], flaw |-> "", field |-> "",
         contact |-> "", readable |-> TRUE]

Media(mime, digest) == [Text EXCEPT !.mime = mime, !.payload = [digest |-> digest, bytes |-> 10]]

Mark == [Media("image/svg+xml", 7) EXCEPT !.contact = "email"]

Jpeg == [Media("image/jpeg", 8) EXCEPT !.field = "settings"]

Generator == [Text EXCEPT !.field = "generator"]

GoodDocument == <<Mark>>

GoodSite == <<Generator, Jpeg>>

Listed(path, data) == [path |-> path, bytes |-> Len(data), sha256 |-> data]

Listing(files) == [count |-> Len(files), total |-> DeclaredBytes(files), inventory |-> files]

Jpegs(digest, bytes, occurrences) ==
    [total |-> occurrences,
     payloads |-> <<[sha256 |-> digest, bytes |-> bytes,
                     locations |-> <<[path |-> 3, occurrences |-> occurrences]>>]>>]

GoodRisk == [prose |-> 1, surfaces |-> 1, emails |-> 1, phones |-> 0,
             jpegs |-> <<1, 1>>, marks |-> <<1, 1>>]

ManifestOf(document, site) ==
    [schema_version |-> 1, snapshot |-> Listing(<<Listed(1, document), Listed(3, site)>>),
     generator |-> "4.14.1", jpegs |-> Jpegs(8, 10, 1), risk |-> GoodRisk]

Good == ManifestOf(GoodDocument, GoodSite)

(* Contents whose digests the manifest was deliberately changed to.        *)
RebasedSites ==
    {<<Generator, x>> : x \in {Text, [Jpeg EXCEPT !.field = ""], [Jpeg EXCEPT !.field = "escaped"],
                               [Jpeg EXCEPT !.flaw = "embedded_media_invalid"],
                               [Jpeg EXCEPT !.flaw = "resource_limit_exceeded"],
                               [Jpeg EXCEPT !.payload.digest = 9], [Jpeg EXCEPT !.payload.bytes = 9],
                               [Jpeg EXCEPT !.readable = FALSE], Mark}}
    \cup {<< >>, <<Jpeg>>, <<Jpeg, Jpeg>>,
          <<Generator, [Jpeg EXCEPT !.field = ""], [Jpeg EXCEPT !.field = "escaped"]>>}

RebasedDocuments ==
    {<< >>, <<Text>>, <<Mark, Mark>>, <<Mark, Jpeg>>, <<Mark, [Text EXCEPT !.contact = "phone"]>>}
    \cup {<<[Mark EXCEPT !.flaw = "embedded_media_invalid"]>>,
          <<[Mark EXCEPT !.readable = FALSE]>>, <<[Mark EXCEPT !.contact = ""]>>,
          <<[Mark EXCEPT !.payload.digest = 9]>>}

Snapshots ==
    LET fields == Good.snapshot
        odd(e) == {WrongType, [e EXCEPT !.path = WrongType], [e EXCEPT !.bytes = WrongType],
                   [e EXCEPT !.bytes = -1], [e EXCEPT !.bytes = 2], [e EXCEPT !.bytes = MaxFile + 1],
                   [e EXCEPT !.sha256 = WrongType]}
    IN  {WrongType}
        \cup {[fields EXCEPT !.count = n] : n \in {WrongType, -1, 1, 3}}
        \cup {[fields EXCEPT !.total = n] : n \in {WrongType, -1, 2, MaxTotal + 1}}
        \cup {[fields EXCEPT !.inventory = x] : x \in {WrongType, << >>}}
        \cup {[fields EXCEPT !.inventory[1] = e] : e \in odd(Listed(1, GoodDocument))}
        \cup {Listing(files) : files \in {<<Listed(1, GoodDocument)>>,
                  <<Listed(3, GoodSite), Listed(1, GoodDocument)>>,
                  <<Listed(1, GoodDocument), Listed(1, GoodDocument)>>,
                  <<Listed(2, GoodDocument), Listed(3, GoodSite)>>,
                  <<Listed(1, GoodDocument), Listed(2, GoodSite)>>,
                  <<Listed(1, GoodSite), Listed(3, GoodSite)>>,
                  <<Listed(1, GoodDocument), Listed(2, << >>), Listed(3, GoodSite)>>}}

JpegContracts ==
    LET j == Good.jpegs IN
    {WrongType, Jpegs(8, 10, 2), Jpegs(9, 10, 1), Jpegs(8, 9, 1)}
    \cup {[j EXCEPT !.total = x] : x \in {WrongType, -1, 2}}
    \cup {[j EXCEPT !.payloads = x] : x \in {WrongType, << >>, j.payloads \o j.payloads}}
    \cup {[j EXCEPT !.payloads[1] = x] :
             x \in {WrongType, [j.payloads[1] EXCEPT !.sha256 = WrongType],
                    [j.payloads[1] EXCEPT !.bytes = WrongType],
                    [j.payloads[1] EXCEPT !.locations = WrongType],
                    [j.payloads[1] EXCEPT !.locations = << >>]}}
    \cup {[j EXCEPT !.payloads[1].locations = x] :
             x \in {<<WrongType>>, <<[path |-> 1, occurrences |-> 1]>>,
                    <<[path |-> 3, occurrences |-> 0]>>, <<[path |-> 3, occurrences |-> WrongType]>>,
                    j.payloads[1].locations \o j.payloads[1].locations}}

OddManifests ==
    {WrongType}
    \cup {[Good EXCEPT !.schema_version = x] : x \in {2, WrongType}}
    \cup {[Good EXCEPT !.snapshot = x] : x \in Snapshots}
    \cup {[Good EXCEPT !.generator = WrongType]}
    \cup {[Good EXCEPT !.jpegs = x] : x \in JpegContracts}
    \cup {[Good EXCEPT !.risk = x] : x \in {WrongType, [GoodRisk EXCEPT !.emails = 2]}}

LegacyManifests ==
    {Good} \cup OddManifests
    \cup {ManifestOf(d, GoodSite) : d \in RebasedDocuments}
    \cup {ManifestOf(GoodDocument, x) : x \in RebasedSites}

-----------------------------------------------------------------------------
Regular(data) == [kind |-> "regular", data |-> data]

Directory(m, document, other, site) ==
    [name \in Names |-> CASE name = 0 -> m [] name = 1 -> document [] name = 2 -> other
                          [] name = 3 -> site]

GoodRoot == Directory(Regular(<<Good>>), Regular(GoodDocument), Absent, Regular(GoodSite))

OddFiles == {Absent} \cup {[kind |-> kind, data |-> data] :
                kind \in {"regular", "symlink", "directory", "fifo"},
                data \in {<< >>, GoodDocument, <<Text>>, <<Mark, Text>>, GoodSite, <<Text, Jpeg>>,
                          <<Text, Text, Text>>}}

OddRoots ==
    {[GoodRoot EXCEPT ![name] = file] : name \in 1..3, file \in OddFiles}
    \cup {[GoodRoot EXCEPT ![0] = file] : file \in {Absent, Regular(<< >>), Regular(<<Good, Good>>),
                                                    Regular(<<Good, Good, Good>>),
                                                    [kind |-> "symlink", data |-> <<Good>>],
                                                    [kind |-> "fifo", data |-> << >>]}}
    \cup {[GoodRoot EXCEPT ![0] = Regular(<<m>>)] : m \in LegacyManifests}
    \cup {[GoodRoot EXCEPT ![0] = Regular(<<ManifestOf(d, GoodSite)>>), ![1] = Regular(d)] :
             d \in RebasedDocuments}
    \cup {[GoodRoot EXCEPT ![0] = Regular(<<ManifestOf(GoodDocument, x)>>), ![3] = Regular(x)] :
             x \in RebasedSites}

LegacyStarts ==
    {[root |-> files, changes |-> 0] : files \in OddRoots}
    \cup {[root |-> GoodRoot, changes |-> MaxChanges]}

LegacyCells == {Text}

LegacyDrafts == {Good, [Good EXCEPT !.snapshot.inventory[1].sha256 = <<Text>>]}
=============================================================================
