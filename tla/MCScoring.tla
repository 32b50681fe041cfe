------------------------------ MODULE MCScoring ------------------------------
(***************************************************************************)
(* Small instance of Scoring: texts around the caps, two safe and two      *)
(* unsafe labels, eight kinds of picture, videos of up to twelve pictures, *)
(* images with the answers of three cloud scans.                           *)
(***************************************************************************)
EXTENDS Scoring

MCText(toxicity, sexual, selfHarm, markers) ==
    [matches |-> [c \in ModerationCategory |->
                    CASE c = "toxicity" -> toxicity
                      [] c = "sexual_content" -> sexual
                      [] c = "self_harm" -> selfHarm
                      [] OTHER -> Unmatched],
     markers |-> markers]

\* In lower case, or shouted.
MCTexts ==
    {MCText(t, x, h, {"lower"} \cup m) : t \in {0, 62}, x \in {0, 64}, h \in {0, 90},
                          m \in {{}, {"game"}, {"help me", "http"}}}
    \cup {MCText(t, 0, 0, {"upper", "long"} \cup m) : t \in {0, 62}, m \in {{}, {"scam"}}}

MCModels ==
    {NoLabels} \cup {HeuristicAnswer(insulted, FALSE, FALSE) : insulted \in BOOLEAN}
    \cup {ModelAnswer(toxic, 1, obscene) : toxic \in {1, 81, 82}, obscene \in {1, 60}}

MCLabels ==
    [road |-> {}, people |-> {}, nudity |-> {"sexual_content"},
     weapons |-> {"violence", "illegal_activity"}]

Similar(ranked, similarities) ==
    [i \in DOMAIN ranked |-> [label |-> ranked[i], similarity |-> similarities[i]]]

\* Nothing; likely weapons; less likely ones, on a road that is likelier still;
\* something that may be nudity; a mall and an alley where an unsafe label is
\* as likely as a safe one once they are rounded; noise that resembles nothing.
MCPictures ==
    [calm  |-> Similar(<<"road", "people", "nudity", "weapons">>, <<222, 200, 30, -50>>),
     armed |-> Similar(<<"weapons", "people", "road", "nudity">>, <<331, 200, 100, 40>>),
     road  |-> Similar(<<"road", "weapons", "people", "nudity">>, <<378, 342, 210, 20>>),
     naked |-> Similar(<<"nudity", "people", "weapons", "road">>, <<312, 262, 90, 80>>),
     mall  |-> Similar(<<"people", "nudity", "road", "weapons">>, <<251, 246, 100, 60>>),
     alley |-> Similar(<<"weapons", "road", "people", "nudity">>, <<250, 250, 40, 30>>),
     noise |-> Similar(<<"road", "nudity", "people", "weapons">>, <<-12, -236, -250, -300>>)]

Kinds == DOMAIN MCPictures \cup {Unreadable}

\* Kinds of picture whose labels compete with each other's.
Closest == {"armed", "road", "naked", "mall", "alley"}

\* Every picture twice, so that each is sampled; then one scene of any length.
Doubled(pictures) == [i \in 1..(2 * Len(pictures)) |-> pictures[RoundedUp(i, 2)]]

MCVideos ==
    [counted : BOOLEAN,
     pictures : {Doubled(p) : p \in [1..1 -> Kinds] \cup [1..2 -> Kinds] \cup [1..3 -> Closest]}]
    \cup {[counted |-> c, pictures |-> [i \in 1..12 |-> IF i \in a..b THEN "armed" ELSE "calm"]] :
             c \in BOOLEAN, a, b \in 1..12}
    \cup {[counted |-> FALSE, pictures |-> <<>>]}

Video(texts, objects, video) ==
    [kind |-> "video", texts |-> texts, objects |-> objects, seams |-> Silence,
     counted |-> video.counted, pictures |-> video.pictures]

Image(caption, ocr, objects, seams, cloud, picture) ==
    [kind |-> "image", caption |-> caption, ocr |-> ocr, objects |-> objects, seams |-> seams,
     cloud |-> cloud, counted |-> TRUE, pictures |-> <<picture>>]

Named(name, groups, markers) ==
    [name |-> name, groups |-> groups, text |-> MCText(0, 0, 0, markers)]

\* What the caller names, and what the cloud does: the rifle is one object.
MCObjects ==
    {{}, {Named("tree", {}, {"lower"})}, {Named("video game", {}, {"lower", "game"})},
     {Named("rifle", {"weapon"}, {"upper"})}}
MCLabelled == {Named("rifle", {"weapon"}, {"lower"}), Named("screenshot", {}, {"lower"})}

\* A cloud scan that is switched off, not asked or failed at any of its calls.
NotAsked == [labels |-> {}, ocr |-> Silence, search |-> NotSearched]

MCClouds ==
    {NotAsked,
     [labels |-> MCLabelled, ocr |-> MCText(0, 64, 0, {"lower", "underage"}),
      search |-> NotSearched],
     [labels |-> {}, ocr |-> Silence, search |-> [sexual |-> "LIKELY", violence |-> "POSSIBLE"]]}

\* Texts that flag nothing, ask for review or block, in small letters and capitals.
MCCaptions ==
    {Silence, MCText(62, 0, 0, {"lower"}), MCText(0, 0, 90, {"lower", "help me"}),
     MCText(0, 0, 0, {"upper", "long", "scam", "you"})}

\* A caption is not stripped: one of blanks keeps the cloud's out.
Blank == MCText(0, 0, 0, {"other"})

\* "you" at the end of a caption, before a text that says what happens to it.
MCSeams(caption) ==
    {Silence} \cup IF "you" \in caption.markers THEN {MCText(0, 0, 0, {"die"})} ELSE {}

\* Every video by itself; every image with and without words; words of both,
\* with all that may stand beside them, for one picture.
MCUploads ==
    {Video({}, {}, v) : v \in MCVideos}
    \cup {Video({caption, ocr}, objects, [counted |-> TRUE, pictures |-> <<"armed">>]) :
             caption, ocr \in MCCaptions, objects \in MCObjects}
    \cup {Image(c, Silence, {}, Silence, cloud, p) :
             c \in {Silence, Blank, MCText(62, 0, 0, {"lower"})}, cloud \in MCClouds, p \in Kinds}
    \cup UNION {{Image(c, ocr, objects, seams, cloud, "calm") : seams \in MCSeams(c)} :
             c, ocr \in MCCaptions, objects \in MCObjects, cloud \in MCClouds}
=============================================================================
