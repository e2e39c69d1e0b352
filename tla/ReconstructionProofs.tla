------------------------ MODULE ReconstructionProofs ------------------------
(***************************************************************************)
(* The fingerprint a stored date is bound to determines that date, for     *)
(* every session, evidence and camera; hence a row that passes for fresh   *)
(* and was computed from one state of the evidence is what today's         *)
(* evidence gives, and decisions survive every recomputation.              *)
(***************************************************************************)
EXTENDS Reconstruction, TLAPS, FiniteSetTheorems

-----------------------------------------------------------------------------
(* A fingerprint determines the date.                                      *)

\* The members of a reset run have that run in common.
LEMMA RunShared ==
    ASSUME NEW ev, NEW f, NEW g \in Run(ev, f)
    PROVE  Run(ev, g) = Run(ev, f)
  <1>1. ASSUME NEW a, NEW b, NEW c, NEW links,
               Joined(ev, links, a, b), Joined(ev, links, b, c)
        PROVE  Joined(ev, links, a, c)
    BY <1>1 DEF Joined
  <1>2. /\ g \in ev.present /\ OnReset(ev, f) /\ OnReset(ev, g)
        /\ Joined(ev, Ticking(ev), f, g) /\ Joined(ev, Ticking(ev), g, f)
    BY DEF Run
  <1>3. ASSUME NEW h \in Run(ev, f) PROVE h \in Run(ev, g)
    <2>1. /\ h \in ev.present /\ OnReset(ev, h)
          /\ Joined(ev, Ticking(ev), f, h) /\ Joined(ev, Ticking(ev), h, f)
      BY <1>3 DEF Run
    <2>2. Joined(ev, Ticking(ev), g, h) /\ Joined(ev, Ticking(ev), h, g)
      BY <1>1, <1>2, <2>1
    <2> QED BY <1>2, <2>1, <2>2 DEF Run
  <1>4. ASSUME NEW h \in Run(ev, g) PROVE h \in Run(ev, f)
    <2>1. /\ h \in ev.present /\ OnReset(ev, h)
          /\ Joined(ev, Ticking(ev), g, h) /\ Joined(ev, Ticking(ev), h, g)
      BY <1>4 DEF Run
    <2>2. Joined(ev, Ticking(ev), f, h) /\ Joined(ev, Ticking(ev), h, f)
      BY <1>1, <1>2, <2>1
    <2> QED BY <1>2, <2>1, <2>2 DEF Run
  <1> QED BY <1>3, <1>4

LEMMA GroupShared ==
    ASSUME NEW ev, NEW f, NEW g \in Group(ev, f)
    PROVE  Group(ev, g) = Group(ev, f)
  <1>1. g \in Run(ev, f) BY DEF Group
  <1> QED BY <1>1, RunShared DEF Group

\* What one canonical input tells of its frame.
Alike(ev, other, f) ==
    /\ Claim(ev, f) = Claim(other, f) /\ Final(ev, f) = Final(other, f)
    /\ ev.anchor[f] = other.anchor[f] /\ KnownTrue(ev, f) = KnownTrue(other, f)

LEMMA CanonTells ==
    ASSUME NEW ev, NEW other, NEW f, NEW g, NEW run, NEW run2,
           Canon(ev, f, run) = Canon(other, g, run2)
    PROVE  /\ f = g /\ Alike(ev, other, f)
           /\ (run # {} /\ ev.strong) <=> (run2 # {} /\ other.strong)
  <1> DEFINE a == Canon(ev, f, run)
             b == Canon(other, g, run2)
  <1>1. a.file = f /\ b.file = g BY DEF Canon
  <1>2. f = g BY <1>1
  <1>3. /\ a.recorded = Claim(ev, f) /\ b.recorded = Claim(other, g)
        /\ a.reliability = Final(ev, f) /\ b.reliability = Final(other, g)
        /\ a.anchor = ev.anchor[f] /\ b.anchor = other.anchor[g]
        /\ a.known = KnownTrue(ev, f) /\ b.known = KnownTrue(other, g)
    BY DEF Canon
  <1>4. /\ a.strong = (run # {} /\ ev.strong)
        /\ b.strong = (run2 # {} /\ other.strong)
    BY DEF Canon
  <1>5. (run # {} /\ ev.strong) <=> (run2 # {} /\ other.strong)
    BY <1>4
  <1> QED BY <1>2, <1>3, <1>5 DEF Alike

\* Frames alike in their reset run, and a run in common, have their offsets in
\* common.
LEMMA OffsetsAlike ==
    ASSUME NEW ev, NEW other, NEW f,
           Group(ev, f) = Group(other, f),
           \A g \in Group(ev, f) : Alike(ev, other, g)
    PROVE  Offsets(ev, f) = Offsets(other, f)
  <1>1. \A g \in Group(ev, f) :
            /\ Exact(ev, g) <=> Exact(other, g)
            /\ ev.anchor[g].start - Day(Claim(ev, g))
                 = other.anchor[g].start - Day(Claim(other, g))
    BY DEF Alike, Exact
  <1> QED BY <1>1 DEF Offsets

\* ... and agree on whether and how the clock of a frame is corrected.
LEMMA CorrectionAlike ==
    ASSUME NEW ev, NEW other, NEW f,
           Group(ev, f) = Group(other, f), Alike(ev, other, f),
           \A g \in Group(ev, f) : Alike(ev, other, g),
           ev.strong <=> other.strong
    PROVE  /\ ByOffset(ev, f) <=> ByOffset(other, f)
           /\ Corrected(ev, f) = Corrected(other, f)
  <1>1. Offsets(ev, f) = Offsets(other, f) BY OffsetsAlike
  <1>2. Revisable(ev, f) <=> Revisable(other, f) BY DEF Alike, Revisable
  <1> QED BY <1>1, <1>2 DEF ByOffset, Corrected, Alike

\* Outside a reset run of one device nothing but the frame's own evidence counts.
LEMMA AloneIsUncorrected ==
    ASSUME NEW ev, NEW f, ~(Group(ev, f) # {} /\ ev.strong)
    PROVE  ~ByOffset(ev, f) /\ Bracketed(ev, f) = {}
  <1>1. CASE Group(ev, f) = {}
    <2>1. Offsets(ev, f) = {} BY <1>1 DEF Offsets
    <2>2. Cardinality(Offsets(ev, f)) # 1 BY <2>1, FS_EmptySet
    <2>3. Points(ev, f, Before) = {} /\ Points(ev, f, After) = {}
      BY <1>1 DEF Points
    <2> QED BY <2>2, <2>3 DEF ByOffset, Bracketed, Brackets
  <1>2. CASE ~ev.strong
    BY <1>2 DEF ByOffset, Bracketed
  <1> QED BY <1>1, <1>2

\* Two states of the evidence in which f has one fingerprint give f one date,
\* whatever else differs between them (_fingerprints and reconstruct: the
\* fingerprint covers every input of f's reconstruction).
THEOREM FingerprintDeterminesDate ==
    ASSUME NEW ev, NEW other, NEW f, Fingerprint(ev, f) = Fingerprint(other, f)
    PROVE  Interpret(ev, f) = Interpret(other, f)
  <1> DEFINE run == Group(ev, f)
             run2 == Group(other, f)
             a == Fingerprint(ev, f)
             b == Fingerprint(other, f)
  <1>1. /\ a.self = Canon(ev, f, run) /\ b.self = Canon(other, f, run2)
        /\ a.group = IF run = {} THEN None ELSE {Canon(ev, g, run) : g \in run}
        /\ b.group = IF run2 = {} THEN None ELSE {Canon(other, g, run2) : g \in run2}
    BY DEF Fingerprint
  <1>2. /\ Alike(ev, other, f)
        /\ (run # {} /\ ev.strong) <=> (run2 # {} /\ other.strong)
    BY <1>1, CanonTells
  <1>3. /\ Exact(ev, f) <=> Exact(other, f)
        /\ Ranged(ev, f) <=> Ranged(other, f)
        /\ KnownTrue(ev, f) = KnownTrue(other, f) /\ ev.anchor[f] = other.anchor[f]
        /\ Revisable(ev, f) <=> Revisable(other, f)
    BY <1>2 DEF Alike, Exact, Ranged, Revisable
  <1>4. CASE ~(run # {} /\ ev.strong)
    <2>1. /\ ~ByOffset(ev, f) /\ ~ByOffset(other, f)
          /\ Bracketed(ev, f) = {} /\ Bracketed(other, f) = {}
      BY <1>2, <1>4, AloneIsUncorrected
    <2> QED BY <1>3, <2>1 DEF Interpret
  <1>5. CASE run # {} /\ ev.strong
    <2>1. /\ run2 # {} /\ other.strong
          /\ {Canon(ev, g, run) : g \in run} = {Canon(other, g, run2) : g \in run2}
      BY <1>1, <1>2, <1>5
    <2>2. ASSUME NEW g \in run PROVE g \in run2 /\ Alike(ev, other, g)
      <3>1. PICK h \in run2 : Canon(ev, g, run) = Canon(other, h, run2) BY <2>1
      <3> QED BY <3>1, CanonTells
    <2>3. ASSUME NEW g \in run2 PROVE g \in run
      <3>1. PICK h \in run : Canon(ev, h, run) = Canon(other, g, run2) BY <2>1
      <3> QED BY <3>1, CanonTells
    <2>4. run = run2 BY <2>2, <2>3
    <2>5. ASSUME NEW g \in run
          PROVE  Group(ev, g) = Group(ev, f) /\ Group(other, g) = Group(other, f)
      BY <2>4, GroupShared
    <2>6. ASSUME NEW g, g = f \/ g \in run
          PROVE  /\ ByOffset(ev, g) <=> ByOffset(other, g)
                 /\ Corrected(ev, g) = Corrected(other, g)
                 /\ Exact(ev, g) <=> Exact(other, g)
                 /\ KnownTrue(ev, g) = KnownTrue(other, g)
      <3>1. /\ Group(ev, g) = Group(other, g) /\ Group(ev, g) = run
            /\ Alike(ev, other, g)
        BY <1>2, <2>2, <2>4, <2>5, <2>6
      <3>2. \A h \in Group(ev, g) : Alike(ev, other, h) BY <2>2, <3>1
      <3>3. ev.strong <=> other.strong BY <1>5, <2>1
      <3>4. /\ ByOffset(ev, g) <=> ByOffset(other, g)
            /\ Corrected(ev, g) = Corrected(other, g)
        BY <3>1, <3>2, <3>3, CorrectionAlike
      <3> QED BY <3>1, <3>4 DEF Alike, Exact
    <2>7. /\ Points(ev, f, Before) = Points(other, f, Before)
          /\ Points(ev, f, After) = Points(other, f, After)
      BY <2>4, <2>6 DEF Points
    <2>8. Bracketed(ev, f) = Bracketed(other, f)
      BY <1>3, <1>5, <2>1, <2>7 DEF Bracketed
    <2> QED BY <1>3, <2>6, <2>8 DEF Interpret
  <1> QED BY <1>4, <1>5
-----------------------------------------------------------------------------
(* What a reconstruction gives: ordered ranges, and methods that tell where *)
(* a date comes from.                                                      *)

WellFormed(ev) ==
    /\ ev.present \subseteq Files
    /\ ev.seen \in [Files -> Claimed]
    /\ ev.anchor \in [Files -> Anchors \cup {None}]

\* The date of a file is a date, and never one that ends before it starts.
Ordered(date) == date # None /\ (date.end = None \/ date.start <= date.end)

LEMMA KnownDates ==
    ASSUME NEW ev, WellFormed(ev), NEW f \in Files
    PROVE  /\ KnownTrue(ev, f) \in Int \cup {None}
           /\ Exact(ev, f) => KnownTrue(ev, f) = ev.anchor[f].start /\ KnownTrue(ev, f) \in Int
           /\ Ranged(ev, f) => /\ ev.anchor[f].start \in Int /\ ev.anchor[f].end \in Int
                               /\ ev.anchor[f].start <= ev.anchor[f].end
           /\ Claim(ev, f) \in Int \cup {None}
<1>1. ev.seen[f] \in Claimed /\ ev.anchor[f] \in Anchors \cup {None}
  BY DEF WellFormed
<1>2. /\ ev.seen[f].gps \in Int \cup {None} /\ ev.seen[f].claim \in Int \cup {None}
  BY <1>1 DEF Claimed
<1>3. ev.anchor[f] # None => /\ ev.anchor[f].start \in Int
                             /\ ev.anchor[f].end \in Int \cup {None}
                             /\ ev.anchor[f].end = None
                                  \/ ev.anchor[f].start <= ev.anchor[f].end
  BY <1>1 DEF Anchors
<1> QED BY <1>2, <1>3 DEF KnownTrue, Exact, Ranged, Gps, Claim

\* A date found between others is in their order.
LEMMA BracketedOrdered ==
    ASSUME NEW ev, NEW f, NEW d \in Bracketed(ev, f)
    PROVE  /\ d.method = "bracket"
           /\ d.end = None \/ d.start <= d.end
<1>1. PICK e \in Brackets(Points(ev, f, Before), Points(ev, f, After)) : d = Between(e)
  BY DEF Bracketed
<1>2. e[1] <= e[2]
  BY DEF Brackets
<1> QED BY <1>1, <1>2 DEF Between, Point, Span

LEMMA InterpretOrdered ==
    ASSUME NEW ev, WellFormed(ev), NEW f \in Files, Interpret(ev, f) # None
    PROVE  Ordered(Interpret(ev, f))
<1>1. CASE Exact(ev, f)
  <2>1. Interpret(ev, f) = Point(KnownTrue(ev, f), "direct")
    BY <1>1 DEF Interpret
  <2> QED BY <2>1 DEF Point, Ordered
<1>2. CASE ~Exact(ev, f) /\ KnownTrue(ev, f) # None
  <2>1. Interpret(ev, f) = Span(KnownTrue(ev, f) - 1, KnownTrue(ev, f) + 1, "direct_gps")
    BY <1>2 DEF Interpret
  <2>2. KnownTrue(ev, f) \in Int
    BY <1>2, KnownDates
  <2> QED BY <2>1, <2>2 DEF Span, Ordered
<1>3. CASE ~Exact(ev, f) /\ KnownTrue(ev, f) = None /\ ByOffset(ev, f)
  <2>1. Interpret(ev, f) = Point(Corrected(ev, f), "offset")
    BY <1>3 DEF Interpret
  <2> QED BY <2>1 DEF Point, Ordered
<1>4. CASE /\ ~Exact(ev, f) /\ KnownTrue(ev, f) = None /\ ~ByOffset(ev, f)
           /\ Ranged(ev, f)
  <2>1. Interpret(ev, f) = Span(ev.anchor[f].start, ev.anchor[f].end, "anchor_range")
    BY <1>4 DEF Interpret
  <2> QED BY <1>4, <2>1, KnownDates DEF Span, Ordered
<1>5. CASE /\ ~Exact(ev, f) /\ KnownTrue(ev, f) = None /\ ~ByOffset(ev, f)
           /\ ~Ranged(ev, f)
  <2>1. Interpret(ev, f) \in Bracketed(ev, f)
    BY <1>5 DEF Interpret
  <2> QED BY <2>1, BracketedOrdered DEF Ordered
<1> QED BY <1>1, <1>2, <1>3, <1>4, <1>5

\* A direct date is an exact anchor's; one by offset is that of a corrected clock.
LEMMA MethodTells ==
    ASSUME NEW ev, NEW f, Interpret(ev, f) # None
    PROVE  /\ Exact(ev, f) => Interpret(ev, f) = Point(KnownTrue(ev, f), "direct")
           /\ Interpret(ev, f).method = "direct" => Exact(ev, f)
           /\ Interpret(ev, f).method = "offset" =>
                  ByOffset(ev, f) /\ Interpret(ev, f) = Point(Corrected(ev, f), "offset")
<1>1. Exact(ev, f) => Interpret(ev, f) = Point(KnownTrue(ev, f), "direct")
  BY DEF Interpret
<1>2. \/ Interpret(ev, f) = Point(KnownTrue(ev, f), "direct") /\ Exact(ev, f)
      \/ Interpret(ev, f) = Span(KnownTrue(ev, f) - 1, KnownTrue(ev, f) + 1, "direct_gps")
      \/ Interpret(ev, f) = Point(Corrected(ev, f), "offset") /\ ByOffset(ev, f)
      \/ Interpret(ev, f) = Span(ev.anchor[f].start, ev.anchor[f].end, "anchor_range")
      \/ Interpret(ev, f) \in Bracketed(ev, f)
  BY DEF Interpret
<1>3. \A d, e, how : Point(d, how).method = how /\ Span(d, e, how).method = how
  BY DEF Point, Span
<1>4. Interpret(ev, f) \in Bracketed(ev, f) => Interpret(ev, f).method = "bracket"
  BY BracketedOrdered
<1> QED BY <1>1, <1>2, <1>3, <1>4
-----------------------------------------------------------------------------
(* Without the GPS dates: the runs, their exact dates and every frame in    *)
(* need of correction are the same.                                        *)

\* ev without what GPS says: nothing else of it differs.
Unlocated(ev, wo) ==
    /\ wo.present = ev.present /\ wo.strong = ev.strong /\ wo.anchor = ev.anchor
    /\ \A f \in Files : /\ Claim(wo, f) = Claim(ev, f) /\ Gps(wo, f) = None
                        /\ wo.seen[f].doubt = ev.seen[f].doubt

LEMMA UnlocatedRuns ==
    ASSUME NEW ev, NEW wo, WellFormed(ev), Unlocated(ev, wo)
    PROVE  /\ \A f \in Files : OnReset(wo, f) <=> OnReset(ev, f)
           /\ \A f \in Files : Group(wo, f) = Group(ev, f) /\ Offsets(wo, f) = Offsets(ev, f)
<1>1. \A f \in Files : OnReset(wo, f) <=> OnReset(ev, f)
  BY DEF Unlocated, OnReset
<1>2. \A f, g \in ev.present : Ticks(wo, f, g) <=> Ticks(ev, f, g)
  BY <1>1 DEF Unlocated, Ticks, WellFormed
<1>3. \A f, g : Follows(wo, f, g) <=> Follows(ev, f, g)
  BY DEF Follows, Unlocated
<1>4. Ticking(wo) = Ticking(ev)
  <2>1. \A f : f \in Ticking(wo) <=> f \in ev.present /\ \E g \in ev.present :
                                        Ticks(ev, f, g) /\ Follows(ev, f, g)
    BY <1>2, <1>3 DEF Ticking, Linked, Unlocated
  <2>2. \A f : f \in Ticking(ev) <=> f \in ev.present /\ \E g \in ev.present :
                                        Ticks(ev, f, g) /\ Follows(ev, f, g)
    BY DEF Ticking, Linked
  <2> QED BY <2>1, <2>2
<1>5. \A links, f, g : Joined(wo, links, f, g) <=> Joined(ev, links, f, g)
  BY DEF Joined, Unlocated
<1>6. ASSUME NEW f \in Files PROVE Group(wo, f) = Group(ev, f)
  <2>1. \A g : g \in Run(wo, f) <=> g \in Run(ev, f)
    <3>1. \A g \in ev.present : OnReset(wo, g) <=> OnReset(ev, g)
      BY <1>1 DEF WellFormed
    <3> QED BY <1>1, <1>4, <1>5, <1>6, <3>1 DEF Run, Unlocated
  <2>2. Run(wo, f) = Run(ev, f)
    BY <2>1
  <2> QED BY <2>2 DEF Group
<1>7. ASSUME NEW f \in Files PROVE Offsets(wo, f) = Offsets(ev, f)
  <2>1. Group(ev, f) \subseteq Files
    BY DEF Group, Run, WellFormed
  <2>2. \A g \in Group(ev, f) : /\ Exact(wo, g) <=> Exact(ev, g)
                                /\ Claim(wo, g) = Claim(ev, g) /\ wo.anchor = ev.anchor
    BY <2>1 DEF Exact, Unlocated
  <2>3. Group(wo, f) = Group(ev, f)
    BY <1>6, <1>7
  <2> QED BY <2>2, <2>3 DEF Offsets
<1> QED BY <1>1, <1>6, <1>7

\* A frame on a reset date that no human dated needs correction, GPS or not.
LEMMA UnlocatedRevisable ==
    ASSUME NEW wo, NEW f \in Files, OnReset(wo, f), ~Exact(wo, f), Gps(wo, f) = None
    PROVE  Revisable(wo, f)
<1>1. Intrinsic(wo, f) \in {"LIKELY_WRONG", "QUESTIONABLE"}
  BY DEF OnReset, Intrinsic
<1>2. Combined(wo, f) \in {"LIKELY_WRONG", "QUESTIONABLE"}
  BY <1>1 DEF Combined
<1>3. ~Corroborated(wo, f)
  BY DEF Corroborated
<1> QED BY <1>2, <1>3 DEF Revisable, Final

LEMMA GroupOnReset ==
    ASSUME NEW ev, NEW f, NEW g \in Group(ev, f)
    PROVE  g \in ev.present /\ OnReset(ev, f) /\ OnReset(ev, g)
  BY DEF Group, Run

\* A frame whose clock is corrected has a run.
LEMMA OffsetHasRun ==
    ASSUME NEW ev, NEW f, Cardinality(Offsets(ev, f)) = 1
    PROVE  Group(ev, f) # {}
<1>1. Offsets(ev, f) # {}
  BY FS_EmptySet
<1> QED BY <1>1 DEF Offsets

\* A point date rests on humans and clocks alone: it is the same without GPS.
LEMMA PointWithoutGps ==
    ASSUME NEW ev, NEW wo, WellFormed(ev), Unlocated(ev, wo), NEW f \in Files,
           Ordered(Interpret(ev, f)), Interpret(ev, f).end = None
    PROVE  Interpret(wo, f) = Interpret(ev, f)
<1> DEFINE G == Group(ev, f)
<1>1. /\ Group(wo, f) = G /\ Offsets(wo, f) = Offsets(ev, f)
      /\ wo.strong = ev.strong /\ wo.anchor = ev.anchor
      /\ Claim(wo, f) = Claim(ev, f) /\ Gps(wo, f) = None
  BY UnlocatedRuns DEF Unlocated
<1>2. /\ Exact(wo, f) <=> Exact(ev, f)
      /\ Ranged(wo, f) <=> Ranged(ev, f)
  BY <1>1 DEF Exact, Ranged
<1>3. G \subseteq Files /\ \A g \in G : OnReset(ev, f) /\ OnReset(wo, f)
  BY GroupOnReset, UnlocatedRuns DEF WellFormed
<1>4. CASE Exact(ev, f)
  BY <1>1, <1>2, <1>4 DEF Interpret, KnownTrue
<1>5. CASE ~Exact(ev, f) /\ KnownTrue(ev, f) # None
  <2>1. Interpret(ev, f) = Span(KnownTrue(ev, f) - 1, KnownTrue(ev, f) + 1, "direct_gps")
    BY <1>5 DEF Interpret
  <2>2. KnownTrue(ev, f) + 1 \in Int
    BY <1>5, KnownDates
  <2> QED BY <2>1, <2>2, EvidenceAssumption DEF Span
<1>6. ASSUME ~Exact(ev, f), KnownTrue(ev, f) = None, G # {}
      PROVE  /\ KnownTrue(wo, f) = None /\ Revisable(wo, f)
             /\ Corrected(wo, f) = Corrected(ev, f)
  <2>1. KnownTrue(wo, f) = None
    BY <1>1, <1>2, <1>6 DEF KnownTrue
  <2>2. Revisable(wo, f)
    BY <1>1, <1>2, <1>3, <1>6, UnlocatedRevisable
  <2> QED BY <1>1, <2>1, <2>2 DEF Corrected
<1>7. CASE ~Exact(ev, f) /\ KnownTrue(ev, f) = None /\ ByOffset(ev, f)
  <2>1. G # {}
    BY <1>7, OffsetHasRun DEF ByOffset
  <2>2. ByOffset(wo, f)
    BY <1>1, <1>6, <1>7, <2>1 DEF ByOffset
  <2> QED BY <1>2, <1>6, <1>7, <2>1, <2>2 DEF Interpret
<1>8. CASE ~Exact(ev, f) /\ KnownTrue(ev, f) = None /\ ~ByOffset(ev, f) /\ Ranged(ev, f)
  <2>1. Interpret(ev, f) = Span(ev.anchor[f].start, ev.anchor[f].end, "anchor_range")
    BY <1>8 DEF Interpret
  <2> QED BY <1>8, <2>1, KnownDates, EvidenceAssumption DEF Span
<1>9. CASE ~Exact(ev, f) /\ KnownTrue(ev, f) = None /\ ~ByOffset(ev, f) /\ ~Ranged(ev, f)
  <2>1. Bracketed(ev, f) # {} /\ Interpret(ev, f) = CHOOSE d \in Bracketed(ev, f) : TRUE
    BY <1>9 DEF Interpret, Ordered
  <2>2. ev.strong /\ Revisable(ev, f) /\ Points(ev, f, Before) # {}
    BY <2>1 DEF Bracketed, Brackets
  <2>3. G # {}
    BY <2>2 DEF Points
  <2>4. ~(Cardinality(Offsets(ev, f)) = 1 /\ Offsets(ev, f) # {0})
    BY <1>9, <2>2 DEF ByOffset
  <2>5. ASSUME NEW g \in G
        PROVE  /\ ~ByOffset(ev, g) /\ ~ByOffset(wo, g)
               /\ Exact(wo, g) <=> Exact(ev, g)
               /\ Exact(ev, g) => KnownTrue(wo, g) = KnownTrue(ev, g)
    <3>1. Group(ev, g) = G
      BY GroupShared
    <3>2. Offsets(ev, g) = Offsets(ev, f)
      BY <3>1 DEF Offsets
    <3>3. Offsets(wo, g) = Offsets(ev, f)
      BY <1>3, <3>2, UnlocatedRuns
    <3> QED BY <1>1, <2>4, <3>2, <3>3 DEF ByOffset, Exact, KnownTrue
  <2>6. /\ Points(wo, f, Before) = Points(ev, f, Before)
        /\ Points(wo, f, After) = Points(ev, f, After)
    BY <1>1, <2>5 DEF Points
  <2>7. Bracketed(wo, f) = Bracketed(ev, f)
    BY <1>1, <1>6, <1>9, <2>2, <2>3, <2>6 DEF Bracketed
  <2>8. ~ByOffset(wo, f)
    BY <1>1, <2>4 DEF ByOffset
  <2> QED BY <1>2, <1>6, <1>9, <2>1, <2>3, <2>7, <2>8 DEF Interpret
<1> QED BY <1>4, <1>5, <1>7, <1>8, <1>9
-----------------------------------------------------------------------------
(* The inductive invariant: a whole row, and what a whole computation has   *)
(* read, come from one state of the evidence.                              *)

IsRow(row) ==
    row = [date |-> row.date, rev |-> row.rev, print |-> row.print,
           whole |-> row.whole, status |-> row.status]

\* One state of the evidence gave the row its date and its fingerprint.
Derived(row, f) ==
    \E ev : row.date = Interpret(ev, f) /\ row.print = Fingerprint(ev, f)

Sound(row, f) == row # None => IsRow(row) /\ (row.whole => Derived(row, f))

RowsSound == DOMAIN rows = Files /\ \A f \in Files : Sound(rows[f], f)

\* The dates and fingerprints a computation has read, in a state where the
\* evidence is that of now.
Reading(j, now) ==
    /\ "at" \in DOMAIN j
    /\ j.at \in {"prints", "revisions"} => "whole" \in DOMAIN j
    /\ j.at = "prints" /\ j.whole => j.dates = Reconstruct(now)
    /\ j.at \in {"revisions", "decided", "upsert"} /\ j.whole =>
          \E ev : j.dates = Reconstruct(ev) /\ j.prints = Prints(ev)

JobsSound ==
    DOMAIN job = Procs /\ \A p \in Procs : Reading(job[p], Evidence(job[p].floor))

IInv == RowsSound /\ JobsSound

\* A decision or a reopening leaves what a row says alone.
LEMMA StatusOnly ==
    ASSUME NEW row, NEW f, NEW s, IsRow(row), row.whole => Derived(row, f)
    PROVE  Sound([row EXCEPT !.status = s], f)
  <1> DEFINE new == [row EXCEPT !.status = s]
  <1>1. new = [date |-> row.date, rev |-> row.rev, print |-> row.print,
               whole |-> row.whole, status |-> s]
    BY DEF IsRow
  <1>2. /\ new.date = row.date /\ new.rev = row.rev /\ new.print = row.print
        /\ new.whole = row.whole /\ new.status = s
    BY <1>1
  <1>3. IsRow(new) BY <1>1, <1>2 DEF IsRow
  <1>4. new.whole => Derived(new, f) BY <1>2 DEF Derived
  <1> QED BY <1>3, <1>4 DEF Sound

\* A row made of one whole computation is sound.
LEMMA NewRowSound ==
    ASSUME NEW j, NEW f \in DOMAIN j.dates, NEW now, Reading(j, now), j.at = "upsert"
    PROVE  Sound(Row(j.dates[f], j.revs[f], Get(j.prints, f), j.whole), f)
  <1> DEFINE new == Row(j.dates[f], j.revs[f], Get(j.prints, f), j.whole)
  <1>1. IsRow(new) /\ new.whole = j.whole BY DEF IsRow, Row
  <1>2. ASSUME j.whole PROVE Derived(new, f)
    <2>1. PICK ev : j.dates = Reconstruct(ev) /\ j.prints = Prints(ev)
      BY <1>2 DEF Reading
    <2>2. f \in ev.present BY <2>1 DEF Reconstruct
    <2>3. j.dates[f] = Interpret(ev, f) BY <2>1, <2>2 DEF Reconstruct
    <2>4. Get(j.prints, f) = Fingerprint(ev, f) BY <2>1, <2>2 DEF Prints, Get
    <2> QED BY <2>3, <2>4 DEF Derived, Row
  <1> QED BY <1>1, <1>2 DEF Sound

\* An operation goes on to j while the evidence stays.
LEMMA QuietJobs ==
    ASSUME JobsSound, Quiet, NEW p \in Procs, NEW STATE j,
           job' = [job EXCEPT ![p] = j], Reading(j, Evidence(j.floor))
    PROVE  JobsSound'
  <1>1. DOMAIN job' = Procs BY DEF JobsSound
  <1>2. /\ present' = present /\ strong' = strong /\ seen' = seen
        /\ own' = own /\ directory' = directory
    BY DEF Quiet
  <1>3. ASSUME NEW q \in Procs PROVE Reading(job[q], Evidence(job[q].floor))'
    <2>1. CASE q = p
      <3>1. job'[q] = j BY <2>1 DEF JobsSound
      <3> QED BY <1>2, <3>1 DEF Evidence, Resolve
    <2>2. CASE q # p
      <3>1. job'[q] = job[q] BY <2>2 DEF JobsSound
      <3>2. Reading(job[q], Evidence(job[q].floor)) BY DEF JobsSound
      <3> QED BY <1>2, <3>1, <3>2 DEF Evidence, Resolve
    <2> QED BY <2>1, <2>2
  <1> QED BY <1>1, <1>3 DEF JobsSound

\* An operation that ends has read nothing.
LEMMA EndJobs ==
    ASSUME JobsSound, Quiet, NEW p \in Procs, job' = [job EXCEPT ![p] = Idle]
    PROVE  JobsSound'
  <1>1. Reading(Idle, Evidence(Idle.floor)) BY DEF Reading, Idle
  <1> QED BY <1>1, QuietJobs

\* A change of evidence tears the computations that are reading it.
LEMMA EventJobs ==
    ASSUME JobsSound, Event
    PROVE  JobsSound'
  <1>1. DOMAIN job' = Procs BY DEF Event
  <1>2. ASSUME NEW q \in Procs PROVE Reading(job[q], Evidence(job[q].floor))'
    <2>0. Reading(job[q], Evidence(job[q].floor)) BY DEF JobsSound
    <2>1. CASE job[q].at \in {"prints", "revisions"}
      <3>1. job'[q] = [job[q] EXCEPT !.whole = FALSE] BY <2>1 DEF Event
      <3>2. /\ "at" \in DOMAIN job[q] /\ "whole" \in DOMAIN job[q]
        BY <2>0, <2>1 DEF Reading
      <3>3. /\ DOMAIN job'[q] = DOMAIN job[q]
            /\ job'[q].whole = FALSE /\ job'[q].at = job[q].at
        BY <3>1, <3>2
      <3> QED BY <2>1, <3>2, <3>3 DEF Reading
    <2>2. CASE job[q].at \notin {"prints", "revisions"}
      <3>1. job'[q] = job[q] BY <2>2 DEF Event
      <3> QED BY <2>0, <2>2, <3>1 DEF Reading
    <2> QED BY <2>1, <2>2
  <1> QED BY <1>1, <1>2 DEF JobsSound

\* The rows a step leaves are sound: those that changed got another status,
\* were deleted, or come from one computation.
LEMMA CommitRows ==
    ASSUME IInv, NEW p \in Procs, StoreCommit(p)
    PROVE  RowsSound'
  <1> DEFINE j == job[p]
             Dates == {f \in DOMAIN j.dates : j.dates[f] # None}
  <1>1. Reading(j, Evidence(j.floor)) BY DEF IInv, JobsSound
  <1>2. DOMAIN rows' = Files BY DEF StoreCommit
  <1>3. ASSUME NEW f \in Files PROVE Sound(rows'[f], f)
    <2> DEFINE new == Row(j.dates[f], j.revs[f], Get(j.prints, f), j.whole)
    <2>1. Sound(rows[f], f) BY DEF IInv, RowsSound
    <2>2. \/ rows'[f] = rows[f]
          \/ rows'[f] = None
          \/ f \in Dates /\ rows'[f] = new
      BY DEF StoreCommit, Upsert
    <2>3. f \in Dates => Sound(new, f)
      BY <1>1, NewRowSound DEF StoreCommit
    <2> QED BY <2>1, <2>2, <2>3 DEF Sound
  <1> QED BY <1>2, <1>3 DEF RowsSound

\* The rows of G get another status.
LEMMA StatusRows ==
    ASSUME RowsSound, NEW STATE G, \A f \in Files : f \in G => rows[f] # None, NEW s,
           DOMAIN rows' = Files,
           \A f \in Files :
              rows'[f] = IF f \in G THEN [rows[f] EXCEPT !.status = s] ELSE rows[f]
    PROVE  RowsSound'
  <1>1. ASSUME NEW f \in Files PROVE Sound(rows'[f], f)
    <2>1. Sound(rows[f], f) BY DEF RowsSound
    <2>2. CASE f \in G
      <3>1. IsRow(rows[f]) /\ (rows[f].whole => Derived(rows[f], f))
        BY <2>1, <2>2 DEF Sound
      <3>2. Sound([rows[f] EXCEPT !.status = s], f) BY <3>1, StatusOnly
      <3> QED BY <2>2, <3>2
    <2>3. CASE f \notin G
      BY <2>1, <2>3
    <2> QED BY <2>2, <2>3
  <1> QED BY <1>1 DEF RowsSound
-----------------------------------------------------------------------------
LEMMA InitInv == Init => IInv
  <1> SUFFICES ASSUME Init PROVE IInv OBVIOUS
  <1>1. RowsSound BY DEF Init, RowsSound, Sound
  <1>2. JobsSound BY DEF Init, JobsSound, Reading, Idle
  <1> QED BY <1>1, <1>2 DEF IInv

\* Each read of store_reconstructions.
LEMMA StoreReads ==
    ASSUME IInv, NEW p \in Procs,
           \/ \E x \in Floors : StoreDates(p, x)
           \/ StorePrints(p) \/ StoreRevisions(p) \/ StoreDecided(p)
    PROVE  IInv'
  <1> DEFINE j == job[p]
  <1> USE DEF IInv
  <1>0. Reading(j, Evidence(j.floor)) BY DEF JobsSound
  <1>1. rows' = rows /\ Quiet
    BY DEF StoreDates, StorePrints, StoreRevisions, StoreDecided, Begin, Step
  <1>2. RowsSound' BY <1>1 DEF RowsSound
  <1>3. CASE \E x \in Floors : StoreDates(p, x)
    <2>1. PICK x \in Floors : StoreDates(p, x) BY <1>3
    <2> DEFINE new == [at |-> "prints", floor |-> x, whole |-> TRUE,
                       dates |-> Reconstruct(Evidence(x))]
    <2>2. job' = [job EXCEPT ![p] = new] BY <2>1 DEF StoreDates, Begin
    <2>3. Reading(new, Evidence(new.floor)) BY DEF Reading
    <2>4. JobsSound' BY <1>1, <2>2, <2>3, QuietJobs
    <2> QED BY <1>2, <2>4
  <1>4. CASE StorePrints(p)
    <2> DEFINE new == [at |-> "revisions", whole |-> j.whole, dates |-> j.dates,
                       prints |-> Prints(Evidence(j.floor))]
    <2>1. job' = [job EXCEPT ![p] = new] /\ j.at = "prints" BY <1>4 DEF StorePrints, Step
    <2>2. j.whole => j.dates = Reconstruct(Evidence(j.floor)) BY <1>0, <2>1 DEF Reading
    <2>3. Reading(new, Evidence(new.floor)) BY <2>2 DEF Reading
    <2>4. JobsSound' BY <1>1, <2>1, <2>3, QuietJobs
    <2> QED BY <1>2, <2>4
  <1>5. CASE StoreRevisions(p)
    <2> DEFINE new == [at |-> "decided", whole |-> j.whole, dates |-> j.dates,
                       prints |-> j.prints, revs |-> revision]
    <2>1. job' = [job EXCEPT ![p] = new] /\ j.at = "revisions"
      BY <1>5 DEF StoreRevisions, Step
    <2>2. Reading(new, Evidence(new.floor)) BY <1>0, <2>1 DEF Reading
    <2>3. JobsSound' BY <1>1, <2>1, <2>2, QuietJobs
    <2> QED BY <1>2, <2>3
  <1>6. CASE StoreDecided(p)
    <2> DEFINE new == [at |-> "upsert", whole |-> j.whole, dates |-> j.dates,
                       prints |-> j.prints, revs |-> j.revs,
                       decided |-> {f \in Files : rows[f] # None
                                                    /\ rows[f].status \in Verdicts}]
    <2>1. job' = [job EXCEPT ![p] = new] /\ j.at = "decided"
      BY <1>6 DEF StoreDecided, Step
    <2>2. Reading(new, Evidence(new.floor)) BY <1>0, <2>1 DEF Reading
    <2>3. JobsSound' BY <1>1, <2>1, <2>2, QuietJobs
    <2> QED BY <1>2, <2>3
  <1> QED BY <1>3, <1>4, <1>5, <1>6

LEMMA CommitInv ==
    ASSUME IInv, NEW p \in Procs, StoreCommit(p)
    PROVE  IInv'
  <1>1. RowsSound' BY CommitRows
  <1>2. Quiet /\ job' = [job EXCEPT ![p] = Idle] BY DEF StoreCommit, End
  <1>3. JobsSound' BY <1>2, EndJobs DEF IInv
  <1> QED BY <1>1, <1>3 DEF IInv

\* _decide, reopen_reconstruction, and the end of an operation that fails.
LEMMA DecideInv ==
    ASSUME IInv, NEW p \in Procs,
           \/ \E f \in Files : DecideSelect(p, f)
           \/ DecideFresh(p)
           \/ \E v \in Verdicts : DecideCommit(p, v)
           \/ Fail(p)
    PROVE  IInv'
  <1> USE DEF IInv
  <1> DEFINE j == job[p]
  <1>0. Reading(j, Evidence(j.floor)) BY DEF JobsSound
  <1>1. CASE \E f \in Files : DecideSelect(p, f)
    <2>1. PICK f \in Files : DecideSelect(p, f) BY <1>1
    <2> DEFINE new == [at |-> "freshness", file |-> f]
    <2>2. Quiet /\ rows' = rows /\ job' = [job EXCEPT ![p] = new]
      BY <2>1 DEF DecideSelect, Begin
    <2>3. Reading(new, Evidence(new.floor)) BY DEF Reading
    <2>4. JobsSound' BY <2>2, <2>3, QuietJobs
    <2> QED BY <2>2, <2>4 DEF RowsSound
  <1>2. CASE DecideFresh(p)
    <2> DEFINE new == [j EXCEPT !.at = "decide"]
    <2>1. Quiet /\ rows' = rows /\ job' = [job EXCEPT ![p] = new]
      BY <1>2 DEF DecideFresh, Step
    <2>2. DOMAIN new = DOMAIN j /\ new.at = "decide" BY <1>0 DEF Reading
    <2>3. Reading(new, Evidence(new.floor)) BY <1>0, <2>2 DEF Reading
    <2>4. JobsSound' BY <2>1, <2>3, QuietJobs
    <2> QED BY <2>1, <2>4 DEF RowsSound
  <1>3. CASE \E v \in Verdicts : DecideCommit(p, v)
    <2>1. PICK v \in Verdicts : DecideCommit(p, v) BY <1>3
    <2>2. Quiet /\ job' = [job EXCEPT ![p] = Idle] BY <2>1 DEF DecideCommit, End
    <2>3. JobsSound' BY <2>2, EndJobs
    <2>4. CASE rows[j.file] = None
      <3>1. rows' = rows BY <2>1, <2>4 DEF DecideCommit
      <3> QED BY <2>3, <3>1 DEF RowsSound
    <2>5. CASE rows[j.file] # None
      <3>1. /\ \A f \in Files : f \in {j.file} => rows[f] # None
            /\ DOMAIN rows' = Files
            /\ \A f \in Files : rows'[f] = IF f \in {j.file} THEN [rows[f] EXCEPT !.status = v]
                                             ELSE rows[f]
        BY <2>1, <2>5 DEF DecideCommit, RowsSound
      <3> HIDE DEF j
      <3>2. RowsSound' BY <3>1, StatusRows
      <3> QED BY <2>3, <3>2
    <2> QED BY <2>4, <2>5
  <1>4. CASE Fail(p)
    <2>1. Quiet /\ rows' = rows /\ job' = [job EXCEPT ![p] = Idle] BY <1>4 DEF Fail
    <2>2. JobsSound' BY <2>1, EndJobs
    <2> QED BY <2>1, <2>2 DEF RowsSound
  <1> QED BY <1>1, <1>2, <1>3, <1>4

\* plan_batch_confirmation, confirm_batch and reopen_reconstruction.
LEMMA BatchInv ==
    ASSUME IInv,
           \/ \E f \in Files : Reopen(f) \/ PlanBatch(f)
           \/ \E p \in Procs : BatchRebuild(p) \/ BatchCommit(p)
    PROVE  IInv'
  <1> USE DEF IInv
  <1>1. ASSUME NEW f \in Files, Reopen(f) PROVE IInv'
    <2>1. Quiet /\ job' = job BY <1>1 DEF Reopen
    <2>2. JobsSound' BY <2>1 DEF Quiet, JobsSound, Evidence, Resolve
    <2>3. /\ rows[f] # None /\ DOMAIN rows' = Files
          /\ \A g \in Files : rows'[g] = IF g \in {f} THEN [rows[g] EXCEPT !.status = "proposed"]
                                           ELSE rows[g]
      BY <1>1 DEF Reopen, RowsSound
    <2>4. RowsSound' BY <2>3, StatusRows
    <2> QED BY <2>2, <2>4
  <1>2. ASSUME NEW f \in Files, PlanBatch(f) PROVE IInv'
    <2>1. Quiet /\ job' = job /\ rows' = rows BY <1>2 DEF PlanBatch
    <2>2. JobsSound' BY <2>1 DEF Quiet, JobsSound, Evidence, Resolve
    <2> QED BY <2>1, <2>2 DEF RowsSound
  <1>3. ASSUME NEW p \in Procs, BatchRebuild(p) PROVE IInv'
    <2> DEFINE new == [at |-> "batch", batch |-> plan]
    <2>1. Quiet /\ rows' = rows /\ job' = [job EXCEPT ![p] = new] BY <1>3 DEF BatchRebuild
    <2>2. Reading(new, Evidence(new.floor)) BY DEF Reading
    <2>3. JobsSound' BY <2>1, <2>2, QuietJobs
    <2> QED BY <2>1, <2>3 DEF RowsSound
  <1>4. ASSUME NEW p \in Procs, BatchCommit(p) PROVE IInv'
    <2> DEFINE G == DOMAIN job[p].batch
    <2>1. Quiet /\ job' = [job EXCEPT ![p] = Idle] BY <1>4 DEF BatchCommit, End
    <2>2. JobsSound' BY <2>1, EndJobs
    <2>3. /\ \A f \in G : rows[f] # None
          /\ rows' = [f \in Files |-> IF f \in G THEN [rows[f] EXCEPT !.status = "confirmed"]
                                      ELSE rows[f]]
      BY <1>4 DEF BatchCommit, Unchanged, Proposed
    <2>4. RowsSound' BY <2>3, StatusRows
    <2> QED BY <2>2, <2>4
  <1> QED BY <1>1, <1>2, <1>3, <1>4

LEMMA ChangeInv == ASSUME IInv, Change PROVE IInv'
  <1>1. Event /\ rows' = rows
    BY DEF Change, AddFileAnchor, AddDirectoryAnchor, Rescan, Reextract, Appear, Event
  <1>2. JobsSound' BY <1>1, EventJobs DEF IInv
  <1> QED BY <1>1, <1>2 DEF IInv, RowsSound

LEMMA NextInv == ASSUME IInv, [Next]_vars PROVE IInv'
  <1>1. CASE UNCHANGED vars
    BY <1>1 DEF vars, IInv, RowsSound, JobsSound, Evidence, Resolve
  <1>2. CASE Change BY <1>2, ChangeInv
  <1>3. ASSUME NEW p \in Procs,
               \/ \E x \in Floors : StoreDates(p, x)
               \/ StorePrints(p) \/ StoreRevisions(p) \/ StoreDecided(p)
        PROVE  IInv'
    BY <1>3, StoreReads
  <1>4. ASSUME NEW p \in Procs, StoreCommit(p) PROVE IInv' BY <1>4, CommitInv
  <1>5. ASSUME NEW p \in Procs,
               \/ \E f \in Files : DecideSelect(p, f)
               \/ DecideFresh(p)
               \/ \E v \in Verdicts : DecideCommit(p, v)
               \/ Fail(p)
        PROVE  IInv'
    BY <1>5, DecideInv
  <1>6. CASE \/ \E f \in Files : Reopen(f) \/ PlanBatch(f)
            \/ \E p \in Procs : BatchRebuild(p) \/ BatchCommit(p)
    BY <1>6, BatchInv
  <1> QED BY <1>1, <1>2, <1>3, <1>4, <1>5, <1>6 DEF Next

-----------------------------------------------------------------------------
(* The types that TypeOK rests on: the evidence is well formed, what a job   *)
(* or a plan holds is what the rows are made of, and every operation under   *)
(* way is counted.                                                         *)

EvidenceTyped ==
    /\ strong \in BOOLEAN /\ present \subseteq Files
    /\ revision \in [Files -> Nat]
    /\ seen \in [Files -> Claimed]
    /\ own \in [Files -> Anchors \cup {None}]
    /\ directory \in Anchors \cup {None}
    /\ events \in 0 .. MaxEvents

Typed(row) ==
    row # None => row.status \in Statuses /\ row.whole \in BOOLEAN /\ Ordered(row.date)

RowsTyped == \A f \in Files : Typed(rows[f])

\* What a reviewer is shown: rows as they were.
Reviewed(batch) ==
    /\ DOMAIN batch \subseteq Files
    /\ \A f \in DOMAIN batch : batch[f] # None /\ Sound(batch[f], f)

Steps == {"idle", "prints", "revisions", "decided", "upsert",
          "freshness", "decide", "batch"}

Storing == {"prints", "revisions", "decided", "upsert"}

JobTyped(j) ==
    /\ j.at \in Steps
    /\ j.at \in Storing =>
          /\ j.whole \in BOOLEAN
          /\ \A f \in Files \cap DOMAIN j.dates : j.dates[f] = None \/ Ordered(j.dates[f])
    /\ j.at = "batch" => Reviewed(j.batch)

JobsTyped == \A p \in Procs : JobTyped(job[p])

Busy == {p \in Procs : job[p] # Idle}

Counted == jobs \in 0 .. MaxJobs /\ Cardinality(Busy) <= jobs

Shape ==
    /\ EvidenceTyped /\ RowsTyped /\ JobsTyped /\ Counted
    /\ plan # None => Reviewed(plan)

LEMMA EvidenceIsWellFormed ==
    ASSUME EvidenceTyped, NEW floor PROVE WellFormed(Evidence(floor))
<1>1. \A f \in Files : Resolve(f) \in Anchors \cup {None}
  BY DEF EvidenceTyped, Resolve
<1> QED BY <1>1 DEF EvidenceTyped, Evidence, WellFormed

\* What a computation reads is typed.
LEMMA DatesTyped ==
    ASSUME EvidenceTyped, NEW floor, NEW f \in Files \cap DOMAIN Reconstruct(Evidence(floor))
    PROVE  LET date == Reconstruct(Evidence(floor))[f] IN date = None \/ Ordered(date)
<1>1. WellFormed(Evidence(floor))
  BY EvidenceIsWellFormed
<1>2. Reconstruct(Evidence(floor))[f] = Interpret(Evidence(floor), f)
  BY DEF Reconstruct
<1> QED BY <1>1, <1>2, InterpretOrdered

LEMMA InitShape == Init => Shape
<1> SUFFICES ASSUME Init PROVE Shape
  OBVIOUS
<1>1. EvidenceTyped
  <2>1. PICK s \in Sessions : strong = s.strong /\ seen = s.seen /\ own = s.own
    BY DEF Init
  <2>2. events = 0 /\ 0 \in 0 .. MaxEvents
    BY EvidenceAssumption DEF Init
  <2> QED BY <2>1, <2>2, EvidenceAssumption DEF Init, EvidenceTyped
<1>2. RowsTyped
  BY DEF Init, RowsTyped, Typed
<1>3. JobsTyped
  BY DEF Init, JobsTyped, JobTyped, Idle, Steps, Storing
<1>4. Counted
  <2>1. Busy = {}
    BY DEF Init, Busy
  <2> QED BY <2>1, FS_EmptySet, EvidenceAssumption DEF Init, Counted
<1> QED BY <1>1, <1>2, <1>3, <1>4 DEF Init, Shape

LEMMA QuietEvidence ==
    ASSUME EvidenceTyped, Quiet PROVE EvidenceTyped'
  BY DEF EvidenceTyped, Quiet

LEMMA ChangeEvidence ==
    ASSUME EvidenceTyped, Change PROVE EvidenceTyped'
<1>1. events' \in 0 .. MaxEvents /\ strong' = strong
  BY EvidenceAssumption DEF Change, AddFileAnchor, AddDirectoryAnchor, Rescan, Reextract,
     Appear, Event, EvidenceTyped
<1>2. ASSUME NEW f \in Files, NEW a \in FileAnchors, AddFileAnchor(f, a)
      PROVE  EvidenceTyped'
  <2>1. own' \in [Files -> Anchors \cup {None}]
    BY <1>2, EvidenceAssumption DEF AddFileAnchor, EvidenceTyped
  <2> QED BY <1>1, <1>2, <2>1 DEF AddFileAnchor, EvidenceTyped
<1>3. ASSUME NEW f \in Files, NEW o \in Observations, Rescan(f, o) \/ Reextract(f, o)
      PROVE  EvidenceTyped'
  <2>1. seen' \in [Files -> Claimed] /\ revision' \in [Files -> Nat]
    BY <1>3, EvidenceAssumption DEF Rescan, Reextract, EvidenceTyped
  <2> QED BY <1>1, <1>3, <2>1 DEF Rescan, Reextract, EvidenceTyped
<1>4. ASSUME NEW f \in Files, Appear(f) PROVE EvidenceTyped'
  BY <1>1, <1>4 DEF Appear, EvidenceTyped
<1>5. ASSUME NEW a \in DirectoryAnchors, AddDirectoryAnchor(a) PROVE EvidenceTyped'
  BY <1>1, <1>5, EvidenceAssumption DEF AddDirectoryAnchor, EvidenceTyped
<1> QED BY <1>2, <1>3, <1>4, <1>5 DEF Change

\* The operations under way, as one of them starts, goes on or ends.
LEMMA StartCounted ==
    ASSUME JobsSound, Counted, NEW p \in Procs, NEW STATE j, j # Idle,
           job[p] = Idle, jobs < MaxJobs, jobs' = jobs + 1, job' = [job EXCEPT ![p] = j]
    PROVE  Counted'
<1>1. Busy' = Busy \cup {p} /\ p \notin Busy
  BY DEF Busy, JobsSound
<1>2. IsFiniteSet(Busy)
  BY EvidenceAssumption, FS_Subset DEF Busy
<1>3. Cardinality(Busy') = Cardinality(Busy) + 1 /\ Cardinality(Busy) \in Nat
  BY <1>1, <1>2, FS_AddElement, FS_CardinalityType
<1> QED BY <1>3, EvidenceAssumption DEF Counted

LEMMA StepCounted ==
    ASSUME JobsSound, Counted, NEW p \in Procs, NEW STATE j, j # Idle,
           job[p] # Idle, jobs' = jobs, job' = [job EXCEPT ![p] = j]
    PROVE  Counted'
<1>1. Busy' = Busy
  BY DEF Busy, JobsSound
<1> QED BY <1>1 DEF Counted

LEMMA EndCounted ==
    ASSUME JobsSound, Counted, NEW p \in Procs, job[p] # Idle,
           jobs' \in {jobs, jobs - 1}, job' = [job EXCEPT ![p] = Idle]
    PROVE  Counted'
<1>1. Busy' = Busy \ {p} /\ p \in Busy
  BY DEF Busy, JobsSound
<1>2. IsFiniteSet(Busy)
  BY EvidenceAssumption, FS_Subset DEF Busy
<1>3. Cardinality(Busy') = Cardinality(Busy) - 1 /\ Cardinality(Busy) \in Nat
      /\ Cardinality(Busy') \in Nat
  BY <1>1, <1>2, FS_RemoveElement, FS_CardinalityType
<1> QED BY <1>3, EvidenceAssumption DEF Counted

LEMMA EventCounted ==
    ASSUME JobsSound, Counted, Event PROVE Counted'
<1>1. ASSUME NEW q \in Procs PROVE job'[q] = Idle <=> job[q] = Idle
  <2>1. CASE job[q].at \in {"prints", "revisions"}
    <3>1. job'[q] = [job[q] EXCEPT !.whole = FALSE] /\ "at" \in DOMAIN job[q]
      BY <2>1 DEF Event, JobsSound, Reading
    <3>2. job'[q].at = job[q].at
      BY <3>1
    <3>3. job[q].at # "idle"
      BY <2>1
    <3> QED BY <3>2, <3>3 DEF Idle
  <2>2. CASE job[q].at \notin {"prints", "revisions"}
    BY <2>2 DEF Event
  <2> QED BY <2>1, <2>2
<1>2. Busy' = Busy
  BY <1>1 DEF Busy
<1> QED BY <1>2 DEF Counted, Event

\* A job goes on to j.
LEMMA OneJobTyped ==
    ASSUME JobsSound, JobsTyped, NEW p \in Procs, NEW STATE j, JobTyped(j),
           job' = [job EXCEPT ![p] = j]
    PROVE  JobsTyped'
<1>1. \A q \in Procs : job'[q] = IF q = p THEN j ELSE job[q]
  BY DEF JobsSound
<1> QED BY <1>1 DEF JobsTyped

LEMMA EventJobsTyped ==
    ASSUME JobsSound, JobsTyped, Event PROVE JobsTyped'
<1> SUFFICES ASSUME NEW q \in Procs PROVE JobTyped(job'[q])
  BY DEF JobsTyped
<1>1. JobTyped(job[q])
  BY DEF JobsTyped
<1>2. CASE job[q].at \in {"prints", "revisions"}
  <2>1. /\ job'[q] = [job[q] EXCEPT !.whole = FALSE]
        /\ "at" \in DOMAIN job[q] /\ "whole" \in DOMAIN job[q]
    BY <1>2 DEF Event, JobsSound, Reading
  <2>2. job'[q].at = job[q].at /\ job'[q].whole = FALSE /\ job'[q].dates = job[q].dates
    BY <2>1
  <2> QED BY <1>1, <1>2, <2>2 DEF JobTyped
<1>3. CASE job[q].at \notin {"prints", "revisions"}
  <2>1. job'[q] = job[q]
    BY <1>3 DEF Event
  <2> QED BY <1>1, <2>1
<1> QED BY <1>2, <1>3

\* What a step may make of a row.
LEMMA RowMoves ==
    ASSUME IInv, Next, NEW f \in Files
    PROVE  \/ rows'[f] = rows[f]
           \/ rows'[f] = None
           \/ rows[f] # None /\ \E s \in Statuses : rows'[f] = [rows[f] EXCEPT !.status = s]
           \/ \E p \in Procs : /\ job[p].at = "upsert" /\ f \in DOMAIN job[p].dates
                               /\ job[p].dates[f] # None
                               /\ rows'[f] = Row(job[p].dates[f], job[p].revs[f],
                                                 Get(job[p].prints, f), job[p].whole)
<1>1. DOMAIN rows = Files
  BY DEF IInv, RowsSound
<1>2. ASSUME NEW p \in Procs, StoreCommit(p)
      PROVE  \/ rows'[f] = rows[f]
             \/ rows'[f] = None
             \/ /\ job[p].at = "upsert" /\ f \in DOMAIN job[p].dates
                /\ job[p].dates[f] # None
                /\ rows'[f] = Row(job[p].dates[f], job[p].revs[f],
                                  Get(job[p].prints, f), job[p].whole)
  <2> DEFINE j == job[p]
             Dates == {g \in DOMAIN j.dates : j.dates[g] # None}
             new == Row(j.dates[f], j.revs[f], Get(j.prints, f), j.whole)
  <2>1. \/ rows'[f] = rows[f]
        \/ rows'[f] = None
        \/ f \in Dates /\ rows'[f] = new
    BY <1>2 DEF StoreCommit, Upsert
  <2>2. j.at = "upsert"
    BY <1>2 DEF StoreCommit
  <2> HIDE DEF j, new
  <2> QED BY <2>1, <2>2 DEF j, new
<1>3. ASSUME NEW p \in Procs, NEW v \in Verdicts, DecideCommit(p, v)
      PROVE  \/ rows'[f] = rows[f]
             \/ rows[f] # None /\ rows'[f] = [rows[f] EXCEPT !.status = v]
  BY <1>1, <1>3 DEF DecideCommit
<1>4. ASSUME NEW g \in Files, Reopen(g)
      PROVE  \/ rows'[f] = rows[f]
             \/ rows[f] # None /\ rows'[f] = [rows[f] EXCEPT !.status = "proposed"]
  BY <1>1, <1>4 DEF Reopen
<1>5. ASSUME NEW p \in Procs, BatchCommit(p)
      PROVE  \/ rows'[f] = rows[f]
             \/ rows[f] # None /\ rows'[f] = [rows[f] EXCEPT !.status = "confirmed"]
  BY <1>5 DEF BatchCommit, Unchanged, Proposed
<1>6. \/ rows' = rows
      \/ \E p \in Procs : \/ StoreCommit(p) \/ BatchCommit(p)
                          \/ \E v \in Verdicts : DecideCommit(p, v)
      \/ \E g \in Files : Reopen(g)
  BY DEF Next, Change, AddFileAnchor, AddDirectoryAnchor, Rescan, Reextract, Appear,
         Event, StoreDates, StorePrints, StoreRevisions, StoreDecided, DecideSelect,
         DecideFresh, BatchRebuild, Fail, PlanBatch, Begin, Step
<1>7. Verdicts \subseteq Statuses /\ "proposed" \in Statuses /\ "confirmed" \in Statuses
  BY DEF Statuses, Verdicts
<1> QED BY <1>2, <1>3, <1>4, <1>5, <1>6, <1>7

LEMMA RowsTypedNext ==
    ASSUME IInv, RowsTyped, JobsTyped, Next PROVE RowsTyped'
<1> SUFFICES ASSUME NEW f \in Files PROVE Typed(rows'[f])
  BY DEF RowsTyped
<1>1. Typed(rows[f]) /\ Sound(rows[f], f)
  BY DEF RowsTyped, IInv, RowsSound
<1>2. ASSUME rows[f] # None, NEW s \in Statuses PROVE Typed([rows[f] EXCEPT !.status = s])
  <2>1. PICK row : row = rows[f] /\ row # None
    BY <1>2
  <2>2. IsRow(row) /\ row.whole \in BOOLEAN /\ Ordered(row.date)
    BY <1>1, <2>1 DEF Typed, Sound
  <2>3. LET new == [row EXCEPT !.status = s]
        IN  new.status = s /\ new.whole = row.whole /\ new.date = row.date
    BY <2>2 DEF IsRow
  <2> QED BY <2>1, <2>2, <2>3 DEF Typed
<1>3. ASSUME NEW p \in Procs, job[p].at = "upsert", f \in DOMAIN job[p].dates,
             job[p].dates[f] # None, NEW rev, NEW print
      PROVE  Typed(Row(job[p].dates[f], rev, print, job[p].whole))
  <2>1. job[p].whole \in BOOLEAN /\ Ordered(job[p].dates[f])
    BY <1>3 DEF JobsTyped, JobTyped, Storing
  <2> QED BY <2>1 DEF Typed, Row, Statuses
<1>4. Typed(None)
  BY DEF Typed
<1>5. \/ rows'[f] = rows[f]
      \/ rows'[f] = None
      \/ rows[f] # None /\ \E s \in Statuses : rows'[f] = [rows[f] EXCEPT !.status = s]
      \/ \E p \in Procs : /\ job[p].at = "upsert" /\ f \in DOMAIN job[p].dates
                          /\ job[p].dates[f] # None
                          /\ rows'[f] = Row(job[p].dates[f], job[p].revs[f],
                                            Get(job[p].prints, f), job[p].whole)
  BY RowMoves
<1>6. ASSUME NEW p \in Procs, job[p].at = "upsert", f \in DOMAIN job[p].dates,
             job[p].dates[f] # None
      PROVE  Typed(Row(job[p].dates[f], job[p].revs[f], Get(job[p].prints, f), job[p].whole))
  <2>1. PICK rev, print : rev = job[p].revs[f] /\ print = Get(job[p].prints, f)
    OBVIOUS
  <2>2. Typed(Row(job[p].dates[f], rev, print, job[p].whole))
    BY <1>3, <1>6
  <2> QED BY <2>1, <2>2
<1>7. CASE \E p \in Procs : /\ job[p].at = "upsert" /\ f \in DOMAIN job[p].dates
                            /\ job[p].dates[f] # None
                            /\ rows'[f] = Row(job[p].dates[f], job[p].revs[f],
                                              Get(job[p].prints, f), job[p].whole)
  BY <1>6, <1>7
<1> QED BY <1>1, <1>2, <1>4, <1>5, <1>7

\* A plan is made of rows that are there.
LEMMA PlanReviewed ==
    ASSUME IInv, EvidenceTyped, NEW f, Plan(f) # None
    PROVE  Reviewed(Plan(f))
<1>1. /\ Eligible(Group(Today, f), Today)
      /\ Plan(f) = [g \in Group(Today, f) |-> rows[g]]
  BY DEF Plan
<1>2. Group(Today, f) \subseteq Files
  BY GroupOnReset, EvidenceIsWellFormed DEF Today, WellFormed
<1>3. \A g \in Group(Today, f) : rows[g] # None /\ Sound(rows[g], g)
  BY <1>1, <1>2 DEF Eligible, Proposed, IInv, RowsSound
<1> QED BY <1>1, <1>2, <1>3 DEF Reviewed

LEMMA StoreShape ==
    ASSUME IInv, Shape, NEW p \in Procs,
           \/ \E x \in Floors : StoreDates(p, x)
           \/ StorePrints(p) \/ StoreRevisions(p) \/ StoreDecided(p)
    PROVE  JobsTyped' /\ Counted'
<1> DEFINE j == job[p]
<1> USE DEF IInv, Shape
<1>0. JobTyped(j)
  BY DEF JobsTyped
<1>1. CASE \E x \in Floors : StoreDates(p, x)
  <2>1. PICK x \in Floors : StoreDates(p, x)
    BY <1>1
  <2> DEFINE new == [at |-> "prints", floor |-> x, whole |-> TRUE,
                     dates |-> Reconstruct(Evidence(x))]
  <2>2. /\ job' = [job EXCEPT ![p] = new] /\ job[p] = Idle
        /\ jobs < MaxJobs /\ jobs' = jobs + 1
    BY <2>1 DEF StoreDates, Begin
  <2>3. JobTyped(new)
    BY DatesTyped DEF JobTyped, Steps, Storing
  <2>4. new # Idle
    BY DEF Idle
  <2> HIDE DEF new
  <2> QED BY <2>2, <2>3, <2>4, OneJobTyped, StartCounted
<1>2. CASE StorePrints(p)
  <2> DEFINE new == [at |-> "revisions", whole |-> j.whole, dates |-> j.dates,
                     prints |-> Prints(Evidence(j.floor))]
  <2>1. /\ job' = [job EXCEPT ![p] = new] /\ j.at = "prints" /\ jobs' = jobs
    BY <1>2 DEF StorePrints, Step
  <2>2. JobTyped(new)
    BY <1>0, <2>1 DEF JobTyped, Steps, Storing
  <2>3. new # Idle /\ j # Idle
    BY <2>1 DEF Idle
  <2> HIDE DEF new
  <2> QED BY <2>1, <2>2, <2>3, OneJobTyped, StepCounted
<1>3. CASE StoreRevisions(p)
  <2> DEFINE new == [at |-> "decided", whole |-> j.whole, dates |-> j.dates,
                     prints |-> j.prints, revs |-> revision]
  <2>1. /\ job' = [job EXCEPT ![p] = new] /\ j.at = "revisions" /\ jobs' = jobs
    BY <1>3 DEF StoreRevisions, Step
  <2>2. JobTyped(new)
    BY <1>0, <2>1 DEF JobTyped, Steps, Storing
  <2>3. new # Idle /\ j # Idle
    BY <2>1 DEF Idle
  <2> HIDE DEF new
  <2> QED BY <2>1, <2>2, <2>3, OneJobTyped, StepCounted
<1>4. CASE StoreDecided(p)
  <2> DEFINE new == [at |-> "upsert", whole |-> j.whole, dates |-> j.dates,
                     prints |-> j.prints, revs |-> j.revs,
                     decided |-> {f \in Files : rows[f] # None
                                                  /\ rows[f].status \in Verdicts}]
  <2>1. /\ job' = [job EXCEPT ![p] = new] /\ j.at = "decided" /\ jobs' = jobs
    BY <1>4 DEF StoreDecided, Step
  <2>2. JobTyped(new)
    BY <1>0, <2>1 DEF JobTyped, Steps, Storing
  <2>3. new # Idle /\ j # Idle
    BY <2>1 DEF Idle
  <2> HIDE DEF new
  <2> QED BY <2>1, <2>2, <2>3, OneJobTyped, StepCounted
<1> QED BY <1>1, <1>2, <1>3, <1>4

LEMMA DecideShape ==
    ASSUME IInv, Shape, NEW p \in Procs,
           \/ \E f \in Files : DecideSelect(p, f)
           \/ DecideFresh(p) \/ BatchRebuild(p)
    PROVE  JobsTyped' /\ Counted'
<1> DEFINE j == job[p]
<1> USE DEF IInv, Shape
<1>0. JobTyped(j) /\ Reading(j, Evidence(j.floor))
  BY DEF JobsTyped, JobsSound
<1>1. CASE \E f \in Files : DecideSelect(p, f)
  <2>1. PICK f \in Files : DecideSelect(p, f)
    BY <1>1
  <2> DEFINE new == [at |-> "freshness", file |-> f]
  <2>2. /\ job' = [job EXCEPT ![p] = new] /\ job[p] = Idle
        /\ jobs < MaxJobs /\ jobs' = jobs + 1
    BY <2>1 DEF DecideSelect, Begin
  <2>3. JobTyped(new) /\ new # Idle
    BY DEF JobTyped, Steps, Storing, Idle
  <2> HIDE DEF new
  <2> QED BY <2>2, <2>3, OneJobTyped, StartCounted
<1>2. CASE DecideFresh(p)
  <2> DEFINE new == [j EXCEPT !.at = "decide"]
  <2>1. /\ job' = [job EXCEPT ![p] = new] /\ j.at = "freshness" /\ jobs' = jobs
    BY <1>2 DEF DecideFresh, Step
  <2>2. new.at = "decide"
    BY <1>0 DEF Reading
  <2>3. JobTyped(new) /\ new # Idle /\ j # Idle
    BY <2>1, <2>2 DEF JobTyped, Steps, Storing, Idle
  <2> HIDE DEF new
  <2> QED BY <2>1, <2>3, OneJobTyped, StepCounted
<1>3. CASE BatchRebuild(p)
  <2> DEFINE new == [at |-> "batch", batch |-> plan]
  <2>1. /\ job' = [job EXCEPT ![p] = new] /\ job[p] = Idle /\ plan # None
        /\ jobs < MaxJobs /\ jobs' = jobs + 1
    BY <1>3 DEF BatchRebuild
  <2>2. JobTyped(new) /\ new # Idle
    BY <2>1 DEF JobTyped, Steps, Storing, Idle
  <2> HIDE DEF new
  <2> QED BY <2>1, <2>2, OneJobTyped, StartCounted
<1> QED BY <1>1, <1>2, <1>3

LEMMA EndShape ==
    ASSUME IInv, Shape, NEW p \in Procs,
           \/ StoreCommit(p) \/ BatchCommit(p) \/ Fail(p)
           \/ \E v \in Verdicts : DecideCommit(p, v)
    PROVE  JobsTyped' /\ Counted'
<1>1. /\ job' = [job EXCEPT ![p] = Idle] /\ jobs' \in {jobs, jobs - 1}
      /\ job[p].at \in {"upsert", "batch", "decide"} \/ job[p] # Idle
  BY DEF StoreCommit, BatchCommit, DecideCommit, Fail, End
<1>0. job[p] # Idle
  BY <1>1 DEF Idle
<1>2. JobTyped(Idle)
  BY DEF JobTyped, Idle, Steps, Storing
<1> QED BY <1>0, <1>1, <1>2, OneJobTyped, EndCounted DEF IInv, Shape

LEMMA PlanShape ==
    ASSUME IInv, Shape, Next
    PROVE  plan' # None => Reviewed(plan')
<1>1. \/ plan' = plan \/ plan' = None \/ \E f \in Files : PlanBatch(f)
  BY DEF Next, Change, AddFileAnchor, AddDirectoryAnchor, Rescan, Reextract, Appear,
         Event, StoreDates, StorePrints, StoreRevisions, StoreDecided, StoreCommit,
         DecideSelect, DecideFresh, DecideCommit, BatchRebuild, BatchCommit, Fail, Reopen,
         Begin, Step
<1>2. ASSUME NEW f \in Files, PlanBatch(f) PROVE plan' = Plan(f) /\ Plan(f) # None
  BY <1>2 DEF PlanBatch
<1> QED BY <1>1, <1>2, PlanReviewed DEF Shape

LEMMA ShapeNext == ASSUME IInv, Shape, [Next]_vars PROVE Shape'
<1> USE DEF Shape
<1>1. CASE UNCHANGED vars
  BY <1>1 DEF vars, EvidenceTyped, RowsTyped, JobsTyped, Counted, Busy
<1>2. CASE Next
  <2>1. RowsTyped' /\ (plan' # None => Reviewed(plan'))
    BY <1>2, RowsTypedNext, PlanShape
  <2>2. CASE Change
    <3>1. Event
      BY <2>2 DEF Change, AddFileAnchor, AddDirectoryAnchor, Rescan, Reextract, Appear
    <3> QED BY <2>1, <2>2, <3>1, ChangeEvidence, EventCounted, EventJobsTyped DEF IInv
  <2>3. CASE \E f \in Files : Reopen(f) \/ PlanBatch(f)
    <3>1. Quiet /\ job' = job /\ jobs' \in {jobs, jobs + 1} /\ (jobs' # jobs => jobs < MaxJobs)
      BY <2>3 DEF Reopen, PlanBatch
    <3>2. Counted' /\ JobsTyped'
      <4>1. IsFiniteSet(Busy)
        BY EvidenceAssumption, FS_Subset DEF Busy
      <4>2. Cardinality(Busy) \in Nat
        BY <4>1, FS_CardinalityType
      <4> QED BY <3>1, <4>2, EvidenceAssumption DEF Counted, Busy, JobsTyped
    <3> QED BY <2>1, <3>1, <3>2, QuietEvidence
  <2>4. ASSUME NEW p \in Procs,
               \/ \E x \in Floors : StoreDates(p, x)
               \/ StorePrints(p) \/ StoreRevisions(p) \/ StoreDecided(p)
        PROVE  Shape'
    <3>1. Quiet
      BY <2>4 DEF StoreDates, StorePrints, StoreRevisions, StoreDecided, Begin, Step
    <3> QED BY <2>1, <2>4, <3>1, StoreShape, QuietEvidence
  <2>5. ASSUME NEW p \in Procs,
               \/ \E f \in Files : DecideSelect(p, f)
               \/ DecideFresh(p) \/ BatchRebuild(p)
        PROVE  Shape'
    <3>1. Quiet
      BY <2>5 DEF DecideSelect, DecideFresh, BatchRebuild, Begin, Step
    <3> QED BY <2>1, <2>5, <3>1, DecideShape, QuietEvidence
  <2>6. ASSUME NEW p \in Procs,
               \/ StoreCommit(p) \/ BatchCommit(p) \/ Fail(p)
               \/ \E v \in Verdicts : DecideCommit(p, v)
        PROVE  Shape'
    <3>1. Quiet
      BY <2>6 DEF StoreCommit, BatchCommit, DecideCommit, Fail, End
    <3> QED BY <2>1, <2>6, <3>1, EndShape, QuietEvidence
  <2> QED BY <1>2, <2>2, <2>3, <2>4, <2>5, <2>6 DEF Next
<1> QED BY <1>1, <1>2

\* The inductive invariant of all that follows.
Inv == IInv /\ Shape

LEMMA AlwaysInv == Spec => []Inv
<1>1. Init => Inv
  BY InitInv, InitShape DEF Inv
<1>2. Inv /\ [Next]_vars => Inv'
  BY NextInv, ShapeNext DEF Inv
<1> QED BY <1>1, <1>2, PTL DEF Spec

\* Types, for every set of files, processes and evidence: a row is of a known
\* status and its range of dates never ends before it starts; the operations
\* under way never outnumber those begun (store_reconstructions, add_anchor).
THEOREM TypeCorrect == Spec => []TypeOK
<1>1. Inv => TypeOK
  <2> SUFFICES ASSUME Inv PROVE TypeOK
    OBVIOUS
  <2>1. /\ strong \in BOOLEAN /\ present \subseteq Files
        /\ revision \in [Files -> Nat] /\ DOMAIN seen = Files /\ DOMAIN own = Files
        /\ events \in 0 .. MaxEvents /\ jobs \in 0 .. MaxJobs
    BY DEF Inv, Shape, EvidenceTyped, Counted
  <2>2. DOMAIN rows = Files /\ DOMAIN job = Procs
    BY DEF Inv, IInv, RowsSound, JobsSound
  <2>3. \A f \in Files : rows[f] # None =>
            /\ rows[f].status \in Statuses /\ rows[f].whole \in BOOLEAN
            /\ rows[f].date.end = None \/ rows[f].date.start <= rows[f].date.end
    BY DEF Inv, Shape, RowsTyped, Typed, Ordered
  <2>4. \A p \in Procs : job[p].at \in Steps
    BY DEF Inv, Shape, JobsTyped, JobTyped
  <2>5. plan # None => DOMAIN plan \subseteq Files
    BY DEF Inv, Shape, Reviewed
  <2> QED BY <2>1, <2>2, <2>3, <2>4, <2>5 DEF TypeOK, Steps
<1> QED BY <1>1, AlwaysInv, PTL

LEMMA FreshAre ==
    ASSUME IInv, NEW f \in Files, rows[f] # None, rows[f].whole, Fresh(f, Today)
    PROVE  rows[f].date = Interpret(Today, f) /\ f \in present
<1>1. PICK ev : rows[f].date = Interpret(ev, f) /\ rows[f].print = Fingerprint(ev, f)
  BY DEF IInv, RowsSound, Sound, Derived
<1>2. f \in present /\ rows[f].print = Fingerprint(Today, f)
  BY DEF Fresh
<1> QED BY <1>1, <1>2, FingerprintDeterminesDate

\* A row that passes for fresh and was computed from one state of the evidence
\* has the date today's evidence gives, for every session, set of processes
\* and history of changes (store_reconstructions, evaluate_staleness).
THEOREM FreshRowsAreDerived == Spec => []FreshMeansDerived
  <1>1. IInv => FreshMeansDerived
    <2> SUFFICES ASSUME IInv, NEW f \in Files,
                        rows[f] # None, rows[f].whole, Fresh(f, Today)
                 PROVE  rows[f].date = Reconstruct(Today)[f]
      BY DEF FreshMeansDerived
    <2>1. rows[f].date = Interpret(Today, f) /\ f \in Today.present
      BY FreshAre DEF Today, Evidence
    <2> QED BY <2>1 DEF Reconstruct
  <1> QED BY <1>1, InitInv, NextInv, PTL DEF Spec

\* A fresh point date, computed from one state of the evidence, is the date
\* without any GPS reading, for every session and history: only exact anchors
\* and the clock corrections they give reach a point (reconstruct).
THEOREM PointsAreHuman == Spec => []PointsRestOnHumans
<1>1. Inv => PointsRestOnHumans
  <2> SUFFICES ASSUME Inv, NEW f \in Files, rows[f] # None, rows[f].whole,
                      rows[f].date.end = None, Fresh(f, Today)
               PROVE  Reconstruct(WithoutGps(Today))[f] = rows[f].date
    BY DEF PointsRestOnHumans
  <2> DEFINE wo == WithoutGps(Today)
  <2>1. WellFormed(Today) /\ Today.seen = seen
    BY EvidenceIsWellFormed DEF Inv, Shape, Today, Evidence
  <2>2. /\ wo.present = Today.present /\ wo.strong = Today.strong
        /\ wo.anchor = Today.anchor
        /\ wo.seen = [g \in Files |-> [seen[g] EXCEPT !.gps = None]]
    BY DEF WithoutGps, Today, Evidence
  <2>3. ASSUME NEW g \in Files
        PROVE  /\ Claim(wo, g) = Claim(Today, g) /\ Gps(wo, g) = None
               /\ wo.seen[g].doubt = Today.seen[g].doubt
    <3>1. seen[g] \in Claimed
      BY <2>1 DEF WellFormed
    <3>2. wo.seen[g] = [seen[g] EXCEPT !.gps = None]
      BY <2>2
    <3>3. /\ wo.seen[g].claim = seen[g].claim /\ wo.seen[g].gps = None
          /\ wo.seen[g].doubt = seen[g].doubt
      BY <3>1, <3>2 DEF Claimed
    <3> QED BY <2>1, <3>3 DEF Claim, Gps
  <2>4. Unlocated(Today, wo)
    BY <2>2, <2>3 DEF Unlocated
  <2>5. rows[f].date = Interpret(Today, f) /\ f \in present /\ Ordered(rows[f].date)
    BY FreshAre DEF Inv, Shape, RowsTyped, Typed
  <2>6. f \in wo.present
    BY <2>2, <2>5 DEF Today, Evidence
  <2>7. PICK ev, other : ev = Today /\ other = wo
    OBVIOUS
  <2>8. Interpret(other, f) = Interpret(ev, f)
    <3> HIDE DEF wo
    <3>1. WellFormed(ev) /\ Unlocated(ev, other)
      BY <2>1, <2>4, <2>7
    <3>2. Ordered(Interpret(ev, f)) /\ Interpret(ev, f).end = None
      BY <2>5, <2>7
    <3> QED BY <3>1, <3>2, PointWithoutGps
  <2> QED BY <2>5, <2>6, <2>7, <2>8 DEF Reconstruct
<1> QED BY <1>1, AlwaysInv, PTL

\* No recomputation deletes a decided row or changes what it is about; only its
\* verdict may change (store_reconstructions, _decide, confirm_batch).
THEOREM DecisionsStick == Spec => StickyToEngine
  <1> DEFINE Kept == \A f \in Files : Decided(rows[f]) =>
                        \E s \in Statuses : rows'[f] = [rows[f] EXCEPT !.status = s]
  <1>1. ASSUME IInv, [Next]_vars PROVE [Kept]_vars
    <2> SUFFICES ASSUME Next, NEW f \in Files, Decided(rows[f])
                 PROVE  \E s \in Statuses : rows'[f] = [rows[f] EXCEPT !.status = s]
      BY <1>1
    <2>1. ASSUME rows'[f] = rows[f]
          PROVE  \E s \in Statuses : rows'[f] = [rows[f] EXCEPT !.status = s]
      <3>1. IsRow(rows[f]) /\ rows[f].status \in Statuses
        BY <1>1 DEF IInv, RowsSound, Sound, Decided, Statuses
      <3>2. rows[f] = [rows[f] EXCEPT !.status = rows[f].status] BY <3>1 DEF IsRow
      <3> QED BY <2>1, <3>1, <3>2
    <2>2. CASE rows' = rows BY <2>1, <2>2
    <2>3. ASSUME NEW p \in Procs, StoreCommit(p) PROVE rows'[f] = rows[f]
      BY <2>3 DEF StoreCommit, Upsert, Proposed, Decided, Verdicts
    <2>4. ASSUME NEW p \in Procs, NEW v \in Verdicts, DecideCommit(p, v)
          PROVE  rows'[f] = rows[f] \/ rows'[f] = [rows[f] EXCEPT !.status = v]
      BY <1>1, <2>4 DEF DecideCommit, IInv, RowsSound
    <2>5. ASSUME NEW g \in Files, Reopen(g)
          PROVE  rows'[f] = rows[f] \/ rows'[f] = [rows[f] EXCEPT !.status = "proposed"]
      BY <1>1, <2>5 DEF Reopen, IInv, RowsSound
    <2>6. ASSUME NEW p \in Procs, BatchCommit(p)
          PROVE  rows'[f] = rows[f] \/ rows'[f] = [rows[f] EXCEPT !.status = "confirmed"]
      BY <2>6 DEF BatchCommit
    <2>7. \/ rows' = rows
          \/ \E p \in Procs : \/ StoreCommit(p) \/ BatchCommit(p)
                              \/ \E v \in Verdicts : DecideCommit(p, v)
          \/ \E g \in Files : Reopen(g)
      BY DEF Next, Change, AddFileAnchor, AddDirectoryAnchor, Rescan, Reextract, Appear,
             Event, StoreDates, StorePrints, StoreRevisions, StoreDecided, DecideSelect,
             DecideFresh, BatchRebuild, Fail, PlanBatch, Begin, Step
    <2> QED BY <2>1, <2>2, <2>3, <2>4, <2>5, <2>6, <2>7 DEF Statuses, Verdicts
  <1> QED BY <1>1, InitInv, NextInv, PTL DEF Spec, StickyToEngine

-----------------------------------------------------------------------------
(* What a batch shows its reviewer, and what it then confirms.             *)

\* Two rows of a file with one fingerprint have one date.
LEMMA OnePrintOneDate ==
    ASSUME NEW row, NEW other, NEW f, Sound(row, f), Sound(other, f),
           row # None, other # None, row.whole, other.whole, row.print = other.print
    PROVE  row.date = other.date
<1>1. PICK ev : row.date = Interpret(ev, f) /\ row.print = Fingerprint(ev, f)
  BY DEF Sound, Derived
<1>2. PICK ev2 : other.date = Interpret(ev2, f) /\ other.print = Fingerprint(ev2, f)
  BY DEF Sound, Derived
<1> QED BY <1>1, <1>2, FingerprintDeterminesDate

LEMMA ConfirmsReviewed ==
    ASSUME Inv, NEW p \in Procs, BatchCommit(p), job[p].at = "batch",
           NEW f \in DOMAIN job[p].batch
    PROVE  LET member == job[p].batch[f] IN
           /\ Proposed(rows[f]) /\ rows'[f].status = "confirmed"
           /\ rows[f].rev = member.rev /\ rows[f].print = member.print
           /\ rows[f].whole /\ member.whole => rows[f].date = member.date
<1>1. PICK batch : batch = job[p].batch
  OBVIOUS
<1>2. Reviewed(batch)
  BY <1>1 DEF Inv, Shape, JobsTyped, JobTyped
<1>3. f \in Files /\ f \in DOMAIN batch /\ batch[f] # None /\ Sound(batch[f], f)
  BY <1>1, <1>2 DEF Reviewed
<1>4. /\ Unchanged(f, batch[f])
      /\ rows'[f] = [rows[f] EXCEPT !.status = "confirmed"]
  BY <1>1, <1>3 DEF BatchCommit
<1>5. /\ Proposed(rows[f]) /\ rows[f].rev = batch[f].rev /\ rows[f].print = batch[f].print
      /\ rows[f] # None /\ Sound(rows[f], f)
  BY <1>3, <1>4 DEF Unchanged, Proposed, Inv, IInv, RowsSound
<1>6. rows'[f].status = "confirmed"
  <2>1. IsRow(rows[f])
    BY <1>5 DEF Sound
  <2>2. "status" \in DOMAIN rows[f]
    BY <2>1 DEF IsRow
  <2> QED BY <1>4, <2>2
<1>7. rows[f].whole /\ batch[f].whole => rows[f].date = batch[f].date
  <2>1. PICK row, other : row = rows[f] /\ other = batch[f]
    OBVIOUS
  <2> QED BY <1>3, <1>5, <2>1, OnePrintOneDate
<1> QED BY <1>1, <1>5, <1>6, <1>7

\* One exact date and whole, fresh rows: every date of the run is its clock's.
LEMMA OneClock ==
    ASSUME NEW ev, WellFormed(ev), NEW f0, NEW G, G = Group(ev, f0), NEW date,
           \A g \in G : date[g] = Interpret(ev, g) /\ date[g] # None,
           \A g \in G : date[g].method \in {"direct", "offset"},
           NEW D, D = {g \in G : date[g].method = "direct"}, Cardinality(D) = 1,
           \A g \in D : KnownTrue(ev, g) \notin {None, Day(Claim(ev, g))}
    PROVE  \A g \in G : /\ Claim(ev, g) # None
                        /\ Offsets(ev, g) = {date[g].start - Day(Claim(ev, g))}
                        /\ 0 \notin Offsets(ev, g)
<1>1. /\ G \subseteq ev.present /\ G \subseteq Files
      /\ \A g \in G : Claim(ev, g) # None /\ Group(ev, g) = G
  BY GroupOnReset, GroupShared DEF OnReset, WellFormed
<1>2. \A g \in G : Claim(ev, g) \in Int
  BY <1>1, KnownDates
<1>3. \A g \in G : Day(Claim(ev, g)) \in Int
  BY <1>2 DEF Day
<1>4. PICK d : D = {d}
  <2>1. IsFiniteSet(D)
    BY <1>1, EvidenceAssumption, FS_Subset
  <2> QED BY <2>1, FS_Singleton
<1>5. \A g \in G : Exact(ev, g) <=> g = d
  <2>1. ASSUME NEW g \in G PROVE Exact(ev, g) <=> g \in D
    <3>1. \A x, how : Point(x, how).method = how
      BY DEF Point
    <3> QED BY <2>1, <3>1, MethodTells
  <2> QED BY <1>4, <2>1
<1>6. d \in G /\ Exact(ev, d)
  BY <1>4, <1>5
<1>7. /\ KnownTrue(ev, d) = ev.anchor[d].start /\ KnownTrue(ev, d) \in Int
      /\ KnownTrue(ev, d) # Day(Claim(ev, d))
  BY <1>1, <1>4, <1>6, KnownDates
<1> DEFINE o == KnownTrue(ev, d) - Day(Claim(ev, d))
<1>8. o \in Int /\ o # 0
  BY <1>3, <1>6, <1>7
<1>9. ASSUME NEW g \in G PROVE Offsets(ev, g) = {o}
  <2>1. Group(ev, g) = G
    BY <1>1, <1>9
  <2>2. {h \in G : Exact(ev, h)} = {d}
    BY <1>5, <1>6
  <2> QED BY <1>7, <2>1, <2>2 DEF Offsets
<1>10. ASSUME NEW g \in G PROVE date[g].start - Day(Claim(ev, g)) = o
  <2>1. CASE g = d
    <3>1. date[g] = Point(KnownTrue(ev, d), "direct")
      BY <1>6, <1>10, <2>1, MethodTells
    <3> QED BY <2>1, <3>1 DEF Point
  <2>2. CASE g # d
    <3>1. date[g].method = "offset"
      BY <1>4, <1>10, <2>2
    <3>2. date[g] = Point(Corrected(ev, g), "offset")
      BY <1>10, <3>1, MethodTells
    <3>3. date[g].start = Corrected(ev, g)
      BY <3>2 DEF Point
    <3>4. Corrected(ev, g) = Day(Claim(ev, g)) + o
      <4> HIDE DEF o
      <4>1. \A x \in {o} : x = o
        OBVIOUS
      <4>2. (CHOOSE x \in {o} : TRUE) = o
        OBVIOUS
      <4> QED BY <1>9, <4>2 DEF Corrected
    <3>5. Day(Claim(ev, g)) \in Int
      BY <1>3, <1>10
    <3> HIDE DEF o
    <3> QED BY <1>8, <3>3, <3>4, <3>5
  <2> QED BY <2>1, <2>2
<1> HIDE DEF o
<1> QED BY <1>1, <1>8, <1>9, <1>10

LEMMA PlanOneClock ==
    ASSUME Inv, NEW f0 \in Files, PlanBatch(f0), Whole(plan'), NEW f \in DOMAIN plan'
    PROVE  /\ seen[f].claim # None
           /\ Offsets(Today, f) = {plan'[f].date.start - Day(seen[f].claim)}
           /\ 0 \notin Offsets(Today, f)
<1>1. PICK ev, G : ev = Today /\ G = Group(ev, f0)
  OBVIOUS
<1>2. plan' = [g \in G |-> rows[g]] /\ Eligible(G, ev)
  BY <1>1 DEF PlanBatch, Plan
<1>3. WellFormed(ev) /\ ev.seen = seen
  BY <1>1, EvidenceIsWellFormed DEF Inv, Shape, Today, Evidence
<1>4. PICK date : date = [g \in G |-> rows[g].date]
  OBVIOUS
<1>5. G \subseteq Files
  BY <1>1, <1>3, GroupOnReset DEF WellFormed
<1>6. ASSUME NEW g \in G
      PROVE  /\ date[g] = Interpret(ev, g) /\ date[g] # None
             /\ date[g].method \in {"direct", "offset"}
  <2>1. /\ Proposed(rows[g]) /\ Fresh(g, Today) /\ rows[g].whole /\ g \in Files
        /\ rows[g].date.method \in {"direct", "offset"}
    BY <1>1, <1>2, <1>5, <1>6 DEF Eligible, Whole
  <2>2. rows[g] # None
    BY <2>1 DEF Proposed
  <2>3. rows[g].date = Interpret(Today, g) /\ rows[g].date # None
    BY <2>1, <2>2, FreshAre DEF Inv, Shape, RowsTyped, Typed, Ordered
  <2> QED BY <1>1, <1>4, <2>1, <2>3
<1>7. PICK D : D = {g \in G : date[g].method = "direct"}
  OBVIOUS
<1>8. D = Direct(G)
  BY <1>4, <1>7 DEF Direct
<1>9. Cardinality(D) = 1 /\ \A g \in D : KnownTrue(ev, g) \notin {None, Day(Claim(ev, g))}
  BY <1>2, <1>8 DEF Eligible
<1>10. f \in G /\ plan'[f].date = date[f]
  BY <1>2, <1>4
<1>11. /\ Claim(ev, f) # None
       /\ Offsets(ev, f) = {date[f].start - Day(Claim(ev, f))}
       /\ 0 \notin Offsets(ev, f)
  BY <1>1, <1>3, <1>6, <1>7, <1>9, <1>10, OneClock
<1> QED BY <1>1, <1>3, <1>10, <1>11 DEF Claim

\* A batch confirms the rows its reviewer saw, of the same revision and
\* evidence and with the same date; and what the reviewer saw was one clock's
\* correction, by one exact anchor, unless evidence changed in the middle of a
\* computation (plan_batch_confirmation, confirm_batch).
THEOREM BatchesActOnReview == Spec => BatchActsOnReview
<1> DEFINE Confirms ==
             \A p \in Procs : job[p].at = "batch" /\ job'[p] # job[p] /\ rows' # rows =>
                \A f \in DOMAIN job[p].batch :
                    LET member == job[p].batch[f] IN
                    /\ Proposed(rows[f]) /\ rows'[f].status = "confirmed"
                    /\ rows[f].rev = member.rev /\ rows[f].print = member.print
                    /\ rows[f].whole /\ member.whole => rows[f].date = member.date
           Clock ==
             plan' # plan /\ plan' # None /\ Whole(plan') =>
                \A f \in DOMAIN plan' :
                    /\ seen[f].claim # None
                    /\ Offsets(Today, f) = {plan'[f].date.start - Day(seen[f].claim)}
                    /\ 0 \notin Offsets(Today, f)
<1>1. ASSUME Inv, [Next]_vars PROVE [Confirms]_vars
  <2> SUFFICES ASSUME Next, NEW p \in Procs, job[p].at = "batch", job'[p] # job[p],
                      rows' # rows, NEW f \in DOMAIN job[p].batch
               PROVE  LET member == job[p].batch[f] IN
                      /\ Proposed(rows[f]) /\ rows'[f].status = "confirmed"
                      /\ rows[f].rev = member.rev /\ rows[f].print = member.print
                      /\ rows[f].whole /\ member.whole => rows[f].date = member.date
    BY <1>1
  <2>1. DOMAIN job = Procs
    BY <1>1 DEF Inv, IInv, JobsSound
  <2>2. ASSUME NEW q \in Procs,
               StoreCommit(q) \/ \E v \in Verdicts : DecideCommit(q, v)
        PROVE  FALSE
    <3>1. job' = [job EXCEPT ![q] = Idle] /\ job[q].at \in {"upsert", "decide"}
      BY <2>2 DEF StoreCommit, DecideCommit, End
    <3>2. q = p
      BY <2>1, <3>1
    <3> QED BY <3>1, <3>2
  <2>3. ASSUME NEW q \in Procs, BatchCommit(q) PROVE BatchCommit(p)
    <3>1. job' = [job EXCEPT ![q] = Idle]
      BY <2>3 DEF BatchCommit, End
    <3>2. q = p
      BY <2>1, <3>1
    <3> QED BY <2>3, <3>2
  <2>4. ASSUME NEW g \in Files, Reopen(g) PROVE FALSE
    BY <2>4 DEF Reopen
  <2>5. \E q \in Procs : \/ StoreCommit(q) \/ BatchCommit(q)
                         \/ \E v \in Verdicts : DecideCommit(q, v)
    BY <2>4 DEF Next, Change, AddFileAnchor, AddDirectoryAnchor, Rescan, Reextract, Appear,
           Event, StoreDates, StorePrints, StoreRevisions, StoreDecided, DecideSelect,
           DecideFresh, BatchRebuild, Fail, PlanBatch, Begin, Step
  <2> QED BY <1>1, <2>2, <2>3, <2>5, ConfirmsReviewed
<1>2. ASSUME Inv, [Next]_vars PROVE [Clock]_vars
  <2> SUFFICES ASSUME Next, plan' # plan, plan' # None, Whole(plan'), NEW f \in DOMAIN plan'
               PROVE  /\ seen[f].claim # None
                      /\ Offsets(Today, f) = {plan'[f].date.start - Day(seen[f].claim)}
                      /\ 0 \notin Offsets(Today, f)
    BY <1>2
  <2>1. \E f0 \in Files : PlanBatch(f0)
    BY DEF Next, Change, AddFileAnchor, AddDirectoryAnchor, Rescan, Reextract, Appear,
         Event, StoreDates, StorePrints, StoreRevisions, StoreDecided, StoreCommit,
         DecideSelect, DecideFresh, DecideCommit, BatchRebuild, BatchCommit, Fail, Reopen,
         Begin, Step
  <2> QED BY <1>2, <2>1, PlanOneClock
<1>3. Spec => [][Confirms]_vars
  BY <1>1, AlwaysInv, PTL DEF Spec
<1>4. Spec => [][Clock]_vars
  BY <1>2, AlwaysInv, PTL DEF Spec
<1> QED BY <1>3, <1>4 DEF BatchActsOnReview, BatchConfirmsReviewed, BatchOneClock

=============================================================================
