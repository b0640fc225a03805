---------------------------- MODULE FaceAnalysis ----------------------------
(***************************************************************************)
(* What is computed from a frame and from a profile: the detectors         *)
(* (daemon/src/detector.cpp), the quality gates (frame_quality.cpp), the   *)
(* pose and the profile with its file format (face_profile.cpp), the       *)
(* embedder (recognizer.cpp), the diagnostic verification of a frame       *)
(* (verification_pipeline.cpp) and enrollment's use of the same parts      *)
(* (enrollment_controller.cpp:96-150).                                     *)
(*                                                                         *)
(* Numbers are integers in a unit of their own. An embedding is a vector of *)
(* integers; to normalize it is to divide by the greatest common divisor,  *)
(* so that two vectors of the same direction are equal after it. The file  *)
(* is a sequence of integers, one for each field, character and float.     *)
(* What OpenCV's networks return is external and may be anything of the     *)
(* right shape.                                                            *)
(* A definition named Fault... is the one after it with a plausible bug.   *)
(***************************************************************************)
EXTENDS Integers, Sequences, FiniteSets, SequencesExt

CONSTANTS
  PoseCount,         \* kPoseCount
  MaximumModelId, MaximumDimension, MaximumSamples,  \* kMaximum...
  Embedder,          \* SFaceEmbedder::model_id()
  Models,            \* the model ids profiles are built with
  Directions,        \* the embeddings samples have, all of one length
  SampleSizes,       \* bound: the numbers of samples a pose is built from
  Looks              \* the frames that are looked at, each with what the
                     \* embedding network returns for its first face

Magic == 70
FormatVersion == 1
NonFinite == 9999    \* a float that is not finite
Letters == 1..5      \* the characters of a model id; 0 and the others are none

VARIABLES
  sampled,  \* the samples the file's profile was built from
  bytes,    \* the decrypted profile file
  damaged,  \* it is not as serialize_face_profile() wrote it
  profile,  \* the profile that was loaded, NoProfile without one
  backend,  \* the detector's
  frame,    \* what was looked at last
  feature,
  result    \* what came of it

vars == <<sampled, bytes, damaged, profile, backend, frame, feature, result>>

Sum(a, b) == [i \in DOMAIN a |-> a[i] + b[i]]
Dot(a, b) == FoldFunction(+, 0, [i \in DOMAIN a |-> a[i] * b[i]])
Abs(n) == IF n < 0 THEN -n ELSE n
NoProfile == [model |-> <<>>, dim |-> 0, poses |-> <<>>]

----------------------------------------------------------------------------
(* Embeddings (recognizer.cpp, face_profile.cpp:50-142). *)

Usable(v) ==
  /\ v # <<>>
  /\ \A i \in DOMAIN v : v[i] # NonFinite
  /\ \E i \in DOMAIN v : v[i] # 0

Divides(d, v) == \A i \in DOMAIN v : v[i] % d = 0

\* normalized_copy() and normalize_feature() of a vector that is usable.
Normalized(v) ==
  LET top == CHOOSE n \in {Abs(v[i]) : i \in DOMAIN v} \ {0} : TRUE
      d == CHOOSE n \in 1..top :
             Divides(n, v) /\ \A m \in (n + 1)..top : ~Divides(m, v)
  IN  [i \in DOMAIN v |-> v[i] \div d]

\* cosine_similarity(), squared with its sign, as a fraction.
Cosine(a, b) ==
  LET dot == Dot(a, b) IN [num |-> dot * Abs(dot), den |-> Dot(a, a) * Dot(b, b)]
Below(r, s) == r.num * s.den < s.num * r.den

\* The sum of some of the samples: their mean, but for its length.
Total(samples, some) ==
  FoldFunctionOnSet(Sum, [i \in DOMAIN Head(samples) |-> 0], samples, some)

\* robust_centroid() leaves out this many of the samples least like their mean.
DiscardCount(n) == IF n >= 5 THEN Max({1, n \div 10}) ELSE 0

FaultRetained(samples) ==
  LET mean == Total(samples, DOMAIN samples)
      rank(i) == Cardinality({j \in DOMAIN samples :
                   Below(Cosine(samples[i], mean), Cosine(samples[j], mean))})
  IN  {i \in DOMAIN samples : rank(i) >= DiscardCount(Len(samples))}

\* The samples that are kept: sorted by similarity, then by index.
Retained(samples) ==
  LET mean == Total(samples, DOMAIN samples)
      similarity(i) == Cosine(samples[i], mean)
      before(j, i) == \/ Below(similarity(j), similarity(i))
                      \/ ~Below(similarity(i), similarity(j)) /\ j < i
      rank(i) == Cardinality({j \in DOMAIN samples : before(j, i)})
  IN  {i \in DOMAIN samples : rank(i) >= DiscardCount(Len(samples))}

\* robust_centroid() throws when either mean is zero.
HasCentroid(samples) ==
  /\ Usable(Total(samples, DOMAIN samples))
  /\ Usable(Total(samples, Retained(samples)))

Centroid(samples) == Normalized(Total(samples, Retained(samples)))

----------------------------------------------------------------------------
(* Profiles and their file (face_profile.cpp:296-451, 586-607). *)

ValidModelId(id) == Len(id) \in 1..MaximumModelId /\ ToSet(id) \subseteq Letters

\* validate_face_profile()
ValidProfile(p) ==
  /\ ValidModelId(p.model)
  /\ p.dim \in 1..MaximumDimension
  /\ Len(p.poses) = PoseCount
  /\ \A i \in 1..PoseCount :
       /\ p.poses[i].pose = i - 1
       /\ p.poses[i].count \in 1..MaximumSamples
       /\ Len(p.poses[i].centroid) = p.dim
       /\ Usable(p.poses[i].centroid)
       /\ Normalized(p.poses[i].centroid) = p.poses[i].centroid

\* finalize(): samples has a sequence of samples for each pose.
Finalize(model, samples) ==
  [model |-> model, dim |-> Len(Head(samples[1])),
   poses |-> [i \in 1..PoseCount |->
     [pose |-> i - 1, count |-> Len(samples[i]),
      centroid |-> Centroid(samples[i])]]]

\* serialize_face_profile()
Serialize(p) ==
  <<Magic, FormatVersion, 0, Len(p.model), Len(p.poses), p.dim>> \o p.model
  \o FlattenSeq([i \in 1..PoseCount |->
       <<p.poses[i].pose, 0, 0, 0, p.poses[i].count>> \o p.poses[i].centroid])

\* Where the i-th pose begins in the file.
PoseStart(b, i) == 7 + b[4] + (i - 1) * (5 + b[6])

FaultParses(b) ==
  /\ Len(b) >= 6
  /\ b[1] = Magic /\ b[2] = FormatVersion /\ b[3] = 0
  /\ b[4] \in 1..MaximumModelId /\ b[5] = PoseCount /\ b[6] \in 1..MaximumDimension
  /\ Len(b) >= PoseStart(b, PoseCount + 1) - 1
  /\ \A i \in 1..PoseCount, k \in 1..3 : b[PoseStart(b, i) + k] = 0

\* The fields are what they must be, and nothing is missing or left over.
Parses(b) ==
  /\ Len(b) >= 6
  /\ b[1] = Magic /\ b[2] = FormatVersion /\ b[3] = 0
  /\ b[4] \in 1..MaximumModelId /\ b[5] = PoseCount /\ b[6] \in 1..MaximumDimension
  /\ Len(b) = PoseStart(b, PoseCount + 1) - 1
  /\ \A i \in 1..PoseCount, k \in 1..3 : b[PoseStart(b, i) + k] = 0

Fields(b) ==
  [model |-> SubSeq(b, 7, 6 + b[4]), dim |-> b[6],
   poses |-> [i \in 1..PoseCount |->
     [pose |-> b[PoseStart(b, i)], count |-> b[PoseStart(b, i) + 4],
      centroid |-> SubSeq(b, PoseStart(b, i) + 5, PoseStart(b, i) + 4 + b[6])]]]

\* deserialize_face_profile(), which throws in every other case.
Deserializes(b) == Parses(b) /\ ValidProfile(Fields(b))

\* FaceProfile::score(): the first of the poses that are most similar.
Match(p, v) ==
  LET similarity(i) == Cosine(v, p.poses[i].centroid)
      better(best, i) == IF Below(similarity(best), similarity(i)) THEN i ELSE best
  IN  FoldLeft(better, 1, [i \in 1..PoseCount |-> i])

----------------------------------------------------------------------------
(* Frames. A frame has rows, what a face network returns for it; a row's marks *)
(* are its five landmarks: right and left eye, nose, right and left corner of  *)
(* the mouth.                                                                  *)

\* The gates' limits, the detector's score and the face's part of the frame in
\* percent.
Minimum == [score |-> 80, luma |-> 35, sharpness |-> 20, area |-> 4]
Maximum == [luma |-> 225, area |-> 70]

NoFaces == <<>>

\* What a camera delivers, and a face network returns for it.
Images ==
  [channels : Nat, cols : Nat, rows_ : Nat, luma : Int, sharpness : Int,
   rows : Seq([finite : BOOLEAN, x : Int, y : Int, w : Int, h : Int, score : Int,
               marks : Seq(Int \X Int)])]

\* YuNet's rows that are not finite or whose box is empty are skipped.
KeepRow(faces, r) ==
  IF r.finite /\ r.w > 0 /\ r.h > 0 THEN Append(faces, r) ELSE faces

\* NoopFaceDetector, HaarFaceDetector and YuNetFaceDetector::detect(). A Haar box has
\* no landmarks.
Detect(kind, f) ==
  CASE kind = "noop" \/ f.channels = 0 -> NoFaces
    [] kind = "haar" /\ f.channels # 0 ->
         [i \in DOMAIN f.rows |-> [f.rows[i] EXCEPT !.score = 100, !.marks = <<>>]]
    [] kind = "yunet" /\ f.channels # 0 ->
         FoldLeft(KeepRow, NoFaces, f.rows)

\* Both networks want a color image: cvtColor() and setInputSize() throw without.
DetectThrows(kind, f) == kind # "noop" /\ f.channels = 1

InFrame(f, p) == p[1] \in 0..(f.cols - 1) /\ p[2] \in 0..(f.rows_ - 1)

\* valid_landmarks()
ValidLandmarks(f, r) == Len(r.marks) = 5 /\ \A i \in 1..5 : InFrame(f, r.marks[i])

BoxInside(f, r) ==
  r.x >= 0 /\ r.y >= 0 /\ r.w > 0 /\ r.h > 0 /\ r.x + r.w <= f.cols
    /\ r.y + r.h <= f.rows_

GateOrder ==
  <<"invalid_frame", "face_missing", "multiple_faces", "detection_confidence_low",
    "face_box_invalid", "landmarks_invalid", "face_too_small", "face_too_large",
    "low_light", "overexposed", "blurred">>

\* Whether a gate refuses a frame that passed those before it.
Refuses(gate, f, faces) ==
  LET r == Head(faces) IN
  CASE gate = "invalid_frame" -> f.channels \notin {1, 3}
    [] gate = "face_missing" -> faces = NoFaces
    [] gate = "multiple_faces" -> Len(faces) # 1
    [] gate = "detection_confidence_low" -> r.score < Minimum.score
    [] gate = "face_box_invalid" -> ~BoxInside(f, r)
    [] gate = "landmarks_invalid" -> ~ValidLandmarks(f, r)
    [] gate = "face_too_small" -> 100 * r.w * r.h < Minimum.area * f.cols * f.rows_
    [] gate = "face_too_large" -> 100 * r.w * r.h > Maximum.area * f.cols * f.rows_
    [] gate = "low_light" -> f.luma < Minimum.luma
    [] gate = "overexposed" -> f.luma > Maximum.luma
    [] gate = "blurred" -> f.sharpness < Minimum.sharpness

FaultQuality(f, faces) ==
  LET firsts == {i \in DOMAIN GateOrder \ {3} :
        /\ \A j \in (1..(i - 1)) \ {3} : ~Refuses(GateOrder[j], f, faces)
        /\ Refuses(GateOrder[i], f, faces)}
  IN  IF firsts = {} THEN "approved" ELSE GateOrder[CHOOSE i \in firsts : TRUE]

\* evaluate_frame_quality(): the reason of the first gate that refuses the frame.
Quality(f, faces) ==
  LET firsts == {i \in DOMAIN GateOrder :
        /\ \A j \in 1..(i - 1) : ~Refuses(GateOrder[j], f, faces)
        /\ Refuses(GateOrder[i], f, faces)}
  IN  IF firsts = {} THEN "approved" ELSE GateOrder[CHOOSE i \in firsts : TRUE]

FaultPose(m) ==
  LET span == 2 * Max({Abs(m[2][1] - m[1][1]), 1})
      height == Max({m[4][2] + m[5][2] - m[1][2] - m[2][2], 2})
      yaw == 2 * m[3][1] - m[1][1] - m[2][1]
      pitch == 2 * m[3][2] - m[1][2] - m[2][2]
  IN  IF 100 * yaw < -16 * span THEN "left"
      ELSE IF 100 * yaw >= 16 * span THEN "right"
      ELSE IF 100 * pitch <= 40 * height THEN "up"
      ELSE IF 100 * pitch >= 62 * height THEN "down" ELSE "center"

\* classify_pose(), with everything doubled to stay with integers.
Pose(m) ==
  LET span == 2 * Max({Abs(m[2][1] - m[1][1]), 1})
      height == Max({m[4][2] + m[5][2] - m[1][2] - m[2][2], 2})
      yaw == 2 * m[3][1] - m[1][1] - m[2][1]
      pitch == 2 * m[3][2] - m[1][2] - m[2][2]
  IN  IF 100 * yaw <= -16 * span THEN "left"
      ELSE IF 100 * yaw >= 16 * span THEN "right"
      ELSE IF 100 * pitch <= 40 * height THEN "up"
      ELSE IF 100 * pitch >= 62 * height THEN "down" ELSE "center"

\* SFaceEmbedder::align_and_embed() throws, before or after the network.
EmbedThrows(f, r, v) == f.channels # 3 \/ Len(r.marks) # 5 \/ ~Usable(v)

----------------------------------------------------------------------------
NoResult == [status |-> "none", reason |-> "none", pose |-> "none", match |-> 0]
Result(status, reason) == [NoResult EXCEPT !.status = status, !.reason = reason]

NoFrame ==
  [channels |-> 0, cols |-> 0, rows_ |-> 0, luma |-> 0, sharpness |-> 0,
   rows |-> <<>>]

\* The builder takes models and samples as its constructor and add_sample() do; its
\* samples are normalized, so all of one length, and no sum of them overflows. A
\* frame's size and what a network returns for it are numbers.
ASSUME AnalysisAssumption ==
  /\ \A n \in {PoseCount, MaximumModelId, MaximumDimension, MaximumSamples} :
       n \in Nat /\ n > 0
  /\ \A id \in Models : id \in Seq(Letters) /\ ValidModelId(id)
  /\ SampleSizes \subseteq 1..MaximumSamples
  /\ IsFiniteSet(Directions)
  /\ \E dim \in 1..MaximumDimension : \A v \in Directions : v \in [1..dim -> Int]
  /\ \A v, w \in Directions : Usable(v) /\ Dot(v, v) = Dot(w, w)
  /\ \A v \in Directions : \A i \in DOMAIN v : MaximumSamples * Abs(v[i]) < NonFinite
  /\ \A look \in Looks : look[1] \in Images /\ look[2] \in Seq(Int)

\* A behaviour is one file, or none, and one frame: what comes of a frame depends on
\* no frame before it.
Init ==
  /\ sampled = <<>>
  /\ bytes = <<>>
  /\ damaged = FALSE
  /\ profile = NoProfile
  /\ backend \in {"noop", "haar", "yunet"}
  /\ frame = NoFrame
  /\ feature = <<>>
  /\ result = NoResult

\* The first pose is sampled in any way the bounds allow, the others once.
Samplings ==
  {<<SetToSeq(S)>> \o [i \in 1..(PoseCount - 1) |-> <<CHOOSE v \in Directions : TRUE>>] :
     S \in {T \in SUBSET Directions : Cardinality(T) \in SampleSizes}}

\* finalize() and serialize_face_profile(), unless a mean is zero.
Writes(model, samples) ==
  /\ bytes = <<>> /\ frame = NoFrame
  /\ \A i \in 1..PoseCount : HasCentroid(samples[i])
  /\ sampled' = samples
  /\ bytes' = Serialize(Finalize(model, samples))
  /\ UNCHANGED <<damaged, profile, backend, frame, feature, result>>

\* The file may be of another version, of another program or cut off.
Damaged ==
  {SubSeq(bytes, 1, n) : n \in 0..(Len(bytes) - 1)}
  \cup {Append(bytes, 0)}
  \cup {[bytes EXCEPT ![i] = n] : i \in DOMAIN bytes, n \in {0, 1, 2, NonFinite}}

Damages ==
  /\ bytes # <<>> /\ ~damaged /\ profile = NoProfile
  /\ bytes' \in Damaged \ {bytes}
  /\ damaged' = TRUE
  /\ UNCHANGED <<sampled, profile, backend, frame, feature, result>>

\* load_encrypted_face_profile() and the pipeline's constructor.
Loads ==
  /\ bytes # <<>> /\ profile = NoProfile
  /\ profile' = IF Deserializes(bytes) THEN Fields(bytes) ELSE NoProfile
  /\ result' = Result(IF Deserializes(bytes) THEN "loaded" ELSE "error", "none")
  /\ UNCHANGED <<sampled, bytes, damaged, backend, frame, feature>>

\* DiagnosticVerificationPipeline::evaluate()
Verdict(f, v) ==
  LET faces == Detect(backend, f)
      quality == Quality(f, faces)
  IN  IF DetectThrows(backend, f) THEN Result("error", "pipeline_error")
      ELSE IF quality # "approved" THEN Result("rejected", quality)
      ELSE IF EmbedThrows(f, Head(faces), v) \/ profile.model # Embedder
                \/ Len(v) # profile.dim
      THEN Result("error", "pipeline_error")
      ELSE [Result("score_available", "threshold_not_calibrated")
              EXCEPT !.match = Match(profile, Normalized(v))]

Evaluates(f, v) ==
  /\ profile # NoProfile /\ frame = NoFrame
  /\ frame' = f /\ feature' = v
  /\ result' = Verdict(f, v)
  /\ UNCHANGED <<sampled, bytes, damaged, profile, backend>>

\* EnrollmentController::capture() up to add_sample().
Sample(f, v) ==
  LET faces == Detect(backend, f)
      quality == Quality(f, faces)
  IN  IF DetectThrows(backend, f) THEN Result("rejected", "detector_inference_failed")
      ELSE IF quality # "approved" THEN Result("rejected", quality)
      ELSE IF EmbedThrows(f, Head(faces), v)
      THEN Result("rejected", "embedding_inference_failed")
      ELSE [Result("sample", "none") EXCEPT !.pose = Pose(Head(faces).marks)]

Examines(f, v) ==
  /\ bytes = <<>> /\ frame = NoFrame
  /\ frame' = f /\ feature' = v
  /\ result' = Sample(f, v)
  /\ UNCHANGED <<sampled, bytes, damaged, profile, backend>>

Next ==
  \/ \E model \in Models, samples \in Samplings : Writes(model, samples)
  \/ Damages \/ Loads
  \/ \E look \in Looks : Evaluates(look[1], look[2]) \/ Examines(look[1], look[2])

Spec == Init /\ [][Next]_vars
----------------------------------------------------------------------------
\* A file is read back as the profile that was written, and no other file is read
\* as anything but what would be written in the same way: no field, no cut and
\* nothing behind the end goes unnoticed (face_profile.cpp:396-451).
ReadsWhatIsWritten ==
  /\ profile # NoProfile => Serialize(profile) = bytes
  /\ ~damaged => result.status # "error" \/ frame # NoFrame

\* Of five samples or more, the one that is unlike the others has no say in the
\* centroid that is stored (face_profile.cpp:105-134): when the others agree with
\* one another and all disagree with it, so does the centroid.
OutlierHasNoSay ==
  ~damaged /\ profile # NoProfile =>
    LET samples == sampled[1]
        outliers == {i \in DOMAIN samples : \A j \in DOMAIN samples \ {i} :
                       /\ Dot(samples[i], samples[j]) <= 0
                       /\ \A k \in DOMAIN samples \ {i} :
                            Dot(samples[j], samples[k]) > 0}
    IN  Len(samples) >= 5 =>
          \A i \in outliers : \A j \in DOMAIN samples \ {i} :
            Dot(profile.poses[1].centroid, samples[j]) > 0
              /\ Dot(profile.poses[1].centroid, samples[i]) <= 0

\* A score, or a sample for a profile, comes only from a frame in which the landmark
\* detector saw exactly one face, which lies in the frame with its five landmarks and
\* takes up 4 to 70 percent of it, sharp and lit enough, with an embedding of the
\* profile's own model; and the score is that of the most similar pose, the first of
\* them (verification_pipeline.cpp:45-78, frame_quality.cpp:54-137,
\* face_profile.cpp:339-364).
ScoreIsEarned ==
  result.status \in {"score_available", "sample"} =>
    /\ backend = "yunet" /\ frame.channels = 3
    /\ LET real == {i \in DOMAIN frame.rows : LET r == frame.rows[i] IN
                       r.finite /\ r.w > 0 /\ r.h > 0}
       IN  \E i \in DOMAIN frame.rows : LET r == frame.rows[i] IN
             /\ real = {i} /\ r.score >= 80
             /\ r.x >= 0 /\ r.x + r.w <= frame.cols
             /\ r.y >= 0 /\ r.y + r.h <= frame.rows_
             /\ Len(r.marks) = 5
             /\ \A k \in 1..5 : /\ r.marks[k][1] \in 0..(frame.cols - 1)
                               /\ r.marks[k][2] \in 0..(frame.rows_ - 1)
             /\ 25 * r.w * r.h >= frame.cols * frame.rows_
             /\ 10 * r.w * r.h <= 7 * frame.cols * frame.rows_
    /\ frame.luma \in 35..225 /\ frame.sharpness >= 20
    /\ Usable(feature)
    /\ result.status = "score_available" =>
         /\ profile.model = Embedder
         /\ \A i \in 1..PoseCount :
              LET mine == Cosine(feature, profile.poses[result.match].centroid)
                  other == Cosine(feature, profile.poses[i].centroid)
              IN  ~Below(mine, other) /\ (i < result.match => Below(other, mine))

\* The other way around it is the other pose: a mirrored face is classified as the
\* mirrored pose, also on the thresholds (face_profile.cpp:277-293).
PoseIsMirrored ==
  \A i \in DOMAIN frame.rows :
    LET m == frame.rows[i].marks
        flip(p) == <<frame.cols - 1 - p[1], p[2]>>
        mirrored == <<flip(m[2]), flip(m[1]), flip(m[3]), flip(m[5]), flip(m[4])>>
    IN  Len(m) = 5 =>
          Pose(mirrored) = CASE Pose(m) = "left" -> "right"
                             [] Pose(m) = "right" -> "left"
                             [] OTHER -> Pose(m)
=============================================================================
