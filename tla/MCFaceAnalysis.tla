--------------------------- MODULE MCFaceAnalysis ---------------------------
(***************************************************************************)
(* Directions, frames and features for FaceAnalysis. The directions are    *)
(* vectors of length 3, four of them at less than a right angle to one     *)
(* another and the others at a right angle or more to those.               *)
(***************************************************************************)
EXTENDS FaceAnalysis

MCDirections ==
  {<<3, 0, 0>>, <<2, 2, 1>>, <<2, 1, 2>>, <<1, 2, 2>>, <<-1, -2, 2>>, <<-3, 0, 0>>}
MCFeatures ==
  {<<3, 0, 0>>, <<1, 2, 2>>, <<-1, -2, 2>>, <<0, 0, 0>>, <<NonFinite, 1, 1>>, <<5>>,
   <<>>}
MCModels == {<<1>>, <<1, 2>>}
MCEmbedder == <<1>>

\* A face of 50 by 50 in a frame of 100 by 100 that passes every gate.
Marks(nose) == <<<<25, 40>>, <<75, 40>>, nose, <<44, 60>>, <<56, 60>>>>
Face ==
  [finite |-> TRUE, x |-> 25, y |-> 25, w |-> 50, h |-> 50, score |-> 90,
   marks |-> Marks(<<50, 50>>)]
Good ==
  [channels |-> 3, cols |-> 100, rows_ |-> 100, luma |-> 100, sharpness |-> 50,
   rows |-> <<Face>>]

\* Faces at and around each limit of the gates and of the poses.
Faces ==
  {[Face EXCEPT !.finite = FALSE], [Face EXCEPT !.w = 0], [Face EXCEPT !.h = -1]}
  \cup {[Face EXCEPT !.score = s] : s \in {79, 80}}
  \cup {[Face EXCEPT !.x = x] : x \in {-1, 0, 50, 51}}
  \cup {[Face EXCEPT !.x = 0, !.y = 0, !.w = w, !.h = h] :
          w \in {20, 70, 71, 100}, h \in {19, 20, 71, 99, 100}}
  \cup {[Face EXCEPT !.marks = Marks(nose)] :
          nose \in ({41, 42, 43, 50, 57, 58, 59, 100} \X {48, 49, 50, 52, 53})}
MCFrames ==
  {[Good EXCEPT !.rows = <<face>>] : face \in Faces \cup {Face}}
  \cup {[Good EXCEPT !.rows = <<Face, face>>] :
          face \in {Face, [Face EXCEPT !.finite = FALSE], [Face EXCEPT !.w = 0]}}
  \cup {[Good EXCEPT !.rows = <<>>]}
  \cup {[Good EXCEPT !.channels = c] : c \in {0, 1, 4}}
  \cup {[Good EXCEPT !.luma = l, !.sharpness = s] :
          l \in {34, 35, 225, 226}, s \in {19, 20}}
MCLooks == (MCFrames \X {<<2, 2, 1>>}) \cup ({Good} \X MCFeatures)
=============================================================================
