----------------------------- MODULE Arithmetic -----------------------------
(***************************************************************************)
(* The two models that a training can fit, side by side: the linear model  *)
(* of LinearModel.tla and the network of Layers.tla.  They share no state. *)
(***************************************************************************)
EXTENDS Integers

CONSTANTS
  Features, Value, Regularization, Lambda, MaxWeight,          \* LinearModel
  Units, Inputs, Batches, Gradients, Weights, Gamma,           \* Layers
  MaxPasses, MaxUpdates, Total, Probs, Labels, Scale

VARIABLES
  samples, outputs, weights, reg, lambda,       \* LinearModel
  W, B, DW, DB, X, passes, updates              \* Layers

Linear == INSTANCE LinearModel WITH x <- samples, y <- outputs, w <- weights
Net    == INSTANCE Layers

linearVars == <<samples, outputs, weights, reg, lambda>>
layerVars  == <<W, B, DW, DB, X, passes, updates>>

(* The gradients of the linear model, of the layer over several passes,    *)
(* and of the whole network are derivatives (ml.go:832-876, nn.go:102-229; *)
(* LinearModel.tla, Layers.tla).                                           *)
GradientsAreSlopes ==
  /\ Linear!TypeOK /\ Linear!GradientIsSlope
  /\ Net!TypeOK /\ Net!GradientsAddUp /\ Net!BackIsSlope /\ Net!NetworkGradient

(* The step that a host makes on flat weights is the layer's own           *)
(* (ml.go:578-584, 906-943, nn.go:122-127; Layers.tla).                    *)
StepsLikeLayer == Net!HostStepsLikeLayer
=============================================================================
