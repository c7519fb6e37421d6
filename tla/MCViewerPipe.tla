---------------------------- MODULE MCViewerPipe ----------------------------
EXTENDS ViewerPipe, TLC

CONSTANT v1

MCSize == "key" :> 2 @@ "delta" :> 1 @@ "still" :> 2
=============================================================================
