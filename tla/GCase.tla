------------------------------- MODULE GCase --------------------------------
(***************************************************************************)
(* Schema of the G (ocean) case: the variables of its file as def_G_case() *)
(* defines them (header_def_G_case.cpp) and as inq_G_case() looks them up  *)
(* (header_inq_G_case.cpp), two separate lists.                            *)
(***************************************************************************)
EXTENDS CaseSchema

\* The lengths of the dimensions, from the dimensions of the decompositions
\* in the map, decom.dims; the time dimension counts one record.
GDimLen(dims) ==
  [time |-> 1, nCells |-> dims[1][1], nEdges |-> dims[2][1],
   nVertices |-> dims[5][1], nVertLevelsP1 |-> dims[6][2],
   nVertLevels |-> dims[3][2], StrLen |-> 64]

\* The dimensions decompositions 0 to 5 stand for.
GGlobalDims ==
  << <<"nCells">>, <<"nEdges">>, <<"nCells", "nVertLevels">>,
     <<"nEdges", "nVertLevels">>, <<"nVertices", "nVertLevels">>,
     <<"nCells", "nVertLevelsP1">> >>

\* Number of global attributes add_gattrs() puts, without those of blob I/O,
\* and get_gattrs() gets.
GGlobalAttrs(hist) == 747

GNVars(hist) == 52

(* What def_G_case() defines, in its order. *)
GDef1 ==
     Vars(<<"maxLevelEdgeTop">>, <<"nEdges">>, "int", "int", 1, UL)
  \o Vars(<<"edgeMask">>, <<"nEdges", "nVertLevels">>, "int", "int", 3, UL)
  \o Vars(<<"cellMask">>, <<"nCells", "nVertLevels">>, "int", "int", 2, UL)
  \o Vars(<<"vertexMask">>, <<"nVertices", "nVertLevels">>, "int", "int", 4, UL)
  \o Vars(<<"maxLevelCell">>, <<"nCells">>, "int", "int", 0, UL)
  \o Vars(<<"maxLevelEdgeBot">>, <<"nEdges">>, "int", "int", 1, UL)
  \o Vars(<<"bottomDepth">>, <<"nCells">>, "double", "double", 0, UL)
  \o Vars(<<"vertCoordMovementWeights", "refZMid", "refLayerThickness", "refBottomDepth">>,
         <<"nVertLevels">>, "double", "double", -1, UL)
  \o Vars(<<"xtime">>, <<"time", "StrLen">>, "char", "char", -1, UL)
  \o Vars(<<"areaCellGlobal", "areaEdgeGlobal", "areaTriangleGlobal", "volumeCellGlobal",
         "volumeEdgeGlobal", "CFLNumberGlobal">>, <<"time">>, "double", "double", -1, UL)
  \o Vars(<<"salinitySurfaceRestoringTendency">>, <<"time", "nCells">>, "double", "double", 0,
         UL)
  \o Vars(<<"vertTransportVelocityTop", "vertGMBolusVelocityTop", "vertAleTransportTop">>,
         <<"time", "nCells", "nVertLevelsP1">>, "double", "double", 5, UL)
  \o Vars(<<"tendSSH">>, <<"time", "nCells">>, "double", "double", 0, UL)
  \o Vars(<<"layerThickness">>, <<"time", "nCells", "nVertLevels">>, "double", "double", 2, UL)
GDef2 ==
     Vars(<<"normalVelocity">>, <<"time", "nEdges", "nVertLevels">>, "double", "double", 3, UL)
  \o Vars(<<"ssh">>, <<"time", "nCells">>, "double", "double", 0, UL)
  \o Vars(<<"kineticEnergyCell", "relativeVorticityCell">>, <<"time", "nCells", "nVertLevels">>,
         "double", "double", 2, UL)
  \o Vars(<<"relativeVorticity">>, <<"time", "nVertices", "nVertLevels">>, "double", "double", 4,
         UL)
  \o Vars(<<"divergence", "BruntVaisalaFreqTop">>, <<"time", "nCells", "nVertLevels">>, "double",
         "double", 2, UL)
  \o Vars(<<"vertVelocityTop">>, <<"time", "nCells", "nVertLevelsP1">>, "double", "double", 5,
         UL)
  \o Vars(<<"velocityZonal", "velocityMeridional", "displacedDensity", "potentialDensity",
         "pressure", "zMid">>, <<"time", "nCells", "nVertLevels">>, "double", "double", 2, UL)
  \o Vars(<<"columnIntegratedSpeed">>, <<"time", "nCells">>, "double", "double", 0, UL)
  \o Vars(<<"temperatureHorizontalAdvectionTendency", "salinityHorizontalAdvectionTendency",
         "temperatureVerticalAdvectionTendency", "salinityVerticalAdvectionTendency">>, <<"time",
         "nCells", "nVertLevels">>, "double", "double", 2, UL)
GDef3 ==
     Vars(<<"temperatureVertMixTendency", "salinityVertMixTendency",
         "temperatureSurfaceFluxTendency", "salinitySurfaceFluxTendency",
         "temperatureShortWaveTendency", "temperatureNonLocalTendency", "salinityNonLocalTendency",
         "temperature", "salinity">>, <<"time", "nCells", "nVertLevels">>, "double", "double", 2, UL)

\* A fault: a block of the list moved to the front.
GDefinedRotated(hist) ==
    GDef3 \o GDef1 \o GDef2
GDefined(hist) ==
    GDef1 \o GDef2 \o GDef3

(* What inq_G_case() looks up, in its order. *)
GInq1 ==
     Inq(<<"salinitySurfaceRestoringTendency">>, "double", 0, UL)
  \o Inq(<<"vertTransportVelocityTop", "vertGMBolusVelocityTop", "vertAleTransportTop">>,
         "double", 5, UL)
  \o Inq(<<"tendSSH">>, "double", 0, UL)
  \o Inq(<<"layerThickness">>, "double", 2, UL)
  \o Inq(<<"normalVelocity">>, "double", 3, UL)
  \o Inq(<<"ssh">>, "double", 0, UL)
  \o Inq(<<"maxLevelEdgeTop">>, "int", 1, UL)
  \o Inq(<<"vertCoordMovementWeights">>, "double", -1, UL)
  \o Inq(<<"edgeMask">>, "int", 3, UL)
  \o Inq(<<"cellMask">>, "int", 2, UL)
  \o Inq(<<"vertexMask">>, "int", 4, UL)
  \o Inq(<<"refZMid", "refLayerThickness">>, "double", -1, UL)
  \o Inq(<<"xtime">>, "char", -1, UL)
  \o Inq(<<"kineticEnergyCell", "relativeVorticityCell">>, "double", 2, UL)
  \o Inq(<<"relativeVorticity">>, "double", 4, UL)
  \o Inq(<<"divergence">>, "double", 2, UL)
  \o Inq(<<"areaCellGlobal", "areaEdgeGlobal">>, "double", -1, UL)
GInq2 ==
     Inq(<<"areaTriangleGlobal", "volumeCellGlobal", "volumeEdgeGlobal", "CFLNumberGlobal">>,
         "double", -1, UL)
  \o Inq(<<"BruntVaisalaFreqTop">>, "double", 2, UL)
  \o Inq(<<"vertVelocityTop">>, "double", 5, UL)
  \o Inq(<<"velocityZonal", "velocityMeridional", "displacedDensity", "potentialDensity",
         "pressure">>, "double", 2, UL)
  \o Inq(<<"refBottomDepth">>, "double", -1, UL)
  \o Inq(<<"zMid">>, "double", 2, UL)
  \o Inq(<<"bottomDepth">>, "double", 0, UL)
  \o Inq(<<"maxLevelCell">>, "int", 0, UL)
  \o Inq(<<"maxLevelEdgeBot">>, "int", 1, UL)
  \o Inq(<<"columnIntegratedSpeed">>, "double", 0, UL)
  \o Inq(<<"temperatureHorizontalAdvectionTendency", "salinityHorizontalAdvectionTendency",
         "temperatureVerticalAdvectionTendency", "salinityVerticalAdvectionTendency",
         "temperatureVertMixTendency">>, "double", 2, UL)
GInq3 ==
     Inq(<<"salinityVertMixTendency", "temperatureSurfaceFluxTendency",
         "salinitySurfaceFluxTendency", "temperatureShortWaveTendency",
         "temperatureNonLocalTendency", "salinityNonLocalTendency", "temperature", "salinity">>,
         "double", 2, UL)

GInquired(hist) ==
    GInq1 \o GInq2 \o GInq3


=============================================================================
