--------------------------- MODULE ManifestTables ---------------------------
(***************************************************************************)
(* COMPONENTS of tools/of_manifest.py, the curated half of the manifest:   *)
(* the components of each solver in the order of the table, with their     *)
(* classification, their status and the optional fields that are set.  The *)
(* prose and the paths in the fields are left out.  A component that is    *)
(* Ours cites no OpenFOAM file ("-").                                      *)
(***************************************************************************)
EXTENDS Sequences

Component(name, class, status, fields, cites) ==
  [name |-> name, classification |-> class, status |-> status,
   fields |-> fields, cites |-> cites]
Ported(name, class, status, fields) ==
  Component(name, class, status, fields, TRUE)
Ours(name, class, status, fields) ==
  Component(name, class, status, fields, FALSE)
-----------------------------------------------------------------------------
simple_1 == <<
  Ported("simpleFoam_main", "HOST_ONLY", "REIMPLEMENT",
     {"brae_reference", "brae_cuda", "brae_target", "validation", "note"}),
  Ported("createFields", "HOST_ONLY", "REIMPLEMENT",
     {"brae_reference", "brae_target", "validation", "note"}),
  Ported("UEqn", "GPU_REQUIRED", "REIMPLEMENT",
     {"brae_reference", "brae_cuda", "brae_target", "validation", "note"}),
  Ported("pEqn", "GPU_REQUIRED", "REIMPLEMENT",
     {"brae_reference", "brae_cuda", "brae_target", "validation", "note"}),
  Ported("simpleControl", "CONFIGURATION", "REIMPLEMENT",
     {"brae_reference", "brae_target", "validation", "note", "schema_for"}),
  Ported("relaxationFactors", "CONFIGURATION", "REVALIDATE_EXISTING",
     {"brae_existing", "brae_target", "note"}),
  Ported("fvm_div", "SHARED_NUMERICAL", "REVALIDATE_EXISTING",
     {"brae_existing", "brae_target", "note"}),
  Ported("fvm_laplacian", "SHARED_NUMERICAL", "REVALIDATE_EXISTING",
     {"brae_existing", "brae_target"}),
  Ported("fvc_grad", "SHARED_NUMERICAL", "REVALIDATE_EXISTING",
     {"brae_existing", "brae_reference", "brae_target", "note"}),
  Ported("fvc_div", "SHARED_NUMERICAL", "REVALIDATE_EXISTING",
     {"brae_existing", "brae_reference", "brae_target"}),
  Ported("fvc_flux", "SHARED_NUMERICAL", "REVALIDATE_EXISTING",
     {"brae_existing", "brae_target"}),
  Ported("fvc_snGrad", "SHARED_NUMERICAL", "REIMPLEMENT",
     {"brae_target", "note"}),
  Ported("fvMatrix_A", "SHARED_NUMERICAL", "REVALIDATE_EXISTING",
     {"brae_existing", "brae_reference", "brae_target", "note", "of_line"}) >>
simple_2 == <<
  Ported("fvMatrix_H", "SHARED_NUMERICAL", "REVALIDATE_EXISTING",
     {"brae_existing", "brae_reference", "brae_target", "note", "of_line"}),
  Ported("fvMatrix_H1", "SHARED_NUMERICAL", "REIMPLEMENT",
     {"brae_driver", "brae_target", "validation", "note", "of_line"}),
  Ported("fvMatrix_relax", "SHARED_NUMERICAL", "REVALIDATE_EXISTING",
     {"brae_existing", "brae_target", "note", "of_line"}),
  Ported("fvMatrix_setReference", "SHARED_NUMERICAL", "REVALIDATE_EXISTING",
     {"brae_existing", "brae_target", "note", "of_line"}),
  Ported("fvMatrix_flux", "SHARED_NUMERICAL", "REVALIDATE_EXISTING",
     {"brae_existing", "brae_target", "note"}),
  Ported("constrainHbyA", "SHARED_NUMERICAL", "REVALIDATE_EXISTING",
     {"brae_existing", "brae_target", "note"}),
  Ported("adjustPhi", "SHARED_NUMERICAL", "REVALIDATE_EXISTING",
     {"brae_existing", "brae_target"}),
  Ported("constrainPressure", "SHARED_NUMERICAL", "PORTED",
     {"brae_existing", "brae_target", "validation", "note"}),
  Ported("setRefCell", "CONFIGURATION", "REVALIDATE_EXISTING",
     {"brae_existing", "brae_target"}),
  Ported("continuityErrs", "HOST_ONLY", "REVALIDATE_EXISTING",
     {"brae_existing", "brae_target"}),
  Ported("turbulenceModel_New", "DISPATCH", "REIMPLEMENT",
     {"brae_target", "note", "of_line", "selection_base"}),
  Ported("divDevReff", "SHARED_NUMERICAL", "REVALIDATE_EXISTING",
     {"brae_existing", "brae_reference", "brae_target", "validation", "note"}),
  Ported("singlePhaseTransportModel", "MODEL", "REVALIDATE_EXISTING",
     {"brae_target", "note"}) >>
simple_3 == <<
  Ported("SpalartAllmaras", "MODEL", "REVALIDATE_EXISTING",
     {"brae_existing", "brae_reference", "brae_target", "validation", "note", "schema_for"}),
  Ported("limitedSnGrad", "SHARED_NUMERICAL", "PORTED",
     {"brae_existing", "brae_reference", "brae_target", "validation", "note"}),
  Ported("rotorDiskSource", "MODEL", "REVALIDATE_EXISTING",
     {"brae_existing", "brae_reference", "brae_target", "validation", "note"}),
  Ported("cellLimitedGrad", "SHARED_NUMERICAL", "PORTED",
     {"brae_existing", "brae_reference", "brae_target", "validation", "note"}) >>
simple_4 == <<
  Ported("kEpsilon", "MODEL", "REVALIDATE_EXISTING",
     {"brae_existing", "brae_reference", "brae_target", "validation", "note"}),
  Ported("kOmegaSST", "MODEL", "REVALIDATE_EXISTING",
     {"brae_existing", "brae_reference", "brae_target", "validation", "note"}),
  Ported("bound", "SHARED_NUMERICAL", "PORTED",
     {"brae_reference", "brae_target", "validation", "note"}) >>
simple_5 == <<
  Ported("MRFZoneList", "SHARED_NUMERICAL", "REVALIDATE_EXISTING",
     {"brae_existing", "brae_reference", "brae_target", "validation", "note", "schema_for"}),
  Ported("fvOptions", "DISPATCH", "REVALIDATE_EXISTING",
     {"brae_existing", "brae_target", "note", "selection_base"}),
  Ported("lduMatrix_solver", "LINEAR_SOLVER", "REUSE_EXISTING",
     {"brae_existing", "brae_target", "note", "selection_base"}),
  Ported("GAMGPreconditioner", "LINEAR_SOLVER", "REUSE_EXISTING",
     {"brae_existing", "brae_target", "note", "schema_for"}),
  Ported("DILUPreconditioner", "LINEAR_SOLVER", "REUSE_EXISTING",
     {"brae_existing", "brae_target", "note"}) >>
simple_6 == <<
  Ported("GAMGSolver", "LINEAR_SOLVER", "UNSUPPORTED",
     {"brae_target", "note", "schema_for"}) >>
simple_7 == <<
  Ported("dispatch", "DISPATCH", "REIMPLEMENT",
     {"brae_cuda", "brae_target", "validation", "note"}) >>
simple_8 == <<
  Ours("cuda_vs_reference", "GPU_REQUIRED", "REVALIDATE_EXISTING",
     {"brae_existing", "brae_target", "validation", "note"}),
  Ours("deterministic_assembly", "GPU_REQUIRED", "REUSE_EXISTING",
     {"brae_existing", "brae_target", "validation", "note"}),
  Ported("actuationDiskSource", "MODEL", "PORTED",
     {"brae_existing", "brae_reference", "brae_target", "validation", "note"}),
  Ported("atmBoundaryLayer", "BOUNDARY_CONDITION", "PORTED",
     {"brae_existing", "brae_target", "validation", "note"}),
  Ported("fusedGauss", "SHARED_NUMERICAL", "EQUIVALENT",
     {"brae_existing", "brae_target", "validation", "note"}),
  Ported("kOmegaSSTLM", "MODEL", "PORTED",
     {"brae_existing", "brae_reference", "brae_target", "validation", "note"}),
  Ported("turbulenceSchemesInV2", "SHARED_NUMERICAL", "PORTED",
     {"brae_existing", "brae_target", "validation", "note"}),
  Ported("lmLambdaIteration", "MODEL", "PORTED",
     {"brae_existing", "brae_reference", "brae_target", "validation", "note"}),
  Ported("linearUpwindTurbulence", "SHARED_NUMERICAL", "PORTED",
     {"brae_reference", "brae_target", "validation", "note"}),
  Ported("amgInterfaceAgglomeration", "SHARED_NUMERICAL", "PORTED",
     {"brae_existing", "brae_target", "validation", "note"}),
  Ported("cyclicAMI", "BOUNDARY_CONDITION", "CPP_REFERENCE",
     {"brae_existing", "brae_reference", "brae_target", "validation", "note"}),
  Ported("interfaceFluxOnRestart", "SHARED_NUMERICAL", "PORTED",
     {"brae_existing", "brae_target", "validation", "note"}),
  Ported("coupledInterfaceConvection", "SHARED_NUMERICAL", "PORTED",
     {"brae_driver", "brae_reference", "brae_target", "validation", "note"}),
  Ported("tutorialCoverage", "COVERAGE", "COMPLETE",
     {"validation", "note"}) >>
simple_9 == <<
  Ported("epsilonWallFunction_lowReCorrection", "SHARED_NUMERICAL", "PORTED",
     {"brae_driver", "brae_reference", "brae_target", "validation", "note"}),
  Ported("nutLowReWallFunction", "SHARED_NUMERICAL", "SUBSTITUTED",
     {"brae_existing", "validation", "note"}),
  Ported("wallFunctionCellSelection", "SHARED_NUMERICAL", "PORTED",
     {"brae_target", "validation", "note"}),
  Ported("cellWallDist_meshWave_complexGeometry", "SHARED_NUMERICAL", "PORTED",
     {"brae_target", "validation", "note"}) >>
inter_1 == <<
  Ported("interFoam_main", "HOST_ONLY", "REIMPLEMENT",
     {"brae_reference", "brae_target", "validation", "note"}) >>
inter_2 == <<
  Ported("interFoam_alphaEqn", "SHARED_NUMERICAL", "REIMPLEMENT",
     {"brae_reference", "brae_target", "validation", "note"}) >>
inter_3 == <<
  Ported("interFoam_MULES", "SHARED_NUMERICAL", "REIMPLEMENT",
     {"brae_reference", "brae_target", "validation", "note"}),
  Ported("interFoam_CMULES", "SHARED_NUMERICAL", "REIMPLEMENT",
     {"brae_reference", "brae_target", "validation", "note"}),
  Ported("interFoam_interfaceProperties", "MODEL", "REIMPLEMENT",
     {"brae_reference", "brae_target", "validation", "note"}),
  Ported("interFoam_twoPhaseMixture", "MODEL", "REIMPLEMENT",
     {"brae_reference", "brae_target", "validation", "note"}),
  Ported("interFoam_immiscibleMixture", "MODEL", "REIMPLEMENT",
     {"brae_reference", "brae_target", "validation", "note"}) >>
inter_4 == <<
  Ported("interFoam_UEqn", "SHARED_NUMERICAL", "REIMPLEMENT",
     {"brae_reference", "brae_target", "validation", "note"}) >>
inter_5 == <<
  Ported("interFoam_pEqn", "SHARED_NUMERICAL", "REIMPLEMENT",
     {"brae_reference", "brae_target", "validation", "note"}) >>
inter_6 == <<
  Ported("interFoam_smoothSolver", "SHARED_NUMERICAL", "REIMPLEMENT",
     {"brae_reference", "brae_target", "validation", "note"}) >>
inter_7 == <<
  Ported("interFoam_turbulence", "GPU_REQUIRED", "REIMPLEMENT",
     {"brae_reference", "brae_target", "validation", "note"}) >>
inter_8 == <<
  Ported("interFoam_kOmegaSST", "GPU_REQUIRED", "REIMPLEMENT",
     {"brae_reference", "validation", "note"}) >>
inter_9 == <<
  Ported("interFoam_MRF", "GPU_REQUIRED", "REIMPLEMENT",
     {"brae_reference", "validation", "note"}) >>
inter_10 == <<
  Ported("interFoam_fvOptions", "GPU_REQUIRED", "REIMPLEMENT",
     {"brae_reference", "validation", "note"}),
  Ported("interFoam_mangroves", "GPU_REQUIRED", "REIMPLEMENT",
     {"brae_reference", "validation", "note"}),
  Ported("interFoam_PBiCG", "GPU_REQUIRED", "REIMPLEMENT",
     {"brae_reference", "validation", "note"}) >>
inter_11 == <<
  Ported("interFoam_CrankNicolson", "GPU_REQUIRED", "REIMPLEMENT",
     {"brae_reference", "validation", "note"}),
  Ported("interFoam_setRDeltaT", "HOST_ONLY", "REIMPLEMENT",
     {"brae_reference", "validation", "note"}),
  Ported("interFoam_localEuler", "GPU_REQUIRED", "REIMPLEMENT",
     {"brae_reference", "validation", "note"}),
  Ported("interFoam_nutkRoughWallFunction", "GPU_REQUIRED", "REIMPLEMENT",
     {"brae_reference", "validation", "note"}) >>
inter_12 == <<
  Ported("interFoam_outletPhaseMeanVelocity", "GPU_REQUIRED", "REIMPLEMENT",
     {"brae_reference", "validation", "note"}),
  Ported("interFoam_piovTangentialVelocity", "GPU_REQUIRED", "REIMPLEMENT",
     {"brae_reference", "validation", "note"}),
  Ported("interFoam_cacheGradU", "GPU_REQUIRED", "REIMPLEMENT",
     {"brae_reference", "validation", "note"}),
  Ported("interFoam_variableHeightFlowRate", "GPU_REQUIRED", "REIMPLEMENT",
     {"brae_reference", "validation", "note"}) >>
inter_13 == <<
  Ported("interFoam_LESkEqn", "GPU_REQUIRED", "REIMPLEMENT",
     {"brae_reference", "validation", "note"}),
  Ported("interFoam_wedgeCoefficients", "GPU_REQUIRED", "REIMPLEMENT",
     {"brae_reference", "validation", "note"}),
  Ported("interFoam_cyclic", "GPU_REQUIRED", "REIMPLEMENT",
     {"brae_reference", "validation", "note"}),
  Ported("interFoam_cyclicACMI", "GPU_REQUIRED", "REIMPLEMENT",
     {"brae_reference", "validation", "note"}) >>
inter_14 == <<
  Ported("interFoam_cyclicAMI", "GPU_REQUIRED", "REIMPLEMENT",
     {"brae_reference", "validation", "note"}),
  Ported("interFoam_faceAreaWeightAMI", "HOST_ONLY", "REIMPLEMENT",
     {"brae_reference", "validation", "note"}),
  Ported("interFoam_codedPatchFunction1", "HOST_ONLY", "REIMPLEMENT",
     {"brae_reference", "validation", "note"}),
  Ported("interFoam_porousBafflePressure", "GPU_REQUIRED", "REIMPLEMENT",
     {"brae_reference", "validation", "note"}) >>
inter_15 == <<
  Ported("interFoam_permeableWall", "GPU_REQUIRED", "REIMPLEMENT",
     {"brae_reference", "validation", "note"}) >>
inter_16 == <<
  Ported("interFoam_waveModel", "BOUNDARY_CONDITION", "REIMPLEMENT",
     {"brae_reference", "validation", "note"}) >>
inter_17 == <<
  Ported("interFoam_GAMG", "LINEAR_SOLVER", "REIMPLEMENT",
     {"brae_reference", "brae_target", "validation", "note"}) >>
inter_18 == <<
  Ported("interFoam_solidBodyMotion", "HOST_ONLY", "REIMPLEMENT",
     {"brae_reference", "validation", "note"}),
  Ported("interFoam_rigidBodyMotion", "HOST_ONLY", "REIMPLEMENT",
     {"brae_reference", "validation", "note"}),
  Ported("interFoam_pointConstraints", "HOST_ONLY", "REIMPLEMENT",
     {"brae_reference", "validation", "note"}) >>
inter_19 == <<
  Ported("interFoam_displacementLaplacian", "GPU_REQUIRED", "REIMPLEMENT",
     {"brae_reference", "validation", "note"}),
  Ported("interFoam_waveMaker", "HOST_ONLY", "REIMPLEMENT",
     {"brae_reference", "validation", "note"}) >>
inter_20 == <<
  Ported("interFoam_dynamicRefine", "HOST_ONLY", "REIMPLEMENT",
     {"brae_reference", "validation", "note"}) >>
inter_21 == <<
  Ported("interFoam_dynamicMesh", "GPU_REQUIRED", "REIMPLEMENT",
     {"brae_reference", "validation", "note"}),
  Ported("interFoam_correctPhi", "GPU_REQUIRED", "REIMPLEMENT",
     {"brae_reference", "validation", "note"}) >>
inter_22 == <<
  Ported("interFoam_interfaceCompression", "GPU_REQUIRED", "REIMPLEMENT",
     {"brae_reference", "validation", "note"}),
  Ported("interFoam_pressureReference", "GPU_REQUIRED", "REIMPLEMENT",
     {"brae_reference", "validation", "note"}),
  Ported("interFoam_vanLeerV", "SHARED_NUMERICAL", "REIMPLEMENT",
     {"brae_reference", "brae_target", "validation", "note"}),
  Ported("interFoam_limitedLinear", "SHARED_NUMERICAL", "REIMPLEMENT",
     {"brae_reference", "validation", "note"}) >>
inter_23 == <<
  Ported("interFoam_nonOrthCorrection", "SHARED_NUMERICAL", "REIMPLEMENT",
     {"brae_reference", "validation", "note"}),
  Ported("interFoam_vanLeer", "SHARED_NUMERICAL", "REIMPLEMENT",
     {"brae_reference", "brae_target", "validation", "note"}),
  Ported("interFoam_alphaCourantNo", "CONFIGURATION", "REIMPLEMENT",
     {"brae_reference", "brae_target", "validation", "note"}) >>
inter_24 == <<
  Ported("interFoam_createFields", "CONFIGURATION", "REIMPLEMENT",
     {"brae_reference", "brae_target", "validation", "note"}) >>
rhoSimple_1 == <<
  Ported("rhoSimpleFoam_main", "HOST_ONLY", "REIMPLEMENT",
     {"brae_reference", "brae_target", "validation", "note"}),
  Ported("createFields", "HOST_ONLY", "REIMPLEMENT",
     {"brae_reference", "brae_target", "validation", "note"}),
  Ported("UEqn", "GPU_REQUIRED", "REIMPLEMENT",
     {"brae_reference", "brae_target", "validation", "note"}),
  Ported("EEqn", "GPU_REQUIRED", "REIMPLEMENT",
     {"brae_reference", "brae_target", "validation", "note"}),
  Ported("pEqn", "GPU_REQUIRED", "REIMPLEMENT",
     {"brae_reference", "brae_target", "validation", "note"}),
  Ported("pcEqn", "GPU_REQUIRED", "REIMPLEMENT",
     {"brae_reference", "brae_target", "validation", "note"}),
  Ported("kEpsilon_compressible", "GPU_REQUIRED", "REIMPLEMENT",
     {"brae_reference", "brae_target", "validation", "note"}),
  Ported("createFieldRefs", "HOST_ONLY", "REIMPLEMENT",
     {"brae_reference", "brae_target", "validation", "note"}) >>
rhoSimple_2 == <<
  Ported("leastSquaresGrad", "SHARED_NUMERICAL", "PORTED",
     {"brae_existing", "brae_reference", "brae_target", "validation", "note"}),
  Ported("fvm_ddt_closure", "SHARED_NUMERICAL", "PORTED",
     {"validation", "brae_files", "notes"}) >>
rhoSimple_3 == <<
  Ported("generalizedNewtonian_compressible", "GPU_REQUIRED", "REIMPLEMENT",
     {"brae_reference", "brae_target", "validation", "note"}),
  Ported("PatchFunction1Expression", "HOST_ONLY", "PORTED",
     {"brae_reference", "brae_target", "validation", "note"}) >>
-----------------------------------------------------------------------------
COMPONENTS == [
  simpleFoam |-> simple_1 \o simple_2 \o simple_3 \o simple_4 \o simple_5 \o
      simple_6 \o simple_7 \o simple_8 \o simple_9,
  interFoam |-> inter_1 \o inter_2 \o inter_3 \o inter_4 \o inter_5 \o
      inter_6 \o inter_7 \o inter_8 \o inter_9 \o inter_10 \o inter_11 \o
      inter_12 \o inter_13 \o inter_14 \o inter_15 \o inter_16 \o inter_17
      \o inter_18 \o inter_19 \o inter_20 \o inter_21 \o inter_22 \o
      inter_23 \o inter_24,
  rhoSimpleFoam |-> rhoSimple_1 \o rhoSimple_2 \o rhoSimple_3 ]
=============================================================================
