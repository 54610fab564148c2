---------------------------- MODULE BenchmarkTable ----------------------------
(***************************************************************************)
(* The benchmark list of src/bin/benchmarks.py: per-suite strings of       *)
(* space-separated names built with += (lines 34-113), concatenated into   *)
(* ALL_BENCHMARKS by the loop of lines 115-120, and the tables benchCD and *)
(* benchCMD that give each benchmark its directory and command line (lines *)
(* 123-741).  A launcher runs the names ALL_BENCHMARKS.split() yields.     *)
(*                                                                         *)
(* TLC cannot take strings apart, so a string is kept as the sequence of   *)
(* its tokens: names and the separator " ".  Concatenation is \o on these  *)
(* sequences; Split glues adjacent name tokens, as concatenating two       *)
(* literals without a space between them would.  A value of the three     *)
(* dictionaries is abstracted to the section of lines 130-741 that         *)
(* assigned it: its directory, command and prefix belong to that suite.    *)
(***************************************************************************)
EXTENDS Integers, Sequences, SequencesExt

VARIABLES
    ALL_BENCHMARKS,  \* the string built so far, as tokens
    n,               \* index of the next suite of the loop
    benchCD,         \* key -> the section whose directory it was given
    benchCMD,        \* key -> the section whose command line it was given
    benchPrefix,     \* key -> the section whose environment prefix it was given
    m,               \* index of the section being executed
    e                \* index of the next entry of that section

vars == <<ALL_BENCHMARKS, n, benchCD, benchCMD, benchPrefix, m, e>>

\* A string literal: its names separated by single spaces, with a trailing
\* space when tr.
Lit(ws, tr) ==
    LET body == [j \in 1..2 * Len(ws) - 1 |->
                   IF j % 2 = 1 THEN ws[(j + 1) \div 2] ELSE " "]
    IN  IF tr THEN Append(body, " ") ELSE body

\* str.split(): the maximal runs of non-separator tokens, each joined.
RECURSIVE WordFrom(_, _)
WordFrom(s, p) == IF p > Len(s) \/ s[p] = " " THEN "" ELSE s[p] \o WordFrom(s, p + 1)

Split(s) ==
    LET starts == SelectSeq([p \in DOMAIN s |-> p],
                            LAMBDA p : s[p] # " " /\ (p = 1 \/ s[p - 1] = " "))
    IN  [j \in DOMAIN starts |-> WordFrom(s, starts[j])]

-----------------------------------------------------------------------------
(* Lines 34-113, one definition per suite variable. *)
RODINIA ==
    Lit(<<"backprop", "bfs", "b+tree", "cfd", "dwt2d", "gaussian", "heartwall", "hotspot", "hotspot3D">>, TRUE)
    \o Lit(<<"hybridsort", "kmeans", "lavaMD", "leukocyte", "lud", "myocyte", "nn", "nw">>, TRUE)
    \o Lit(<<"particlefilter", "pathfinder", "srad", "streamcluster">>, FALSE)

SHOC ==
    Lit(<<"DeviceMemory", "MaxFlops", "BFS", "FFT", "GEMM", "MD", "md5hash", "Reduction", "Sort", "Scan", "Spmv">>, TRUE)
    \o Lit(<<"Stencil2D", "Triad", "S3D">>, FALSE)

PHORONIX ==
    Lit(<<"juliaGPU", "mandelbulbGPU", "smallptGPU", "MandelGPU">>, FALSE)

OPENDWARFS ==
    Lit(<<"bwa_hmm", "crc", "csr", "nqueens", "swat", "tdm", "gem">>, FALSE)

PROXYAPPS ==
    Lit(<<"CoMD", "CoMD-LJ", "lulesh", "XSBench", "SNAP", "SNAP_MPI">>, FALSE)

AMDAPP ==
    Lit(<<"AdvancedConvolution", "BlackScholes", "BlackScholesDP", "BinomialOption">>, TRUE)
    \o Lit(<<"BitonicSort", "BoxFilter", "BufferBandwidth", "BufferImageInterop", "DCT">>, TRUE)
    \o Lit(<<"DwtHaar1D", "EigenValue", "FastWalshTransform", "FloydWarshall">>, TRUE)
    \o Lit(<<"FluidSimulation2D", "GaussianNoise", "HDRToneMapping", "Histogram">>, TRUE)
    \o Lit(<<"ImageBandwidth", "ImageBinarization", "ImageOverlap", "KmeansAutoClustering">>, TRUE)
    \o Lit(<<"Mandelbrot", "MatrixMultiplication", "MatrixMulDouble", "MatrixTranspose">>, TRUE)
    \o Lit(<<"MersenneTwister", "MonteCarloAsian", "MonteCarloAsianDP", "NBody", "PrefixSum">>, TRUE)
    \o Lit(<<"QuasiRandomSequence", "RadixSort", "RecursiveGaussian", "Reduction-AMD">>, TRUE)
    \o Lit(<<"ScanLargeArrays", "SimpleConvolution", "SobelFilter", "StringSearch">>, TRUE)
    \o Lit(<<"UnsharpMask", "URNG">>, FALSE)

AMDAPP_CL2 ==
    Lit(<<"BinarySearchDeviceSideEnqueue", "CalcPie", "DeviceEnqueueBFS">>, TRUE)
    \o Lit(<<"ExtractPrimes", "RangeMinimumQuery", "SVMBinaryTreeSearch">>, FALSE)

\* Line 70 reads PARBOIL=="pb-spmv tpacf": a comparison whose value is
\* discarded, so PARBOIL keeps the value of line 69.
PARBOIL ==
    Lit(<<"pb-bfs", "stencil", "mri-gridding", "lbm", "sad", "histo", "mri-q", "cutcp", "pb-sgemm">>, TRUE)

PANNOTIA ==
    Lit(<<"bc", "color", "fw", "mis", "prk", "sssp">>, FALSE)

STREAMMR ==
    Lit(<<"mr-kmeans", "mr-matrixmul", "stringmatch", "wordcount">>, FALSE)

POLYBENCH ==
    Lit(<<"correlation", "covariance", "2mm", "3mm", "atax", "bicg", "doitgen", "poly-gemm", "gemver">>, TRUE)
    \o Lit(<<"gesummv", "gramschmidt", "mvt", "syr2k", "syrk", "lu", "adi", "convolution-2d">>, TRUE)
    \o Lit(<<"convolution-3d", "fdtd-2d", "jacobi-1d-imper", "jacobi-2d-imper">>, FALSE)

FINANCEBENCH ==
    Lit(<<"FB-Black-Scholes", "FB-Monte-Carlo">>, FALSE)

GPUSTREAM ==
    Lit(<<"gpustream">>, FALSE)

MANTEVO ==
    Lit(<<"cloverleaf", "cloverleaf3d", "tealeaf", "tealeaf3d">>, FALSE)

HETEROMARK ==
    Lit(<<"aes_hm", "fir_hm", "hmm_hm", "iir_hm", "kmeans_hm", "pagerank_hm", "sw_hm">>, FALSE)

HETEROMARK_CL2 ==
    Lit(<<"aes_hm_cl2", "fir_hm_cl2", "hmm_hm_cl2", "iir_hm_cl2", "kmeans_hm_cl2">>, TRUE)
    \o Lit(<<"pagerank_hm_cl2", "sw_hm_cl2">>, FALSE)

LINPACK ==
    Lit(<<"hpl">>, FALSE)

VIENNACL ==
    Lit(<<"dense_blas-bench-opencl", "amg", "bisect", "custom-kernels", "matrix-free", "nmf">>, TRUE)
    \o Lit(<<"blas3_solve-test-opencl", "sparse_prod-test-opencl">>, FALSE)

NPB_OCL ==
    Lit(<<"npb_ocl_bt", "npb_ocl_cg", "npb_ocl_ep", "npb_ocl_ft", "npb_ocl_is", "npb_ocl_lu">>, TRUE)
    \o Lit(<<"npb_ocl_mg", "npb_ocl_sp">>, FALSE)
\* The list of line 116-119.
Suites ==
    <<RODINIA, SHOC, PHORONIX, OPENDWARFS, PROXYAPPS, AMDAPP, AMDAPP_CL2,
      PARBOIL, PANNOTIA, STREAMMR, POLYBENCH, FINANCEBENCH, GPUSTREAM,
      MANTEVO, HETEROMARK, HETEROMARK_CL2, LINPACK, VIENNACL, NPB_OCL>>

(***************************************************************************)
(* Lines 130-741: one section per suite, a block of dictionary items per   *)
(* benchmark: benchCD[key] and benchCMD[key], and in some sections a       *)
(* benchPrefix[key].  A section is the sequence of its keys, in the order  *)
(* of the code, and the keys that get a prefix.                            *)
(***************************************************************************)
Entries(ks) == [keys |-> ks, prefixed |-> {}]

PrefixedEntries(ks) == [keys |-> ks, prefixed |-> ToSet(ks)]

\* Lines 131-192.
RODINIA_TABLE ==
    Entries(<<"backprop", "bfs", "b+tree", "cfd", "dwt2d", "gaussian",
              "heartwall", "hotspot", "hotspot3D", "hybridsort", "kmeans",
              "lavaMD", "leukocyte", "lud", "myocyte", "nn", "nw",
              "particlefilter", "pathfinder", "streamcluster", "srad">>)

\* Lines 197-237.
SHOC_TABLE ==
    Entries(<<"DeviceMemory", "MaxFlops", "BFS", "FFT", "GEMM", "MD",
              "md5hash", "Reduction", "Scan", "Sort", "Spmv", "Stencil2D",
              "Triad", "S3D">>)

\* Lines 242-256.
PHORONIX_TABLE ==
    PrefixedEntries(<<"juliaGPU", "mandelbulbGPU", "smallptGPU", "MandelGPU">>)

\* Lines 261-280.
OPENDWARFS_TABLE ==
    Entries(<<"bwa_hmm", "crc", "csr", "nqueens", "swat", "tdm", "gem">>)

\* Lines 285-302.
PROXYAPPS_TABLE ==
    Entries(<<"CoMD", "CoMD-LJ", "lulesh", "XSBench", "SNAP", "SNAP_MPI">>)

\* Lines 307-425.
AMDAPP_TABLE ==
    Entries(<<"AdvancedConvolution", "BlackScholes", "BlackScholesDP",
              "BinomialOption", "BitonicSort", "BoxFilter",
              "BufferBandwidth", "BufferImageInterop", "DCT", "DwtHaar1D",
              "EigenValue", "FastWalshTransform", "FloydWarshall",
              "FluidSimulation2D", "GaussianNoise", "HDRToneMapping",
              "Histogram", "ImageBandwidth", "ImageBinarization",
              "ImageOverlap", "KmeansAutoClustering", "Mandelbrot",
              "MatrixMultiplication", "MatrixMulDouble", "MatrixTranspose",
              "MersenneTwister", "MonteCarloAsian", "MonteCarloAsianDP",
              "NBody", "PrefixSum", "QuasiRandomSequence", "RadixSort",
              "RecursiveGaussian", "Reduction-AMD", "ScanLargeArrays",
              "SimpleConvolution", "SobelFilter", "StringSearch",
              "UnsharpMask", "URNG">>)

\* Lines 430-446.
AMDAPP_CL2_TABLE ==
    Entries(<<"BinarySearchDeviceSideEnqueue", "CalcPie",
              "DeviceEnqueueBFS", "ExtractPrimes", "RangeMinimumQuery",
              "SVMBinaryTreeSearch">>)

\* Lines 451-482.
PARBOIL_TABLE ==
    Entries(<<"pb-bfs", "stencil", "mri-gridding", "lbm", "sad", "histo",
              "mri-q", "cutcp", "pb-sgemm", "pb-spmv", "tpacf">>)

\* Lines 488-504.
PANNOTIA_TABLE ==
    Entries(<<"bc", "color", "fw", "mis", "prk", "sssp">>)

\* Fault variant of STREAMMR_TABLE: mr-kmeans keyed as "kmeans", the key
\* of Rodinia's kmeans.
STREAMMR_TABLE_Collides ==
    Entries(<<"kmeans", "mr-matrixmul", "stringmatch", "wordcount">>)

\* Lines 510-520.
STREAMMR_TABLE ==
    Entries(<<"mr-kmeans", "mr-matrixmul", "stringmatch", "wordcount">>)

\* Lines 525-586.
POLYBENCH_TABLE ==
    Entries(<<"correlation", "covariance", "2mm", "3mm", "atax", "bicg",
              "doitgen", "poly-gemm", "gemver", "gesummv", "mvt", "syr2k",
              "syrk", "gramschmidt", "lu", "adi", "convolution-2d",
              "convolution-3d", "fdtd-2d", "jacobi-1d-imper",
              "jacobi-2d-imper">>)

\* Lines 591-595.
FINANCEBENCH_TABLE ==
    Entries(<<"FB-Black-Scholes", "FB-Monte-Carlo">>)

\* Lines 600-601.
GPUSTREAM_TABLE ==
    Entries(<<"gpustream">>)

\* Lines 606-616.
MANTEVO_TABLE ==
    Entries(<<"cloverleaf", "cloverleaf3d", "tealeaf", "tealeaf3d">>)

\* Lines 621-647.
HETEROMARK_TABLE ==
    PrefixedEntries(<<"aes_hm", "fir_hm", "hmm_hm", "iir_hm", "kmeans_hm",
                      "pagerank_hm", "sw_hm">>)

\* Lines 652-671.
HETEROMARK_CL2_TABLE ==
    Entries(<<"aes_hm_cl2", "fir_hm_cl2", "hmm_hm_cl2", "iir_hm_cl2",
              "kmeans_hm_cl2", "pagerank_hm_cl2", "sw_hm_cl2">>)

\* Lines 676-678.
LINPACK_TABLE ==
    PrefixedEntries(<<"hpl">>)

\* Lines 683-705.
VIENNACL_TABLE ==
    Entries(<<"dense_blas-bench-opencl", "amg", "bisect", "custom-kernels",
              "matrix-free", "nmf", "blas3_solve-test-opencl",
              "sparse_prod-test-opencl">>)

\* Lines 710-740.
NPB_OCL_TABLE ==
    PrefixedEntries(<<"npb_ocl_bt", "npb_ocl_cg", "npb_ocl_ep",
                      "npb_ocl_ft", "npb_ocl_is", "npb_ocl_lu",
                      "npb_ocl_mg", "npb_ocl_sp">>)

\* The sections in the order of the file.
Tables ==
    <<RODINIA_TABLE, SHOC_TABLE, PHORONIX_TABLE, OPENDWARFS_TABLE,
      PROXYAPPS_TABLE, AMDAPP_TABLE, AMDAPP_CL2_TABLE, PARBOIL_TABLE,
      PANNOTIA_TABLE, STREAMMR_TABLE, POLYBENCH_TABLE, FINANCEBENCH_TABLE,
      GPUSTREAM_TABLE, MANTEVO_TABLE, HETEROMARK_TABLE, HETEROMARK_CL2_TABLE,
      LINPACK_TABLE, VIENNACL_TABLE, NPB_OCL_TABLE>>

\* d[key] = v on a Python dict: a new key is added, an existing one is
\* overwritten.
Assign(d, key, v) == (key :> v) @@ d

-----------------------------------------------------------------------------
\* Lines 115 and 123-125.
Init ==
    /\ ALL_BENCHMARKS = <<>>
    /\ n = 1
    /\ benchCD = <<>>
    /\ benchCMD = <<>>
    /\ benchPrefix = <<>>
    /\ m = 1
    /\ e = 1

\* Lines 116-120: ALL_BENCHMARKS += bench + " ".
AppendSuite ==
    /\ n <= Len(Suites)
    /\ ALL_BENCHMARKS' = ALL_BENCHMARKS \o Suites[n] \o <<" ">>
    /\ n' = n + 1
    /\ UNCHANGED <<benchCD, benchCMD, benchPrefix, m, e>>

\* One block of section m, after the loop: the items of one key.
ConfigureEntry ==
    /\ n > Len(Suites)
    /\ m <= Len(Tables)
    /\ e <= Len(Tables[m].keys)
    /\ LET key == Tables[m].keys[e]
       IN  /\ benchCD' = Assign(benchCD, key, m)
           /\ benchCMD' = Assign(benchCMD, key, m)
           /\ benchPrefix' = IF key \in Tables[m].prefixed
                               THEN Assign(benchPrefix, key, m)
                               ELSE benchPrefix
    /\ e' = e + 1
    /\ UNCHANGED <<ALL_BENCHMARKS, n, m>>

\* The end of a section.
EndSection ==
    /\ n > Len(Suites)
    /\ m <= Len(Tables)
    /\ e > Len(Tables[m].keys)
    /\ m' = m + 1
    /\ e' = 1
    /\ UNCHANGED <<ALL_BENCHMARKS, n, benchCD, benchCMD, benchPrefix>>

Next == AppendSuite \/ ConfigureEntry \/ EndSection

Spec == Init /\ [][Next]_vars

\* The module has run to its end.
Loaded == n > Len(Suites) /\ m > Len(Tables)

-----------------------------------------------------------------------------
\* The suite whose string lists the name w.
SuiteOf(w) == CHOOSE j \in 1..Len(Suites) : w \in ToSet(Split(Suites[j]))

(***************************************************************************)
(* The launcher can run every name ALL_BENCHMARKS.split() yields: it has a *)
(* directory and a command line, and they, like any environment prefix,   *)
(* are the ones its own suite's section wrote.  The 176 names are listed   *)
(* by the loop of lines 116-120 and given entries by 178 separate blocks   *)
(* of lines 130-741; a key spelt differently, left out, or reused by a     *)
(* later section (which silently overwrites the item) breaks it.           *)
(***************************************************************************)
EveryListedBenchmarkRunsFromItsSuite ==
    Loaded =>
        \A w \in ToSet(Split(ALL_BENCHMARKS)) :
            /\ w \in DOMAIN benchCD /\ benchCD[w] = SuiteOf(w)
            /\ w \in DOMAIN benchCMD /\ benchCMD[w] = SuiteOf(w)
            /\ w \in DOMAIN benchPrefix => benchPrefix[w] = SuiteOf(w)

(***************************************************************************)
(* Every benchmark that has a directory in benchCD is in the list the      *)
(* launcher runs.  The suite comments count 11 Parboil benchmarks; line 70 *)
(* writes == for +=, so pb-spmv and tpacf, configured at lines 478-482,    *)
(* are never listed.                                                       *)
(***************************************************************************)
EveryConfiguredBenchmarkListed ==
    Loaded => DOMAIN benchCD \subseteq ToSet(Split(ALL_BENCHMARKS))
=============================================================================
