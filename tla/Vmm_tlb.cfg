\* Three cores map, map again and unmap neighbouring pages that two page maps share,
\* and cache one of them at any time.
SPECIFICATION Spec
CONSTANTS
  Cores = {c1, c2, c3}
  Frames = {1, 2, 3, 4, 5, 6, 7, 8, 9, 10, 11, 12, 13}
  Data = {20}
  Index = {0, 1}
  KernelIndex = {1}
  KernelTop = {1}
  Virt <- KernelPages
  Accessed <- CachedPage
  Modes = {FALSE, TRUE}
  MaxMaps = 2
  LowestFirst = TRUE
SYMMETRY CoreSymmetry
INVARIANTS
  PermissionsAsMapped CachedTranslationsCurrent
