SPECIFICATION Spec
CONSTANTS
  t1 = t1
  t2 = t2
  Threads = {t1, t2}
  Names <- MCNames
  Licenses <- MCLicenses
  CipherMode <- MCCipherMode
  ExtensionLength = 3
  LicenseLength <- MCLicenseLength
  OldFiles <- MCOldFiles
  Cuts <- MCCuts
  MaxObjects = 2
SYMMETRY Symmetry
INVARIANTS
  TypeOK
  StartsAgree
  NewFilesReadable
PROPERTY
  OldFilesGetCBC4K
