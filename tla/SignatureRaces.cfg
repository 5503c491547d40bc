SPECIFICATION Spec
CONSTANTS
  SignerIds = {s1, s2, s3}
  Emails = {ada, bob}
  Threads = {t1, t2}
  NoSigner = NoSigner
  Deleted = Deleted
  NoId = NoId
  NoThread = NoThread
SYMMETRY SignatureSymmetry
INVARIANTS TypeOK StatusTellsSigners OneSignerPerEmail LogTellsSigners
PROPERTIES NothingSignedWhenArchived ImplementsSigning
