SPECIFICATION Spec
CONSTANTS
  MaxByte = 3
  LeadByte = 2
  MERGE_HASH_SIZE = 4
  TOK_MAX_TEXT = 4
  MAX_NODES = 5
  MaxIds = {3, 8}
  BufSizes = {5, 8}
  Files <- MCFiles
  BlockSize <- MCBlockSize
  BlockBytes <- MCBlockBytes
  GGUF_ALIGN = 8
  MAX_TENSORS = 4
  n_layers = 2
  tie_weights = TRUE
  SizeMod = 256
  MaskMod = 128
  MaxInits = 3
  Token = {1, 2}
  bos_id = 1
  eos_id = 2
  n_heads = 4
  n_kv_heads = 2
  head_dim = 2
  max_seq_len = 3
  MaxNew = 2
  FfnHidden = {0, 4}
  MaxPrompt = 2
  MaxCalls = 2
  n = 5
  MaxWeight = 2
  LIM = 3
  Unit = 4
  TopK = {0, 2, 4}
  TopP = {2, 3, 4}
INVARIANT FeedForwardInPlace
CHECK_DEADLOCK FALSE
