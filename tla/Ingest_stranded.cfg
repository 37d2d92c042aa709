\* A fault of any poll, and an offer that is never published.
SPECIFICATION FairSpec
CONSTANTS
  beat1 = beat1
  beat2 = beat2
  pull1 = pull1
  pull2 = pull2
  NoItem = NoItem
  Item <- Items
  Poller <- Pollers
  Beat <- Beats
  limit <- Limits
  task_source_poll_batch_size = 2
  prompt_size <- Sizes
  infra_cost_per_task_usd = 2000
  token_cost_per_1k_usd = 1500
  success_probability = 85
  min_margin_usd = 35000
  MaxFaults = 1
PROPERTY ProfitableIsEnqueued
